------------------------- MODULE HttpSessionProofs -------------------------
(***************************************************************************)
(* HandedOverIntact and OverrunHasCause, for all requests that the parser  *)
(* understands (ParserAssumption), however their bytes are divided over    *)
(* reads, and for every number of them.                                    *)
(*                                                                         *)
(* What is inductive says where the bytes of the request are that is being *)
(* received: p of them taken, in the parser, in the body or in the hand of *)
(* handleClient(), and those up to m on the wire.  It holds as long as no  *)
(* read ended inside a token and the client waits for its answers: then    *)
(* the bytes on the wire belong to one request, and what a read of the     *)
(* head takes beyond the head is no more than its body.                    *)
(***************************************************************************)
EXTENDS HttpSession, SequenceTheorems, TLAPS

Bytes(r) == HeadBytes(r) \o r.body
Piece(s, from, to) == SubSeq(s, from + 1, to)

\* A request as recvRequest() has it when it has read p of its bytes, and as a servlet
\* gets it.
Part(r, p) == [Headed(r) EXCEPT !.body = Piece(r.body, 0, p - Len(HeadBytes(r)))]
Served(r) == InitClose([Headed(r) EXCEPT !.body = r.body])

\* handleClient() has taken p bytes of r.
InHead(s, r, p) ==
  s.pc = "head" /\ p < Len(HeadBytes(r)) /\ s.parser \in Reached(r, p)
InBody(s, r, p) ==
  /\ s.pc = "body" /\ Len(HeadBytes(r)) <= p /\ p < Len(Bytes(r))
  /\ s.cap = Len(Bytes(r)) - p /\ s.request = Part(r, p)
InHand(s, r, p) == s.pc = "handle" /\ p = Len(Bytes(r)) /\ s.request = Served(r)
Taken(s, r, p) == InHead(s, r, p) \/ InBody(s, r, p) \/ InHand(s, r, p)

\* The client has written m bytes of r: all of them, or it has given up.
Sent(r, m) ==
  \/ /\ m = Len(Bytes(r)) /\ Len(written) = Len(handed) + 1
     /\ written[Len(written)] = r
  \/ m < Len(Bytes(r)) /\ ~open /\ Len(written) = Len(handed)

UnderWay ==
  \E r \in Requests : \E m \in 0 .. Len(Bytes(r)) : \E p \in 0 .. m :
    Taken(srv, r, p) /\ wire = Piece(Bytes(r), p, m) /\ Sent(r, m)
Idle ==
  /\ srv.pc = "head" /\ wire = <<>> /\ Len(written) = Len(handed)
  /\ \E rx \in Relaxed : srv.parser = NewParser(rx)

Shape ==
  /\ written \in Seq(Requests)
  /\ srv = [pc |-> srv.pc, parser |-> srv.parser, reads |-> srv.reads,
            request |-> srv.request, cap |-> srv.cap, npos |-> srv.npos]
Delivered ==
  /\ handed \in Seq({Served(r) : r \in Requests}) /\ Len(handed) <= Len(written)
  /\ \A i \in DOMAIN handed : handed[i] = Served(written[i])
  /\ (\E S : answers \in Seq(S)) /\ Len(answers) = Len(handed)
Waits == srv.pc = "closed" \/ Idle \/ UnderWay

\* A body that was cut short is the last request of its connection.
LastOne == ~open /\ wire = <<>> /\ srv.pc \in {"head", "handle", "closed"}

Orderly ==
  \/ cut \/ ahead
  \/ short /\ LastOne
  \/ ~short /\ Delivered /\ Waits

-----------------------------------------------------------------------------
(* Sequences: a piece of a piece, pieces side by side, and pieces of a whole. *)
IsPiece(u, S, s, a, n) == u \in Seq(S) /\ Len(u) = n /\ \A k \in 1 .. n : u[k] = s[a + k]

LEMMA Pieces ==
  ASSUME NEW S, NEW s \in Seq(S), NEW b \in 0 .. Len(s), NEW a \in 0 .. b,
         NEW n \in Nat, n = b - a
  PROVE  IsPiece(Piece(s, a, b), S, s, a, n)
<1>1. Len(s) \in Nat /\ \A i \in 1 .. Len(s) : s[i] \in S
  BY LenProperties
<1>2. \A i \in a + 1 .. b : s[i] \in S
  BY <1>1
<1>3. /\ SubSeq(s, a + 1, b) \in Seq(S)
      /\ Len(SubSeq(s, a + 1, b)) = IF a + 1 <= b THEN b - (a + 1) + 1 ELSE 0
      /\ \A i \in 1 .. b - (a + 1) + 1 : SubSeq(s, a + 1, b)[i] = s[a + 1 + i - 1]
  BY <1>1, <1>2, SubSeqProperties
<1>4. b - (a + 1) + 1 = b - a /\ \A i \in 1 .. b - a : a + 1 + i - 1 = a + i
  BY <1>1
<1>5. \A i \in 1 .. b - a : SubSeq(s, a + 1, b)[i] = s[a + i]
  BY <1>3, <1>4
<1>6. Len(SubSeq(s, a + 1, b)) = b - a
  BY <1>1, <1>3
<1> QED  BY <1>3, <1>5, <1>6 DEF Piece, IsPiece

LEMMA PieceOfPiece ==
  ASSUME NEW S, NEW s \in Seq(S), NEW b \in 0 .. Len(s), NEW a \in 0 .. b,
         NEW j \in 0 .. b - a, NEW i \in 0 .. j
  PROVE  Piece(Piece(s, a, b), i, j) = Piece(s, a + i, a + j)
<1> DEFINE u == Piece(s, a, b)
           v == Piece(u, i, j)
           w == Piece(s, a + i, a + j)
<1>1. Len(s) \in Nat
  BY LenProperties
<1>0. b - a \in Nat /\ j - i \in Nat
  BY <1>1
<1>2. IsPiece(u, S, s, a, b - a)
  BY <1>0, Pieces
<1>3. a + j \in 0 .. Len(s) /\ a + i \in 0 .. a + j /\ j - i = (a + j) - (a + i) /\ j \in 0 .. Len(u)
  BY <1>1, <1>2 DEF IsPiece
<1>4. IsPiece(w, S, s, a + i, j - i)
  BY <1>0, <1>3, Pieces
<1> HIDE DEF u, w
<1>5. IsPiece(v, S, u, i, j - i)
  <2>1. u \in Seq(S)
    BY <1>2 DEF IsPiece
  <2> QED  BY <1>0, <1>3, <2>1, Pieces
<1> HIDE DEF v
<1>6. ASSUME NEW k \in 1 .. j - i PROVE v[k] = w[k]
  <2>1. i + k \in 1 .. b - a /\ a + (i + k) = a + i + k
    BY <1>1
  <2> QED  BY <1>2, <1>4, <1>5, <2>1 DEF IsPiece
<1>7. v = w
  BY <1>4, <1>5, <1>6, SeqEqual DEF IsPiece
<1> QED  BY <1>7 DEF u, v, w

LEMMA PiecesJoin ==
  ASSUME NEW S, NEW s \in Seq(S), NEW c \in 0 .. Len(s), NEW b \in 0 .. c, NEW a \in 0 .. b
  PROVE  Piece(s, a, b) \o Piece(s, b, c) = Piece(s, a, c)
<1> DEFINE u == Piece(s, a, b)
           v == Piece(s, b, c)
           w == Piece(s, a, c)
<1>1. Len(s) \in Nat
  BY LenProperties
<1>0. b \in 0 .. Len(s) /\ a \in 0 .. c /\ b - a \in Nat /\ c - b \in Nat /\ c - a \in Nat
  BY <1>1
<1>2. IsPiece(u, S, s, a, b - a)
  BY <1>0, Pieces
<1>3. IsPiece(v, S, s, b, c - b)
  BY <1>0, Pieces
<1>4. IsPiece(w, S, s, a, c - a)
  BY <1>0, Pieces
<1> HIDE DEF u, v, w
<1>5. /\ u \o v \in Seq(S) /\ Len(u \o v) = Len(u) + Len(v)
      /\ \A k \in 1 .. Len(u) + Len(v) : (u \o v)[k] = IF k <= Len(u) THEN u[k] ELSE v[k - Len(u)]
  BY <1>2, <1>3, ConcatProperties DEF IsPiece
<1>6. Len(u \o v) = c - a
  BY <1>2, <1>3, <1>5 DEF IsPiece
<1>7. ASSUME NEW k \in 1 .. c - a PROVE (u \o v)[k] = w[k]
  <2>1. (u \o v)[k] = IF k <= b - a THEN u[k] ELSE v[k - (b - a)]
    BY <1>2, <1>3, <1>5 DEF IsPiece
  <2>2. CASE k <= b - a
    BY <1>2, <1>4, <2>1, <2>2 DEF IsPiece
  <2>3. CASE ~(k <= b - a)
    <3>1. k - (b - a) \in 1 .. c - b /\ b + (k - (b - a)) = a + k
      BY <2>3
    <3> QED  BY <1>3, <1>4, <2>1, <2>3, <3>1 DEF IsPiece
  <2> QED  BY <2>2, <2>3
<1>8. u \o v = w
  BY <1>4, <1>5, <1>6, <1>7, SeqEqual DEF IsPiece
<1> QED  BY <1>8 DEF u, v, w

LEMMA WholePiece ==
  ASSUME NEW S, NEW s \in Seq(S)
  PROVE  Piece(s, 0, Len(s)) = s /\ Piece(s, 0, 0) = <<>>
<1>1. Piece(s, 0, Len(s)) = s
  BY SubSeqFull DEF Piece
<1>2. SubSeq(s, 1, 0) = <<>>
  BY SubSeqEmpty
<1> QED  BY <1>1, <1>2 DEF Piece

-----------------------------------------------------------------------------
(* What the bytes of a request are made of. *)
LEMMA RequestFacts ==
  ASSUME NEW r \in Requests
  PROVE  /\ HeadBytes(r) \in Seq(Byte) /\ Len(HeadBytes(r)) \in Nat \ {0}
         /\ r.body \in Seq(Byte) /\ Len(r.body) \in Nat /\ Len(r.body) \in 0 .. SizeMax - 1
         /\ Bytes(r) \in Seq(Byte) /\ Len(Bytes(r)) = Len(HeadBytes(r)) + Len(r.body)
<1>1. /\ HeadBytes(r) \in Seq(Byte) \ {<<>>} /\ r.body \in Seq(Byte) /\ Len(r.body) < SizeMax
  BY ParserAssumption
<1>2. Len(HeadBytes(r)) \in Nat \ {0} /\ Len(r.body) \in Nat
  BY <1>1, EmptySeq, LenProperties
<1>3. Bytes(r) \in Seq(Byte) /\ Len(Bytes(r)) = Len(HeadBytes(r)) + Len(r.body)
  BY <1>1, ConcatProperties DEF Bytes
<1>4. Len(r.body) \in 0 .. SizeMax - 1
  <2> DEFINE n == Len(r.body)
  <2> HIDE DEF n
  <2>1. n \in Nat /\ n < SizeMax
    BY <1>1, <1>2 DEF n
  <2>2. n \in 0 .. SizeMax - 1
    BY <2>1 DEF SizeMax
  <2> QED  BY <2>2 DEF n
<1> QED  BY <1>1, <1>2, <1>3, <1>4

(* A piece behind the head is a piece of the body. *)
LEMMA BodyPiece ==
  ASSUME NEW r \in Requests, NEW b \in 0 .. Len(r.body), NEW a \in 0 .. b
  PROVE  Piece(Bytes(r), Len(HeadBytes(r)) + a, Len(HeadBytes(r)) + b) = Piece(r.body, a, b)
<1> DEFINE h == Len(HeadBytes(r))
           u == Piece(Bytes(r), h + a, h + b)
           v == Piece(r.body, a, b)
<1>1. /\ HeadBytes(r) \in Seq(Byte) /\ h \in Nat /\ r.body \in Seq(Byte) /\ Len(r.body) \in Nat
      /\ Bytes(r) \in Seq(Byte) /\ Len(Bytes(r)) = h + Len(r.body)
  BY RequestFacts
<1>0. b - a \in Nat
  BY <1>1
<1>2. IsPiece(v, Byte, r.body, a, b - a)
  BY <1>0, <1>1, Pieces
<1>3. h + b \in 0 .. Len(Bytes(r)) /\ h + a \in 0 .. h + b /\ b - a = (h + b) - (h + a)
  BY <1>1
<1>4. IsPiece(u, Byte, Bytes(r), h + a, b - a)
  BY <1>0, <1>1, <1>3, Pieces
<1>5. \A k \in 1 .. h + Len(r.body) :
         Bytes(r)[k] = IF k <= h THEN HeadBytes(r)[k] ELSE r.body[k - h]
  BY <1>1, ConcatProperties DEF Bytes
<1> HIDE DEF h, u, v
<1>6. ASSUME NEW k \in 1 .. b - a PROVE u[k] = v[k]
  <2>1. h + a + k \in 1 .. h + Len(r.body) /\ ~(h + a + k <= h) /\ (h + a + k) - h = a + k
    BY <1>1
  <2> QED  BY <1>2, <1>4, <1>5, <2>1 DEF IsPiece
<1>7. u = v
  BY <1>2, <1>4, <1>6, SeqEqual DEF IsPiece
<1> QED  BY <1>7 DEF h, u, v

-----------------------------------------------------------------------------
(* The request that recvRequest() has read so far is long as its body says. *)
LEMMA PartFacts ==
  ASSUME NEW r \in Requests, NEW q \in 0 .. Len(r.body)
  PROVE  LET x == [Headed(r) EXCEPT !.body = Piece(r.body, 0, q)]
         IN  /\ Part(r, Len(HeadBytes(r)) + q) = x /\ x.body = Piece(r.body, 0, q)
             /\ LengthOf(x) = Len(r.body)
             /\ \A b : [x EXCEPT !.body = b] = [Headed(r) EXCEPT !.body = b]
<1> DEFINE text == Piece(r.body, 0, q)
           x == [Headed(r) EXCEPT !.body = text]
           h == Len(HeadBytes(r))
<1>1. "body" \in DOMAIN Headed(r) /\ "headers" \in DOMAIN Headed(r)
  <2>1. "body" \in DOMAIN EmptyRequest /\ "headers" \in DOMAIN EmptyRequest
    BY DEF EmptyRequest
  <2>2. DOMAIN Headed(r) = DOMAIN EmptyRequest
    BY DEF Headed
  <2> QED  BY <2>1, <2>2
<1>2. h \in Nat /\ (h + q) - h = q
  BY RequestFacts
<1>3. Part(r, h + q) = x
  BY <1>2 DEF Part
<1> HIDE DEF text
<1>4. x.body = text /\ x.headers = Headed(r).headers
  BY <1>1
<1>5. LengthOf(x) = LengthOf(Headed(r))
  <2> HIDE DEF x
  <2> QED  BY <1>4 DEF LengthOf
<1>6. ASSUME NEW b PROVE [x EXCEPT !.body = b] = [Headed(r) EXCEPT !.body = b]
  BY <1>1
<1>7. LengthOf(x) = Len(r.body)
  BY <1>5, ParserAssumption
<1> QED  BY <1>3, <1>4, <1>6, <1>7 DEF text

(* Subtracting what was read from the length does not wrap. *)
LEMMA NoWrap ==
  ASSUME NEW length \in 0 .. SizeMax - 1, NEW offset \in 0 .. length
  PROVE  Left(length, offset) = length - offset
BY DEF Left, SizeMax

(* The head is complete and q bytes of the body came with it. *)
LEMMA WithHeadTakes ==
  ASSUME Shape, NEW r \in Requests, NEW x, x.request = Headed(r),
         NEW q \in 0 .. Len(r.body)
  PROVE  LET s == WithHead(x, Piece(r.body, 0, q))
         IN  InBody(s, r, Len(HeadBytes(r)) + q) \/ InHand(s, r, Len(HeadBytes(r)) + q)
<1> DEFINE h == Len(HeadBytes(r))
           n == Len(r.body)
           rest == Piece(r.body, 0, q)
           request == [Headed(r) EXCEPT !.body = rest]
           s == WithHead(x, rest)
<1>1. /\ h \in Nat /\ r.body \in Seq(Byte) /\ n \in Nat /\ n \in 0 .. SizeMax - 1
      /\ Len(Bytes(r)) = h + n /\ LengthOf(Headed(r)) = n
  BY RequestFacts, ParserAssumption
<1>2. rest \in Seq(Byte) /\ Len(rest) = q
  BY <1>1, Pieces DEF IsPiece
<1>3. Copied(rest, n) = rest
  <2>1. SubSeq(rest, 1, q) = rest
    BY <1>2, SubSeqFull
  <2>2. (IF n < q THEN n ELSE q) = q
    BY <1>1
  <2> QED  BY <1>2, <2>1, <2>2 DEF Copied
<1>4. Left(n, q) = n - q
  BY <1>1, NoWrap
<1>5. s = Continue(request, n - q)
  BY <1>1, <1>2, <1>3, <1>4 DEF WithHead
<1>6. Part(r, h + q) = request
  BY PartFacts
<1>7. CASE q < n
  <2>1. s = [srv EXCEPT !.pc = "body", !.request = request, !.cap = n - q, !.npos = 0]
    BY <1>1, <1>5, <1>7 DEF Continue
  <2> HIDE DEF request, s, h, n
  <2>2. s.pc = "body" /\ s.request = request /\ s.cap = n - q
    BY <2>1 DEF Shape
  <2>3. h <= h + q /\ h + q < h + n /\ n - q = (h + n) - (h + q)
    BY <1>1, <1>7
  <2>4. InBody(s, r, h + q)
    BY <1>1, <1>6, <2>2, <2>3 DEF InBody, h
  <2> QED  BY <2>4 DEF s, h
<1>8. CASE q = n
  <2>1. s = [srv EXCEPT !.pc = "handle", !.request = InitClose(request)]
    BY <1>1, <1>5, <1>8 DEF Continue
  <2>2. InitClose(request) = Served(r)
    BY <1>1, <1>8, WholePiece DEF Served
  <2> HIDE DEF request, s, h, n
  <2>3. s.pc = "handle" /\ s.request = Served(r)
    BY <2>1, <2>2 DEF Shape
  <2>4. InHand(s, r, h + q)
    BY <1>1, <1>8, <2>3 DEF InHand
  <2> QED  BY <2>4 DEF s, h
<1> QED  BY <1>1, <1>7, <1>8

-----------------------------------------------------------------------------
(* Where handleClient() is when it reads: a request is under way, and the read takes n *)
(* of the bytes that are left of it on the wire.                                        *)
LEMMA ReadTakes ==
  ASSUME NEW r \in Requests, NEW m \in 0 .. Len(Bytes(r)), NEW p \in 0 .. m,
         wire = Piece(Bytes(r), p, m), NEW n \in 1 .. Len(wire)
  PROVE  /\ Len(wire) = m - p /\ p + n \in 0 .. m
         /\ SubSeq(wire, 1, n) = Piece(Bytes(r), p, p + n)
         /\ SubSeq(wire, n + 1, Len(wire)) = Piece(Bytes(r), p + n, m)
         /\ \A k \in 0 .. n : SubSeq(wire, k + 1, n) = Piece(Bytes(r), p + k, p + n)
<1> DEFINE bytes == Bytes(r)
<1>1. bytes \in Seq(Byte) /\ Len(bytes) \in Nat
  BY RequestFacts
<1> HIDE DEF bytes
<1>2. wire = Piece(bytes, p, m) /\ m \in 0 .. Len(bytes)
  BY DEF bytes
<1>3. m - p \in Nat
  BY <1>1, <1>2
<1>4. Len(wire) = m - p
  <2>1. IsPiece(Piece(bytes, p, m), Byte, bytes, p, m - p)
    BY <1>1, <1>2, <1>3, Pieces
  <2> QED  BY <1>2, <2>1 DEF IsPiece
<1>5. n \in 0 .. m - p /\ p + n \in 0 .. m /\ 0 \in 0 .. n /\ n \in 0 .. m - p /\ p + (m - p) = m
  BY <1>1, <1>2, <1>3, <1>4
<1>6. ASSUME NEW k \in 0 .. n PROVE SubSeq(wire, k + 1, n) = Piece(bytes, p + k, p + n)
  BY <1>1, <1>2, <1>5, PieceOfPiece DEF Piece
<1>7. SubSeq(wire, 1, n) = Piece(bytes, p, p + n)
  <2>1. SubSeq(wire, 0 + 1, n) = Piece(bytes, p + 0, p + n)
    BY <1>5, <1>6
  <2>2. 0 + 1 = 1 /\ p + 0 = p
    BY <1>5
  <2> QED  BY <2>1, <2>2
<1>8. Piece(Piece(bytes, p, m), n, m - p) = Piece(bytes, p + n, p + (m - p))
  <2>1. m - p \in 0 .. m - p /\ n \in 0 .. m - p
    BY <1>3, <1>5
  <2> QED  BY <1>1, <1>2, <2>1, PieceOfPiece
<1>9. SubSeq(wire, n + 1, m - p) = Piece(bytes, p + n, m)
  BY <1>2, <1>5, <1>8 DEF Piece
<1> QED  BY <1>4, <1>5, <1>6, <1>7, <1>9 DEF bytes

(* Where handleClient() goes on after it took bytes of a request. *)
LEMMA GoesOn ==
  ASSUME NEW r \in Requests, NEW m \in 0 .. Len(Bytes(r)), NEW p \in 0 .. m,
         Sent(r, m), UNCHANGED <<written, open, handed>>,
         Taken(srv', r, p), wire' = Piece(Bytes(r), p, m)
  PROVE  Waits'
<1>1. Sent(r, m)'
  BY DEF Sent
<1> QED  BY <1>1 DEF Waits, UnderWay

LEMMA DeliveredStays ==
  ASSUME Delivered, UNCHANGED <<written, handed, answers>>
  PROVE  Delivered'
BY DEF Delivered

(* A read of the head: it takes what is left of it and a part of the body, no more. *)
LEMMA ReadHeadKeepsOrder ==
  ASSUME Shape, Orderly, NEW n, ReadHead(n)
  PROVE  Orderly'
<1> SUFFICES ASSUME ~cut', ~ahead' PROVE Orderly'
  BY DEF Orderly
<1> DEFINE x == Execute(srv.parser, SubSeq(wire, 1, n))
<1>1. /\ srv.pc = "head" /\ n \in 1 .. Len(wire) /\ wire # <<>>
      /\ wire' = SubSeq(wire, n + 1, Len(wire))
      /\ UNCHANGED <<written, open, handed, answers, ahead, short>>
  <2>1. n \in 1 .. Len(wire)
    BY DEF ReadHead
  <2>2. wire # <<>>
    BY <2>1, EmptySeq
  <2> QED  BY <2>1, <2>2 DEF ReadHead
<1>2. ~cut /\ ~ahead /\ (~IsFinished(x) => x.cs \in Between)
  BY DEF ReadHead
<1>3. ~short /\ Delivered /\ UnderWay
  BY <1>1, <1>2 DEF Orderly, LastOne, Waits, Idle
<1>4. PICK r \in Requests : \E m \in 0 .. Len(Bytes(r)) : \E p \in 0 .. m :
         Taken(srv, r, p) /\ wire = Piece(Bytes(r), p, m) /\ Sent(r, m)
  BY <1>3 DEF UnderWay
<1>5. PICK m \in 0 .. Len(Bytes(r)) : \E p \in 0 .. m :
         Taken(srv, r, p) /\ wire = Piece(Bytes(r), p, m) /\ Sent(r, m)
  BY <1>4
<1>6. PICK p \in 0 .. m :
         Taken(srv, r, p) /\ wire = Piece(Bytes(r), p, m) /\ Sent(r, m)
  BY <1>5
<1>7. /\ p + n \in 0 .. m /\ SubSeq(wire, 1, n) = Piece(Bytes(r), p, p + n)
      /\ wire' = Piece(Bytes(r), p + n, m)
      /\ \A k \in 0 .. n : SubSeq(wire, k + 1, n) = Piece(Bytes(r), p + k, p + n)
  BY <1>1, <1>6, ReadTakes
<1>8. p < Len(HeadBytes(r)) /\ srv.parser \in Reached(r, p)
  BY <1>1, <1>6 DEF Taken, InHead, InBody, InHand
<1>9. Understands(r, p, n, srv.parser)
  <2>1. /\ Len(HeadBytes(r)) \in Nat /\ Len(Bytes(r)) \in Nat
    BY RequestFacts
  <2>2. p \in 0 .. Len(HeadBytes(r)) - 1 /\ n \in 1 .. Len(Bytes(r)) - p
    BY <1>1, <1>7, <1>8, <2>1
  <2> QED  BY <1>8, <2>2, ParserAssumption DEF Bytes
<1>10. Execute(srv.parser, SubSeq(HeadBytes(r) \o r.body, p + 1, p + n)) = x
  BY <1>7 DEF Piece, Bytes
<1> HIDE DEF x
<1>11. ~x.threw /\ ~HasError(x) =>
          IF IsFinished(x)
          THEN /\ x.nread \in 0 .. n /\ p + x.nread = Len(HeadBytes(r))
               /\ x.request = Headed(r)
          ELSE x.cs \in Between => p + n < Len(HeadBytes(r)) /\ Kept(x) \in Reached(r, p + n)
  BY <1>9, <1>10 DEF Understands
<1>12. Waits'
  <2>1. CASE x.threw \/ HasError(x)
    <3>1. srv' = Closed
      BY <2>1 DEF ReadHead, x
    <3>2. srv'.pc = "closed"
      BY <3>1 DEF Closed, Receiving
    <3> QED  BY <3>2 DEF Waits
  <2>2. CASE ~x.threw /\ ~HasError(x) /\ IsFinished(x)
    <3> DEFINE h == Len(HeadBytes(r))
               q == p + n - h
               rest == SubSeq(wire, x.nread + 1, n)
    <3>1. srv' = WithHead(x, rest)
      BY <2>2 DEF ReadHead, x
    <3>2. x.nread \in 0 .. n /\ p + x.nread = h /\ x.request = Headed(r)
      BY <1>11, <2>2
    <3>3. h \in Nat /\ Len(r.body) \in Nat /\ Len(Bytes(r)) = h + Len(r.body)
      BY RequestFacts
    <3>4. rest = Piece(Bytes(r), h, p + n)
      BY <1>7, <3>2
    <3> HIDE DEF rest, h
    <3>5. q \in 0 .. Len(r.body) /\ p + n = h + q /\ h = h + 0 /\ 0 \in 0 .. q
      <4> DEFINE size == Len(r.body)
                 read == x.nread
      <4>1. h \in Nat /\ size \in Nat /\ m <= h + size /\ m \in Nat
        BY <3>3
      <4>2. p + n \in 0 .. m /\ p \in Nat /\ n \in Nat /\ read \in 0 .. n /\ p + read = h
        BY <1>1, <1>7, <3>2
      <4> HIDE DEF size, read
      <4>3. p + n >= h /\ p + n <= h + size /\ p + n \in Nat
        BY <4>1, <4>2
      <4>4. q \in 0 .. size /\ p + n = h + q /\ h = h + 0 /\ 0 \in 0 .. q
        BY <4>1, <4>2, <4>3
      <4> QED  BY <4>4 DEF size
    <3> HIDE DEF q
    <3>6. rest = Piece(r.body, 0, q)
      <4>1. Piece(Bytes(r), h + 0, h + q) = Piece(r.body, 0, q)
        BY <3>5, BodyPiece DEF h
      <4> QED  BY <3>4, <3>5, <4>1
    <3>7. InBody(srv', r, h + q) \/ InHand(srv', r, h + q)
      BY <3>1, <3>2, <3>5, <3>6, WithHeadTakes DEF h
    <3>8. Taken(srv', r, p + n)
      BY <3>5, <3>7 DEF Taken
    <3> QED  BY <1>1, <1>6, <1>7, <3>8, GoesOn
  <2>3. CASE ~x.threw /\ ~HasError(x) /\ ~IsFinished(x)
    <3>1. srv' = [srv EXCEPT !.parser = Kept(x),
                             !.reads = IF @ < MaxReads THEN @ + 1 ELSE @]
      BY <2>3 DEF ReadHead, x
    <3>2. srv'.pc = "head" /\ srv'.parser = Kept(x)
      BY <1>1, <3>1 DEF Shape
    <3>3. p + n < Len(HeadBytes(r)) /\ Kept(x) \in Reached(r, p + n)
      BY <1>2, <1>11, <2>3 DEF x
    <3>4. Taken(srv', r, p + n)
      BY <3>2, <3>3 DEF Taken, InHead
    <3> QED  BY <1>1, <1>6, <1>7, <3>4, GoesOn
  <2> QED  BY <2>1, <2>2, <2>3
<1>13. Delivered'
  BY <1>1, <1>3, DeliveredStays
<1> QED  BY <1>1, <1>3, <1>12, <1>13 DEF Orderly

(* A read of the body takes no more than is left of it. *)
LEMMA ReadBodyKeepsOrder ==
  ASSUME Shape, Orderly, NEW n, ReadBody(n)
  PROVE  Orderly'
<1> SUFFICES ASSUME ~cut', ~ahead' PROVE Orderly'
  BY DEF Orderly
<1>1. /\ srv.pc = "body" /\ n \in 1 .. Len(wire)
      /\ wire' = SubSeq(wire, n + 1, Len(wire))
      /\ UNCHANGED <<written, open, handed, answers, cut, ahead, short>>
  BY DEF ReadBody
<1>2. ~cut /\ ~ahead
  BY <1>1
<1>3. ~short /\ Delivered /\ UnderWay
  BY <1>1, <1>2 DEF Orderly, LastOne, Waits, Idle
<1>4. PICK r \in Requests : \E m \in 0 .. Len(Bytes(r)) : \E p \in 0 .. m :
         Taken(srv, r, p) /\ wire = Piece(Bytes(r), p, m) /\ Sent(r, m)
  BY <1>3 DEF UnderWay
<1>5. PICK m \in 0 .. Len(Bytes(r)) : \E p \in 0 .. m :
         Taken(srv, r, p) /\ wire = Piece(Bytes(r), p, m) /\ Sent(r, m)
  BY <1>4
<1>6. PICK p \in 0 .. m :
         Taken(srv, r, p) /\ wire = Piece(Bytes(r), p, m) /\ Sent(r, m)
  BY <1>5
<1>7. /\ p + n \in 0 .. m /\ SubSeq(wire, 1, n) = Piece(Bytes(r), p, p + n)
      /\ wire' = Piece(Bytes(r), p + n, m)
  BY <1>1, <1>6, ReadTakes
<1> DEFINE h == Len(HeadBytes(r))
           q == p - h
           text == srv.request.body \o SubSeq(wire, 1, n)
           request == [srv.request EXCEPT !.body = text]
<1>8. h <= p /\ srv.cap = Len(Bytes(r)) - p /\ srv.request = Part(r, p)
  BY <1>1, <1>6 DEF Taken, InHead, InBody, InHand
<1>9. /\ h \in Nat /\ Len(r.body) \in Nat /\ Len(Bytes(r)) = h + Len(r.body)
      /\ r.body \in Seq(Byte)
  BY RequestFacts
<1> HIDE DEF h
<1>10. /\ q \in 0 .. Len(r.body) /\ q + n \in 0 .. Len(r.body) /\ q \in 0 .. q + n
       /\ p = h + q /\ p + n = h + (q + n) /\ 0 \in 0 .. q
       /\ q \in Nat /\ n \in Nat
  BY <1>1, <1>7, <1>8, <1>9
<1> HIDE DEF q
<1>11. /\ srv.request.body = Piece(r.body, 0, q) /\ BodyLength = Len(r.body)
       /\ \A b : [srv.request EXCEPT !.body = b] = [Headed(r) EXCEPT !.body = b]
  <2>1. LET x == [Headed(r) EXCEPT !.body = Piece(r.body, 0, q)]
        IN  /\ Part(r, h + q) = x /\ x.body = Piece(r.body, 0, q)
            /\ LengthOf(x) = Len(r.body)
            /\ \A b : [x EXCEPT !.body = b] = [Headed(r) EXCEPT !.body = b]
    BY <1>10, PartFacts DEF h
  <2> QED  BY <1>8, <1>10, <2>1 DEF BodyLength
<1>12. text = Piece(r.body, 0, q + n)
  <2>1. SubSeq(wire, 1, n) = Piece(r.body, q, q + n)
    BY <1>7, <1>10, BodyPiece DEF h
  <2>2. Piece(r.body, 0, q) \o Piece(r.body, q, q + n) = Piece(r.body, 0, q + n)
    BY <1>9, <1>10, PiecesJoin
  <2>3. text = Piece(r.body, 0, q) \o Piece(r.body, q, q + n)
    BY <1>11, <2>1
  <2> HIDE DEF text
  <2> QED  BY <2>2, <2>3
<1> HIDE DEF text
<1>13. /\ text \in Seq(Byte) /\ Len(text) = q + n
       /\ request = [Headed(r) EXCEPT !.body = text] /\ request.body = text
       /\ request = Part(r, p + n)
  <2>1. q + n \in Nat /\ q + n = q + n - 0 /\ 0 \in 0 .. q + n
    BY <1>10
  <2>2. IsPiece(text, Byte, r.body, 0, q + n)
    BY <1>9, <1>10, <1>12, <2>1, Pieces
  <2>3. LET x == [Headed(r) EXCEPT !.body = Piece(r.body, 0, q + n)]
        IN  Part(r, h + (q + n)) = x /\ x.body = Piece(r.body, 0, q + n)
    BY <1>10, PartFacts DEF h
  <2>4. request = [Headed(r) EXCEPT !.body = text]
    BY <1>11
  <2> QED  BY <1>10, <1>12, <2>2, <2>3, <2>4 DEF IsPiece
<1> HIDE DEF request
<1>14. ~(Len(request.body) > BodyLength)
  BY <1>9, <1>10, <1>11, <1>13
<1>15. Taken(srv', r, p + n)
  <2>1. CASE n = srv.cap
    <3>1. srv' = [srv EXCEPT !.pc = "handle", !.request = InitClose(request)]
      BY <1>14, <2>1 DEF ReadBody, request, text
    <3>2. srv'.pc = "handle" /\ srv'.request = InitClose(request)
      BY <3>1 DEF Shape
    <3>3. p + n = Len(Bytes(r)) /\ q + n = Len(r.body)
      <4> DEFINE all == Len(Bytes(r))
                 size == Len(r.body)
      <4>1. all = h + size /\ n = all - p /\ size \in Nat
        BY <1>8, <1>9, <2>1
      <4> HIDE DEF all, size
      <4>2. p + n = all /\ q + n = size
        BY <1>9, <1>10, <4>1
      <4> QED  BY <4>2 DEF all, size
    <3>4. text = r.body
      BY <1>9, <1>12, <3>3, WholePiece
    <3> QED  BY <1>13, <3>2, <3>3, <3>4 DEF Taken, InHand, Served
  <2>2. CASE n # srv.cap
    <3>1. srv' = [srv EXCEPT !.request = request, !.cap = @ - n, !.npos = @ + n]
      BY <1>14, <2>2 DEF ReadBody, request, text
    <3>2. srv'.pc = "body" /\ srv'.request = request /\ srv'.cap = srv.cap - n
      BY <1>1, <3>1 DEF Shape
    <3> DEFINE all == Len(Bytes(r))
    <3>3. all = h + Len(r.body) /\ srv.cap = all - p
      BY <1>8, <1>9
    <3> HIDE DEF all
    <3>4. h <= p + n /\ p + n < all /\ srv.cap - n = all - (p + n)
      BY <1>1, <1>9, <1>10, <2>2, <3>3
    <3> QED  BY <1>13, <3>2, <3>4 DEF Taken, InBody, h, all
  <2> QED  BY <2>1, <2>2
<1>16. Waits'
  BY <1>1, <1>6, <1>7, <1>15, GoesOn
<1>17. Delivered'
  BY <1>1, <1>3, DeliveredStays
<1> QED  BY <1>1, <1>3, <1>16, <1>17 DEF Orderly

(* A read that fails: nothing is left on the wire, so the client has given up, or it *)
(* waits for something else than an answer to the request under way.                 *)
LEMMA FailKeepsOrder ==
  ASSUME Shape, Orderly, FailHead \/ \E rt \in {0, 1} : FailBody(rt)
  PROVE  Orderly'
<1> SUFFICES ASSUME ~cut', ~ahead' PROVE Orderly'
  BY DEF Orderly
<1>1. /\ wire = <<>> /\ UNCHANGED <<written, wire, open, handed, answers, cut, ahead>>
  BY DEF FailHead, FailBody, Outcome
<1>2. CASE srv' = Closed /\ short' = short
  <2>1. srv'.pc = "closed"
    BY <1>2 DEF Closed, Receiving
  <2>2. Waits' /\ (Delivered => Delivered')
    BY <1>1, <2>1, DeliveredStays DEF Waits
  <2>3. short => LastOne'
    BY <1>1, <2>1 DEF Orderly, LastOne
  <2> QED  BY <1>1, <1>2, <2>2, <2>3 DEF Orderly
<1>3. ASSUME NEW rt \in {0, 1}, FailBody(rt), ~(srv' = Closed /\ short' = short) PROVE Orderly'
  <2>1. srv.pc = "body" /\ srv'.pc = "handle" /\ short'
    BY <1>3 DEF FailBody, Shape
  <2>2. UnderWay
    BY <1>1, <2>1 DEF Orderly, LastOne, Waits, Idle
  <2>3. PICK r \in Requests : \E m \in 0 .. Len(Bytes(r)) : \E p \in 0 .. m :
           Taken(srv, r, p) /\ wire = Piece(Bytes(r), p, m) /\ Sent(r, m)
    BY <2>2 DEF UnderWay
  <2>4. PICK m \in 0 .. Len(Bytes(r)) : \E p \in 0 .. m :
           Taken(srv, r, p) /\ wire = Piece(Bytes(r), p, m) /\ Sent(r, m)
    BY <2>3
  <2>5. PICK p \in 0 .. m :
           Taken(srv, r, p) /\ wire = Piece(Bytes(r), p, m) /\ Sent(r, m)
    BY <2>4
  <2>6. p < Len(Bytes(r)) /\ Bytes(r) \in Seq(Byte) /\ Len(Bytes(r)) \in Nat
    BY <2>1, <2>5, RequestFacts DEF Taken, InHead, InBody, InHand
  <2>7. m = p
    <3>1. m - p \in Nat
      BY <2>6
    <3>2. IsPiece(Piece(Bytes(r), p, m), Byte, Bytes(r), p, m - p)
      BY <2>6, <3>1, Pieces
    <3>3. Len(<<>>) = m - p
      BY <1>1, <2>5, <3>2 DEF IsPiece
    <3> QED  BY <2>6, <3>3, EmptySeq
  <2>8. ~open
    BY <2>5, <2>6, <2>7 DEF Sent
  <2> QED  BY <1>1, <2>1, <2>8 DEF Orderly, LastOne
<1>4. CASE FailHead
  BY <1>2, <1>4 DEF FailHead
<1> QED  BY <1>2, <1>3, <1>4

(* A servlet gets the request, which is the last one that was written. *)
LEMMA HandleKeepsOrder ==
  ASSUME Shape, Orderly, NEW o, Handle(o)
  PROVE  Orderly'
<1> SUFFICES ASSUME ~cut', ~ahead' PROVE Orderly'
  BY DEF Orderly
<1>1. /\ srv.pc = "handle" /\ handed' = Append(handed, srv.request)
      /\ UNCHANGED <<written, wire, open, cut, ahead, short>>
  BY DEF Handle
<1>2. PICK answer : answers' = Append(answers, answer)
  BY DEF Handle
<1>3. PICK rx \in Relaxed : srv' = Receiving(rx)
  BY DEF Handle
<1>4. srv'.pc = "head" /\ srv'.parser = NewParser(rx)
  BY <1>3 DEF Receiving
<1>5. CASE short
  BY <1>1, <1>4, <1>5 DEF Orderly, LastOne
<1>6. CASE ~short
  <2>1. Delivered /\ UnderWay
    BY <1>1, <1>6 DEF Orderly, Waits, Idle
  <2>2. PICK r \in Requests : \E m \in 0 .. Len(Bytes(r)) : \E p \in 0 .. m :
           Taken(srv, r, p) /\ wire = Piece(Bytes(r), p, m) /\ Sent(r, m)
    BY <2>1 DEF UnderWay
  <2>3. PICK m \in 0 .. Len(Bytes(r)) : \E p \in 0 .. m :
           Taken(srv, r, p) /\ wire = Piece(Bytes(r), p, m) /\ Sent(r, m)
    BY <2>2
  <2>4. PICK p \in 0 .. m :
           Taken(srv, r, p) /\ wire = Piece(Bytes(r), p, m) /\ Sent(r, m)
    BY <2>3
  <2>5. /\ p = Len(Bytes(r)) /\ srv.request = Served(r)
        /\ Bytes(r) \in Seq(Byte) /\ Len(Bytes(r)) \in Nat
    BY <1>1, <2>4, RequestFacts DEF Taken, InHead, InBody, InHand
  <2>6. m = p
    BY <2>5
  <2>7. Len(written) = Len(handed) + 1 /\ written[Len(written)] = r
    BY <2>4, <2>5, <2>6 DEF Sent
  <2>8. wire' = <<>>
    <3>1. p + 1 \in Int /\ p \in Int /\ p < p + 1
      BY <2>5
    <3> QED  BY <1>1, <2>4, <2>6, <3>1, SubSeqEmpty DEF Piece
  <2> DEFINE S == {Served(q) : q \in Requests}
  <2>9. handed \in Seq(S) /\ Served(r) \in S
    BY <2>1 DEF Delivered
  <2>10. /\ handed' \in Seq(S) /\ Len(handed') = Len(handed) + 1 /\ Len(handed) \in Nat
         /\ \A i \in 1 .. Len(handed) : handed'[i] = handed[i]
         /\ handed'[Len(handed) + 1] = Served(r)
    <3> HIDE DEF S
    <3> QED  BY <1>1, <2>5, <2>9, AppendProperties, LenProperties
  <2>11. PICK T : answers \in Seq(T)
    BY <2>1 DEF Delivered
  <2>12. answers' \in Seq(T \cup {answer}) /\ Len(answers') = Len(answers) + 1
    <3>1. answers \in Seq(T \cup {answer}) /\ answer \in T \cup {answer}
      BY <2>11, SeqMonotonic
    <3> QED  BY <1>2, <3>1, AppendProperties
  <2>13. Idle'
    BY <1>1, <1>4, <2>7, <2>8, <2>10 DEF Idle
  <2>14. \A i \in DOMAIN handed' : handed'[i] = Served(written'[i])
    <3> TAKE i \in DOMAIN handed'
    <3>1. i \in 1 .. Len(handed) + 1 /\ DOMAIN handed = 1 .. Len(handed)
      <4> HIDE DEF S
      <4> QED  BY <2>9, <2>10, LenProperties
    <3>2. CASE i \in 1 .. Len(handed)
      BY <1>1, <2>1, <2>10, <3>1, <3>2 DEF Delivered
    <3>3. CASE i = Len(handed) + 1
      BY <1>1, <2>7, <2>10, <3>3
    <3> QED  BY <2>10, <3>1, <3>2, <3>3
  <2>15. Len(handed') <= Len(written') /\ Len(answers') = Len(handed')
    BY <1>1, <2>1, <2>7, <2>10, <2>12 DEF Delivered
  <2>16. Delivered'
    BY <2>10, <2>12, <2>14, <2>15 DEF Delivered
  <2> QED  BY <1>1, <1>6, <2>13, <2>16 DEF Orderly, Waits
<1> QED  BY <1>5, <1>6

(* The client writes ahead of its answer, or there is nothing else on the wire. *)
LEMMA WriteKeepsOrder ==
  ASSUME Shape, Orderly, NEW r \in Requests, Write(r)
  PROVE  Orderly'
<1> SUFFICES ASSUME ~cut', ~ahead' PROVE Orderly'
  BY DEF Orderly
<1>1. /\ open /\ written' = Append(written, r) /\ wire' = wire \o HeadBytes(r) \o r.body
      /\ ~ahead /\ ~(Len(answers) < Len(written))
      /\ UNCHANGED <<open, srv, handed, answers, cut, short>>
  BY DEF Write
<1>2. ~short /\ Delivered /\ Waits
  BY <1>1 DEF Orderly, LastOne
<1>3. /\ written' \in Seq(Requests) /\ Len(written) \in Nat /\ Len(written') = Len(written) + 1
      /\ \A i \in 1 .. Len(written) : written'[i] = written[i]
      /\ written'[Len(written) + 1] = r
  BY <1>1, AppendProperties, LenProperties DEF Shape
<1>4. Len(handed) = Len(written) /\ DOMAIN handed = 1 .. Len(handed)
  <2>1. Len(handed) \in Nat /\ DOMAIN handed = 1 .. Len(handed)
    <3> DEFINE S == {Served(q) : q \in Requests}
    <3>1. handed \in Seq(S)
      BY <1>2 DEF Delivered
    <3> HIDE DEF S
    <3> QED  BY <3>1, LenProperties
  <2>2. Len(handed) <= Len(written) /\ ~(Len(handed) < Len(written))
    BY <1>1, <1>2 DEF Delivered
  <2> QED  BY <1>3, <2>1, <2>2
<1>5. Delivered'
  <2>1. \A i \in DOMAIN handed : handed[i] = Served(written'[i])
    BY <1>2, <1>3, <1>4 DEF Delivered
  <2> QED  BY <1>1, <1>2, <1>3, <1>4, <2>1 DEF Delivered
<1>6. CASE srv.pc = "closed"
  BY <1>1, <1>2, <1>5, <1>6 DEF Orderly, Waits
<1>7. CASE Idle
  <2>1. /\ HeadBytes(r) \in Seq(Byte) /\ Bytes(r) \in Seq(Byte) /\ Len(Bytes(r)) \in Nat
        /\ 0 < Len(HeadBytes(r))
    BY RequestFacts
  <2>2. wire' = Piece(Bytes(r), 0, Len(Bytes(r)))
    <3>1. <<>> \o HeadBytes(r) = HeadBytes(r)
      BY <2>1, ConcatEmptySeq
    <3>2. wire' = Bytes(r)
      BY <1>1, <1>7, <3>1 DEF Idle, Bytes
    <3> QED  BY <2>1, <3>2, WholePiece
  <2>3. InHead(srv', r, 0)
    <3>1. srv.pc = "head" /\ \E rx \in Relaxed : srv.parser = NewParser(rx)
      BY <1>7 DEF Idle
    <3>2. srv.parser \in Reached(r, 0)
      BY <3>1, ParserAssumption
    <3> QED  BY <1>1, <2>1, <3>1, <3>2 DEF InHead
  <2>4. Sent(r, Len(Bytes(r)))'
    BY <1>1, <1>3, <1>4 DEF Sent
  <2>5. UnderWay'
    <3>1. Len(Bytes(r)) \in 0 .. Len(Bytes(r)) /\ 0 \in 0 .. Len(Bytes(r))
      BY <2>1
    <3> QED  BY <2>2, <2>3, <2>4, <3>1 DEF UnderWay, Taken
  <2> QED  BY <1>1, <1>2, <1>5, <2>5 DEF Orderly, Waits
<1>8. CASE UnderWay
  \* It has written that request, and waits, or has given up.
  <2>1. \E q \in Requests : \E m \in 0 .. Len(Bytes(q)) : Sent(q, m)
    BY <1>8 DEF UnderWay
  <2> QED  BY <1>1, <1>3, <1>4, <2>1 DEF Sent
<1> QED  BY <1>2, <1>6, <1>7, <1>8 DEF Waits

(* Giving up leaves a part of a request, or nothing. *)
LEMMA GiveUpKeepsOrder ==
  ASSUME Shape, Orderly, NEW r \in Requests, NEW k \in Stops, GiveUp(r, k)
  PROVE  Orderly'
<1> SUFFICES ASSUME ~cut', ~ahead' PROVE Orderly'
  BY DEF Orderly
<1>1. /\ open /\ ~open' /\ ~ahead /\ k < Len(Bytes(r))
      /\ wire' = wire \o SubSeq(Bytes(r), 1, k)
      /\ ~(k > 0 /\ Len(answers) < Len(written))
      /\ UNCHANGED <<written, srv, handed, answers, cut, short>>
  BY DEF GiveUp, Bytes
<1>2. ~short /\ Delivered /\ Waits
  BY <1>1 DEF Orderly, LastOne
<1>3. Delivered'
  BY <1>1, <1>2, DeliveredStays
<1>4. /\ HeadBytes(r) \in Seq(Byte) /\ Bytes(r) \in Seq(Byte) /\ Len(Bytes(r)) \in Nat
      /\ 0 < Len(HeadBytes(r))
  BY RequestFacts
<1>5. CASE srv.pc = "closed"
  BY <1>1, <1>2, <1>3, <1>5 DEF Orderly, Waits
<1>6. k \in 0 .. Len(Bytes(r)) /\ k \in Nat /\ 0 \in 0 .. k
  BY <1>1, <1>4, SessionAssumption
<1>7. SubSeq(Bytes(r), 1, k) = Piece(Bytes(r), 0, k) /\ Piece(Bytes(r), 0, k) \in Seq(Byte)
  <2>1. k \in Nat /\ k = k - 0
    BY <1>6
  <2>2. IsPiece(Piece(Bytes(r), 0, k), Byte, Bytes(r), 0, k)
    BY <1>4, <1>6, <2>1, Pieces
  <2> QED  BY <2>2 DEF IsPiece, Piece
<1>8. CASE k = 0
  <2>1. wire' = wire \o <<>>
    BY <1>1, <1>4, <1>7, <1>8, WholePiece
  <2>2. CASE Idle
    <3>1. wire' = <<>>
      BY <2>1, <2>2, ConcatEmptySeq, EmptySeq DEF Idle
    <3>2. Idle'
      BY <1>1, <2>2, <3>1 DEF Idle
    <3> QED  BY <1>1, <1>2, <1>3, <3>2 DEF Orderly, Waits
  <2>3. CASE UnderWay
    <3>1. PICK q \in Requests : \E m \in 0 .. Len(Bytes(q)) : \E p \in 0 .. m :
             Taken(srv, q, p) /\ wire = Piece(Bytes(q), p, m) /\ Sent(q, m)
      BY <2>3 DEF UnderWay
    <3>2. PICK m \in 0 .. Len(Bytes(q)) : \E p \in 0 .. m :
             Taken(srv, q, p) /\ wire = Piece(Bytes(q), p, m) /\ Sent(q, m)
      BY <3>1
    <3>3. PICK p \in 0 .. m :
             Taken(srv, q, p) /\ wire = Piece(Bytes(q), p, m) /\ Sent(q, m)
      BY <3>2
    <3>4. Bytes(q) \in Seq(Byte) /\ m - p \in Nat
      BY RequestFacts
    <3>5. wire \in Seq(Byte)
      BY <3>3, <3>4, Pieces DEF IsPiece
    <3>6. wire' = wire
      BY <2>1, <3>5, ConcatEmptySeq
    <3>7. Sent(q, m)'
      BY <1>1, <3>3 DEF Sent
    <3>8. UnderWay'
      BY <1>1, <3>3, <3>6, <3>7 DEF UnderWay
    <3> QED  BY <1>1, <1>2, <1>3, <3>8 DEF Orderly, Waits
  <2> QED  BY <1>2, <1>5, <2>2, <2>3 DEF Waits
<1>9. CASE k # 0
  <2>1. ~(Len(handed) < Len(written))
    BY <1>1, <1>2, <1>6, <1>9 DEF Delivered
  <2>2. Len(written) \in Nat
    BY LenProperties DEF Shape
  <2>3. CASE Idle
    <3>1. wire' = Piece(Bytes(r), 0, k)
      BY <1>1, <1>7, <2>3, ConcatEmptySeq DEF Idle
    <3>2. Sent(r, k)'
      BY <1>1, <2>3 DEF Sent, Idle
    <3>3. InHead(srv', r, 0)
      <4>1. srv.pc = "head" /\ \E rx \in Relaxed : srv.parser = NewParser(rx)
        BY <2>3 DEF Idle
      <4>2. srv.parser \in Reached(r, 0)
        BY <4>1, ParserAssumption
      <4> QED  BY <1>1, <1>4, <4>1, <4>2 DEF InHead
    <3>4. UnderWay'
      BY <1>6, <3>1, <3>2, <3>3 DEF UnderWay, Taken
    <3> QED  BY <1>1, <1>2, <1>3, <3>4 DEF Orderly, Waits
  <2>4. CASE UnderWay
    <3>1. \E q \in Requests : \E m \in 0 .. Len(Bytes(q)) : Sent(q, m)
      BY <2>4 DEF UnderWay
    <3>2. Len(written) = Len(handed) + 1
      BY <1>1, <3>1 DEF Sent
    <3>3. Len(handed) \in Nat
      <4> DEFINE S == {Served(q) : q \in Requests}
      <4>1. handed \in Seq(S)
        BY <1>2 DEF Delivered
      <4> HIDE DEF S
      <4> QED  BY <4>1, LenProperties
    <3> QED  BY <2>1, <3>2, <3>3
  <2> QED  BY <1>2, <1>5, <2>3, <2>4 DEF Waits
<1> QED  BY <1>8, <1>9

-----------------------------------------------------------------------------
LEMMA ShapeStays ==
  ASSUME Shape, [Next]_vars
  PROVE  Shape'
<1>1. written' \in Seq(Requests)
  <2>1. ASSUME NEW r \in Requests, Write(r) PROVE written' \in Seq(Requests)
    BY <2>1, AppendProperties DEF Write, Shape
  <2>2. CASE UNCHANGED written
    BY <2>2 DEF Shape
  <2> QED
    BY <2>1, <2>2 DEF Next, vars, GiveUp, ReadsHead, ReadHead, FailHead, ReadsBody, ReadBody,
                      FailBody, Handles, Handle, Over
<1> DEFINE Formed(s) == s = [pc |-> s.pc, parser |-> s.parser, reads |-> s.reads,
                             request |-> s.request, cap |-> s.cap, npos |-> s.npos]
<1>2. Formed(srv)
  BY DEF Shape
<1>3. \A rx : Formed(Receiving(rx))
  BY DEF Receiving
<1>4. Formed(Closed)
  <2> DEFINE s == Receiving(FALSE)
  <2>1. Formed(s)
    BY <1>3
  <2> HIDE DEF s
  <2>2. Formed([s EXCEPT !.pc = "closed"])
    BY <2>1
  <2> QED  BY <2>2 DEF Closed, s
<1>5. Formed(srv')
  <2>1. ASSUME NEW x, NEW rest, srv' = WithHead(x, rest) PROVE Formed(srv')
    BY <1>2, <2>1 DEF WithHead, Continue
  <2>2. ASSUME NEW n, ReadHead(n) PROVE Formed(srv')
    BY <1>2, <1>4, <2>1, <2>2 DEF ReadHead
  <2>3. ASSUME NEW n, ReadBody(n) PROVE Formed(srv')
    BY <1>2, <2>3 DEF ReadBody
  <2>4. ASSUME NEW rt, FailBody(rt) PROVE Formed(srv')
    BY <1>2, <1>4, <2>4 DEF FailBody
  <2>5. CASE FailHead
    BY <1>4, <2>5 DEF FailHead
  <2>6. ASSUME NEW o, Handle(o) PROVE Formed(srv')
    BY <1>3, <2>6 DEF Handle
  <2>7. CASE UNCHANGED srv
    BY <1>2, <2>7
  <2> QED
    BY <2>2, <2>3, <2>4, <2>5, <2>6, <2>7
    DEF Next, vars, Write, GiveUp, ReadsHead, ReadsBody, Handles, Over
<1> QED  BY <1>1, <1>5 DEF Shape

LEMMA InvariantHolds == Spec => [](Shape /\ Orderly)
<1>1. Init => Shape /\ Orderly
  <2> SUFFICES ASSUME Init PROVE Shape /\ Orderly
    OBVIOUS
  <2>1. PICK rx \in Relaxed : srv = Receiving(rx)
    BY DEF Init
  <2>2. Shape
    BY <2>1, EmptySeq DEF Init, Shape, Receiving
  <2>3. /\ srv.pc = "head" /\ srv.parser = NewParser(rx)
    BY <2>1 DEF Receiving
  <2>4. Idle
    BY <2>3 DEF Init, Idle
  <2>5. Delivered
    <3> DEFINE S == {Served(q) : q \in Requests}
    <3>1. /\ handed \in Seq(S) /\ Len(handed) = 0 /\ answers \in Seq(S) /\ Len(answers) = 0
          /\ Len(written) = 0 /\ DOMAIN handed = {}
      <4> HIDE DEF S
      <4> QED  BY EmptySeq, LenProperties DEF Init
    <3> QED  BY <3>1 DEF Delivered
  <2> QED  BY <2>2, <2>4, <2>5 DEF Init, Orderly, Waits
<1>2. Shape /\ Orderly /\ [Next]_vars => (Shape /\ Orderly)'
  <2> SUFFICES ASSUME Shape, Orderly, [Next]_vars PROVE Orderly'
    BY ShapeStays
  <2>1. CASE UNCHANGED vars
    BY <2>1 DEF vars, Orderly, LastOne, Delivered, Waits, Idle, UnderWay, Sent
  <2>2. CASE Over
    BY <2>1, <2>2 DEF Over
  <2> QED
    BY <2>1, <2>2, WriteKeepsOrder, GiveUpKeepsOrder, ReadHeadKeepsOrder, ReadBodyKeepsOrder,
       FailKeepsOrder, HandleKeepsOrder DEF Next, ReadsHead, ReadsBody, Handles
<1> QED  BY <1>1, <1>2, PTL DEF Spec

(* A servlet gets the requests that the client wrote, in their order and unchanged,     *)
(* however handleClient()'s reads divide the bytes: unless a read of a head ended in a  *)
(* token, the client wrote ahead of its answers, or it gave up in a body.               *)
THEOREM RequestsArriveIntact == Spec => []HandedOverIntact
<1>1. Shape /\ Orderly => HandedOverIntact
  <2> SUFFICES ASSUME Orderly, ~cut, ~ahead, ~short
               PROVE  Len(handed) <= Len(written) /\ \A i \in DOMAIN handed : Same(handed[i], written[i])
    BY DEF HandedOverIntact
  <2>1. Delivered
    BY DEF Orderly
  <2>2. ASSUME NEW r PROVE Same(Served(r), r)
    <3> DEFINE x == [Headed(r) EXCEPT !.body = r.body]
    <3>1. {"method", "path", "query", "version", "headers", "close", "body"} \subseteq DOMAIN EmptyRequest
      BY DEF EmptyRequest
    <3>2. /\ Headed(r).method = r.method /\ Headed(r).path = r.path /\ Headed(r).query = r.query
          /\ Headed(r).version = r.version /\ Headed(r).headers = r.headers
          /\ DOMAIN Headed(r) = DOMAIN EmptyRequest
      BY <3>1 DEF Headed
    <3>3. Same(x, r) /\ DOMAIN x = DOMAIN EmptyRequest
      BY <3>1, <3>2 DEF Same
    <3> HIDE DEF x
    <3>4. Same(InitClose(x), r)
      BY <3>1, <3>3 DEF Same, InitClose
    <3> QED  BY <3>4 DEF Served, x
  <2> QED  BY <2>1, <2>2 DEF Delivered
<1> QED  BY <1>1, InvariantHolds, PTL

(* Without these two excuses, recvRequest() never works with a length that has wrapped, *)
(* so the body of a request is not written beyond its end.                              *)
THEOREM OverrunsExplained == Spec => []OverrunHasCause
<1>1. Shape /\ Orderly => OverrunHasCause
  BY DEF Orderly, LastOne, Waits, Idle, UnderWay, Taken, InHead, InBody, InHand, OverrunHasCause
<1> QED  BY <1>1, InvariantHolds, PTL
=============================================================================
