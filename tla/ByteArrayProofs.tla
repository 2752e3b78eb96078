--------------------------- MODULE ByteArrayProofs ---------------------------
(***************************************************************************)
(* Proofs about ByteArray, for every block size, every width of integers    *)
(* and every set of items: the cursor is exact, the chain of blocks is the  *)
(* one sequence of bytes that ByteStore describes, the views show it, and   *)
(* every item is read back.                                                *)
(*                                                                         *)
(* The argument: an object that fits (Fit) is, byte by byte, a function of  *)
(* offsets (Byte).  Each walk of the code, from the cursor or from the      *)
(* root, reads or stores at consecutive offsets, because a quotient and a   *)
(* rest by the block size are unique; so each call is described by what it  *)
(* does to Byte, the position and the size (Overwritten, SetPositionFacts,  *)
(* ReadFacts), and no block is left in what remains to be shown.           *)
(*                                                                         *)
(* For the items, two things meet: their bytes stand in the chain until     *)
(* they are written over (Stands), and what a reader makes of such bytes is *)
(* what the writer put (PrefixReadsBack), by induction over the digits.     *)
(***************************************************************************)
EXTENDS ByteArray, FiniteSetTheorems, SequenceTheorems, WellFoundedInduction, TLAPS

(* A sequence of anything. *)
IsSeq(s) == Len(s) \in Nat /\ s = [i \in 1 .. Len(s) |-> s[i]]

(* The byte at offset q of the chain. *)
Byte(a, q) == a.blocks[(q \div Base) + 1][q % Base]

(* The members of an object. *)
IsArray(a) ==
  /\ DOMAIN a = {"blocks", "cur", "position", "size", "capacity", "little", "fault"}
  /\ IsSeq(a.blocks)
  /\ a.position \in Nat /\ a.size \in Nat /\ a.little \in BOOLEAN

(* CursorExact, of any object. *)
Exact(a) ==
  /\ a.position <= a.size /\ a.size <= a.capacity
  /\ a.capacity = Base * Len(a.blocks)
  /\ a.cur = IfAny(a, (a.position \div Base) + 1)

Fit(a) == IsArray(a) /\ Exact(a)

(* Quotient and rest. *)
LEMMA Division ==
  ASSUME NEW n \in Nat
  PROVE  /\ n \div Base \in Nat
         /\ n % Base \in 0 .. Base - 1
         /\ n = (n \div Base) * Base + (n % Base)
BY SMTT(30), ByteArrayAssumption

(* Blocks of two parts of a chain. *)
LEMMA Distribution ==
  ASSUME NEW x \in Nat, NEW y \in Nat
  PROVE  /\ Base * (x + y) = Base * x + y * Base
         /\ y * Base \in Nat /\ Base * x \in Nat
BY ByteArrayAssumption

(* There is one quotient and one rest. *)
LEMMA DivisionIsUnique ==
  ASSUME NEW q \in Int, NEW r \in 0 .. Base - 1, q * Base + r \in Nat
  PROVE  (q * Base + r) \div Base = q /\ (q * Base + r) % Base = r
BY SMTT(30), ByteArrayAssumption

(* The walk over m bytes from offset n ends in the block of offset n + m. *)
LEMMA WalkEnds ==
  ASSUME NEW n \in Nat, NEW m \in Nat
  PROVE  /\ (n \div Base) + (((n % Base) + m) \div Base) = (n + m) \div Base
         /\ ((n % Base) + m) % Base = (n + m) % Base
<1> DEFINE q == n \div Base
           r == n % Base
           q2 == (r + m) \div Base
           r2 == (r + m) % Base
<1>1. q \in Nat /\ r \in 0 .. Base - 1 /\ n = q * Base + r
  BY Division
<1>2. r + m \in Nat
  BY <1>1, ByteArrayAssumption
<1>3. q2 \in Nat /\ r2 \in 0 .. Base - 1 /\ r + m = q2 * Base + r2
  BY <1>2, Division
<1> HIDE DEF q, r, q2, r2
<1>4. n + m = (q + q2) * Base + r2
  BY <1>1, <1>3, ByteArrayAssumption
<1>5. (n + m) \div Base = q + q2 /\ (n + m) % Base = r2
  BY <1>1, <1>3, <1>4, DivisionIsUnique
<1> QED  BY <1>5 DEF q, q2, r, r2

(* Offset q lies in the chain if and only if its block does. *)
LEMMA InChain ==
  ASSUME NEW q \in Nat, NEW k \in Nat
  PROVE  q < Base * k <=> (q \div Base) + 1 \in 1 .. k
<1>1. /\ q \div Base \in Nat
      /\ q % Base \in 0 .. Base - 1
      /\ q = (q \div Base) * Base + (q % Base)
  BY Division
<1> DEFINE d == q \div Base
           r == q % Base
<1> HIDE DEF d, r
<1>2. d \in Nat /\ r \in 0 .. Base - 1 /\ q = d * Base + r
  BY <1>1 DEF d, r
<1>3. CASE d + 1 <= k
  <2>1. PICK e \in Nat : k = d + 1 + e
    BY <1>2, <1>3
  <2>2. Base * k = d * Base + Base + Base * e /\ Base * e >= 0
    BY <1>2, <2>1, ByteArrayAssumption
  <2> QED  BY <1>2, <1>3, <2>2, ByteArrayAssumption DEF d
<1>4. CASE k <= d
  <2>1. PICK e \in Nat : d = k + e
    BY <1>2, <1>4
  <2>2. d * Base = Base * k + Base * e /\ Base * e >= 0
    BY <1>2, <2>1, ByteArrayAssumption
  <2> QED  BY <1>2, <1>4, <2>2, ByteArrayAssumption DEF d
<1> QED  BY <1>2, <1>3, <1>4

(* A function on 1 .. n is a sequence. *)
LEMMA MadeSeq ==
  ASSUME NEW n \in Nat, NEW s, s = [i \in 1 .. n |-> s[i]]
  PROVE  IsSeq(s) /\ Len(s) = n /\ DOMAIN s = 1 .. n /\ s \in Seq({s[i] : i \in 1 .. n})
<1> DEFINE S == {s[i] : i \in 1 .. n}
<1>1. s \in [1 .. n -> S]
  OBVIOUS
<1>2. s \in Seq(S)
  BY <1>1, SeqDef
<1> HIDE DEF S
<1>3. Len(s) \in Nat /\ DOMAIN s = 1 .. Len(s)
  BY <1>2, LenProperties
<1>4. DOMAIN s = 1 .. n
  OBVIOUS
<1>5. Len(s) = n
  BY <1>3, <1>4
<1> QED  BY <1>2, <1>4, <1>5 DEF IsSeq, S

(* The empty sequence, and those with elements of one set. *)
LEMMA KnownSeqs ==
  /\ IsSeq(<<>>) /\ Len(<<>>) = 0
  /\ \A S : \A s \in Seq(S) : IsSeq(s)
<1>1. ASSUME NEW S, NEW s \in Seq(S) PROVE IsSeq(s)
  BY LenProperties DEF IsSeq
<1>2. <<>> \in Seq({}) /\ Len(<<>>) = 0
  BY EmptySeq
<1> QED  BY <1>1, <1>2

(* Concatenation. *)
LEMMA Joined ==
  ASSUME NEW s, NEW t, IsSeq(s), IsSeq(t)
  PROVE  /\ IsSeq(s \o t) /\ Len(s \o t) = Len(s) + Len(t)
         /\ \A i \in 1 .. Len(s) + Len(t) : (s \o t)[i] = IF i <= Len(s) THEN s[i] ELSE t[i - Len(s)]
<1> DEFINE S == {s[i] : i \in 1 .. Len(s)}
           T == {t[i] : i \in 1 .. Len(t)}
<1>1. s \in Seq(S) /\ t \in Seq(T)
  BY MadeSeq DEF IsSeq
<1> HIDE DEF S, T
<1>2. s \in Seq(S \cup T) /\ t \in Seq(S \cup T)
  BY <1>1, SeqMonotonic
<1>3. /\ s \o t \in Seq(S \cup T)
      /\ Len(s \o t) = Len(s) + Len(t)
      /\ \A i \in 1 .. Len(s) + Len(t) : (s \o t)[i] = IF i <= Len(s) THEN s[i] ELSE t[i - Len(s)]
  BY <1>2, ConcatProperties
<1>4. IsSeq(s \o t)
  BY <1>3, KnownSeqs
<1> QED  BY <1>3, <1>4

(* Two sequences are equal when their elements are. *)
LEMMA SameSeq ==
  ASSUME NEW s, NEW t, IsSeq(s), IsSeq(t), Len(s) = Len(t), \A i \in 1 .. Len(s) : s[i] = t[i]
  PROVE  s = t
<1>1. [i \in 1 .. Len(s) |-> s[i]] = [i \in 1 .. Len(s) |-> t[i]]
  OBVIOUS
<1> QED  BY <1>1 DEF IsSeq

(* A part of a sequence. *)
LEMMA Part ==
  ASSUME NEW s, IsSeq(s), NEW m \in 1 .. Len(s) + 1, NEW n \in 0 .. Len(s), m <= n + 1
  PROVE  /\ IsSeq(SubSeq(s, m, n)) /\ Len(SubSeq(s, m, n)) = n + 1 - m
         /\ \A i \in 1 .. n + 1 - m : SubSeq(s, m, n)[i] = s[m + i - 1]
<1> DEFINE S == {s[i] : i \in 1 .. Len(s)}
<1>1. \A i \in m .. n : s[i] \in S
  BY DEF IsSeq
<1>2. m \in Int /\ n \in Int
  BY DEF IsSeq
<1> HIDE DEF S
<1>3. /\ SubSeq(s, m, n) \in Seq(S)
      /\ Len(SubSeq(s, m, n)) = IF m <= n THEN n - m + 1 ELSE 0
      /\ \A i \in 1 .. n - m + 1 : SubSeq(s, m, n)[i] = s[m + i - 1]
  BY <1>1, <1>2, SubSeqProperties
<1>4. IsSeq(SubSeq(s, m, n))
  BY <1>3, KnownSeqs
<1> QED  BY <1>2, <1>3, <1>4

-----------------------------------------------------------------------------
(* The blocks that are missing make room for n bytes. *)
LEMMA MissingIsEnough ==
  ASSUME NEW a, a.capacity \in Nat, a.position \in 0 .. a.capacity, NEW n \in Nat
  PROVE  /\ Missing(a, n) \in Nat
         /\ a.position + n <= a.capacity + Missing(a, n) * Base
         /\ n > 0 /\ a.position = a.capacity => Missing(a, n) > 0
<1> DEFINE left == a.capacity - a.position
           m == n - left + Base - 1
<1>1. left \in Nat
  OBVIOUS
<1>2. CASE left >= n
  <2>1. Missing(a, n) = 0
    BY <1>2 DEF Missing
  <2> QED  BY <1>1, <1>2, <2>1, ByteArrayAssumption
<1>3. CASE ~(left >= n)
  <2>1. Missing(a, n) = m \div Base
    BY <1>3 DEF Missing
  <2>2. m \in Nat /\ m >= Base
    BY <1>1, <1>3, ByteArrayAssumption
  <2>3. m \div Base \in Nat /\ m % Base \in 0 .. Base - 1 /\ m = (m \div Base) * Base + (m % Base)
    BY <2>2, Division
  <2> HIDE DEF m
  <2>4. m - Base < (m \div Base) * Base
    BY <2>2, <2>3, ByteArrayAssumption
  <2>5. m \div Base # 0
    BY <2>2, <2>3, ByteArrayAssumption
  <2>6. n - left <= (m \div Base) * Base
    <3> DEFINE x == (m \div Base) * Base
    <3>1. x \in Nat /\ m - Base < x
      BY <2>3, <2>4, Distribution
    <3> HIDE DEF x
    <3>2. n - left <= x
      BY <1>1, <3>1, ByteArrayAssumption DEF m
    <3> QED  BY <3>2 DEF x
  <2> DEFINE d == m \div Base
  <2> HIDE DEF d
  <2>7. d \in Nat /\ d # 0 /\ n - left <= d * Base /\ Missing(a, n) = d /\ d * Base \in Nat
    <3>1. d \in Nat /\ d # 0 /\ n - left <= d * Base /\ Missing(a, n) = d
      BY <2>1, <2>3, <2>5, <2>6 DEF d
    <3> QED  BY <3>1, Distribution
  <2> QED  BY <2>7
<1> QED  BY <1>2, <1>3

(* What holds of the position and the cursor of an object that fits. *)
LEMMA FitFacts ==
  ASSUME NEW a, Fit(a)
  PROVE  /\ a.capacity \in Nat /\ a.position \in 0 .. a.capacity /\ Len(a.blocks) \in Nat
         /\ DOMAIN a.blocks = 1 .. Len(a.blocks)
         /\ a.cur = None <=> a.position = a.capacity
         /\ a.cur # None => a.cur = (a.position \div Base) + 1 /\ a.cur \in 1 .. Len(a.blocks)
<1>1. Len(a.blocks) \in Nat /\ DOMAIN a.blocks = 1 .. Len(a.blocks)
  BY DEF Fit, IsArray, IsSeq
<1>2. a.capacity = Base * Len(a.blocks) /\ a.capacity \in Nat
  BY <1>1, ByteArrayAssumption DEF Fit, Exact
<1>3. a.position \in 0 .. a.capacity
  BY <1>2 DEF Fit, Exact, IsArray
<1>4. a.position < a.capacity <=> (a.position \div Base) + 1 \in 1 .. Len(a.blocks)
  BY <1>1, <1>2, <1>3, InChain
<1>5. (a.position \div Base) + 1 \in Nat
  <2>1. a.position \in Nat
    BY DEF Fit, IsArray
  <2>2. a.position \div Base \in Nat
    BY <2>1, Division
  <2> QED  BY <2>2
<1>6. a.cur = IF (a.position \div Base) + 1 \in 1 .. Len(a.blocks) THEN (a.position \div Base) + 1 ELSE None
  BY <1>1 DEF Fit, Exact, IfAny
<1>7. CASE a.position < a.capacity
  BY <1>1, <1>2, <1>3, <1>4, <1>5, <1>6, <1>7, ByteArrayAssumption
<1>8. CASE a.position = a.capacity
  BY <1>1, <1>2, <1>3, <1>4, <1>6, <1>8
<1> QED  BY <1>2, <1>3, <1>7, <1>8

(* Offset q of the chain is in one of its blocks. *)
LEMMA ByteIsInBlock ==
  ASSUME NEW a, Fit(a), NEW q \in Nat, q < a.capacity
  PROVE  (q \div Base) + 1 \in 1 .. Len(a.blocks) /\ q % Base \in 0 .. Base - 1
BY FitFacts, InChain, Division DEF Fit, Exact

(* addCapacity() makes room, points m_cur at it, and changes no byte. *)
LEMMA RoomIsMade ==
  ASSUME NEW a, Fit(a), NEW n \in Nat
  PROVE  LET g == AddCapacity(a, n)
         IN  /\ Fit(g) /\ g.position = a.position /\ g.size = a.size
             /\ g.little = a.little /\ g.fault = a.fault
             /\ a.position + n <= g.capacity /\ a.capacity <= g.capacity
             /\ \A q \in 0 .. a.capacity - 1 : Byte(g, q) = Byte(a, q)
<1> DEFINE g == AddCapacity(a, n)
           k == Missing(a, n)
           fresh == [i \in 1 .. k |-> BlockOf(Junk)]
<1>1. /\ a.capacity \in Nat /\ a.position \in 0 .. a.capacity /\ Len(a.blocks) \in Nat
      /\ DOMAIN a.blocks = 1 .. Len(a.blocks)
  BY FitFacts
<1>2. /\ k \in Nat /\ a.position + n <= a.capacity + k * Base
      /\ n > 0 /\ a.position = a.capacity => k > 0
  BY <1>1, MissingIsEnough
<1>3. /\ DOMAIN g = DOMAIN a /\ g.position = a.position /\ g.size = a.size /\ g.little = a.little /\ g.fault = a.fault
      /\ g.blocks = a.blocks \o fresh /\ g.capacity = a.capacity + (k * Base)
      /\ g.cur = IF k > 0 /\ a.capacity = a.position THEN Len(a.blocks) + 1 ELSE a.cur
  BY DEF AddCapacity, Fit, IsArray
<1> HIDE DEF k
<1>4. IsSeq(fresh) /\ Len(fresh) = k
  BY <1>2, MadeSeq
<1>5. IsSeq(a.blocks)
  BY DEF Fit, IsArray
<1> HIDE DEF g, fresh
<1>6. /\ IsSeq(g.blocks) /\ Len(g.blocks) = Len(a.blocks) + k
      /\ \A i \in 1 .. Len(a.blocks) + k :
           g.blocks[i] = IF i <= Len(a.blocks) THEN a.blocks[i] ELSE fresh[i - Len(a.blocks)]
  <2>1. /\ IsSeq(a.blocks \o fresh) /\ Len(a.blocks \o fresh) = Len(a.blocks) + Len(fresh)
        /\ \A i \in 1 .. Len(a.blocks) + Len(fresh) :
             (a.blocks \o fresh)[i] = IF i <= Len(a.blocks) THEN a.blocks[i] ELSE fresh[i - Len(a.blocks)]
    BY <1>4, <1>5, Joined, Zenon
  <2> QED  BY <1>3, <1>4, <2>1, Zenon
<1>7. IsArray(g)
  BY <1>3, <1>6 DEF Fit, IsArray
<1>8. g.capacity = Base * Len(g.blocks) /\ a.capacity <= g.capacity /\ g.capacity \in Nat
  <2>1. a.capacity = Base * Len(a.blocks)
    BY DEF Fit, Exact
  <2>2. k * Base \in Nat
    BY <1>2, Distribution
  <2>3. Base * (Len(a.blocks) + k) = Base * Len(a.blocks) + k * Base
    BY <1>1, <1>2, Distribution, Zenon
  <2>4. g.capacity = Base * Len(g.blocks)
    BY <1>3, <1>6, <2>1, <2>3
  <2> QED  BY <1>1, <1>3, <2>2, <2>4
<1>9. g.cur = IfAny(g, (g.position \div Base) + 1)
  <2>1. DOMAIN g.blocks = 1 .. Len(a.blocks) + k
    BY <1>6 DEF IsSeq
  <2>2. a.cur # None => a.cur = (a.position \div Base) + 1 /\ a.cur \in 1 .. Len(a.blocks)
    BY FitFacts
  <2>3. a.cur = None <=> a.position = a.capacity
    BY FitFacts
  <2>4. CASE a.cur # None
    BY <1>1, <1>2, <1>3, <2>1, <2>2, <2>3, <2>4 DEF IfAny
  <2>5. CASE a.cur = None
    <3>1. a.position = Len(a.blocks) * Base + 0 /\ 0 \in 0 .. Base - 1
      BY <1>1, <2>3, <2>5, ByteArrayAssumption DEF Fit, Exact
    <3>2. a.position \div Base = Len(a.blocks)
      BY <1>1, <3>1, DivisionIsUnique
    <3>3. g.position = a.position /\ (g.position \div Base) + 1 = Len(a.blocks) + 1
      BY <1>3, <3>2
    <3>4. g.cur = IF k > 0 THEN Len(a.blocks) + 1 ELSE None
      BY <1>3, <2>3, <2>5
    <3>5. Len(a.blocks) + 1 \in DOMAIN g.blocks <=> k > 0
      BY <1>1, <1>2, <2>1
    <3> QED  BY <3>3, <3>4, <3>5, Zenon DEF IfAny
  <2> QED  BY <2>4, <2>5
<1>10. Exact(g)
  <2>1. a.position <= a.size /\ a.size <= a.capacity /\ a.size \in Nat
    BY DEF Fit, IsArray, Exact
  <2>2. g.size <= g.capacity
    BY <1>1, <1>3, <1>8, <2>1
  <2> QED  BY <1>3, <1>8, <1>9, <2>1, <2>2 DEF Exact
<1>11. \A q \in 0 .. a.capacity - 1 : Byte(g, q) = Byte(a, q)
  <2> SUFFICES ASSUME NEW q \in 0 .. a.capacity - 1 PROVE Byte(g, q) = Byte(a, q)
    OBVIOUS
  <2> DEFINE b == (q \div Base) + 1
  <2>0. q \in Nat /\ q < a.capacity
    BY <1>1
  <2>1. b \in 1 .. Len(a.blocks)
    BY <2>0, ByteIsInBlock, Zenon
  <2> HIDE DEF b
  <2>2. g.blocks[b] = a.blocks[b]
    <3>1. k \in Nat /\ Len(a.blocks) \in Nat
      BY <1>1, <1>2
    <3>2. b \in 1 .. Len(a.blocks) + k /\ b <= Len(a.blocks)
      BY <2>1, <3>1
    <3> QED  BY <1>6, <3>2
  <2>3. Byte(g, q) = g.blocks[b][q % Base]
    BY DEF Byte, b
  <2>4. Byte(a, q) = a.blocks[b][q % Base]
    BY DEF Byte, b
  <2> QED  BY <2>2, <2>3, <2>4
<1> QED  BY <1>2, <1>3, <1>7, <1>8, <1>10, <1>11 DEF Fit, g

(* The distance of two offsets, from their blocks. *)
LEMMA Distance ==
  ASSUME NEW p \in Nat, NEW q \in Nat
  PROVE  ((((q \div Base) + 1) - ((p \div Base) + 1)) * Base) + (q % Base) - (p % Base) + 1 = q - p + 1
<1> DEFINE d == q \div Base
           r == q % Base
           c == p \div Base
           o == p % Base
<1>1. d \in Nat /\ r \in 0 .. Base - 1 /\ q = d * Base + r
  BY Division
<1>2. c \in Nat /\ o \in 0 .. Base - 1 /\ p = c * Base + o
  BY Division
<1> HIDE DEF d, r, c, o
<1>3. ((d + 1) - (c + 1)) * Base = d * Base - c * Base
  BY <1>1, <1>2, ByteArrayAssumption
<1>4. r \in Int /\ o \in Int /\ d * Base \in Int /\ c * Base \in Int
  BY <1>1, <1>2, ByteArrayAssumption
<1>5. ((d + 1) - (c + 1)) * Base + r - o + 1 = q - p + 1
  BY <1>1, <1>2, <1>3, <1>4
<1> QED  BY <1>5 DEF d, r, c, o

(* The walk that stores bytes changes those from the position on. *)
LEMMA StoredFacts ==
  ASSUME NEW a, Fit(a), a.cur # None, NEW bytes, IsSeq(bytes)
  PROVE  LET blocks == Stored(a, bytes)
         IN  /\ IsSeq(blocks) /\ Len(blocks) = Len(a.blocks)
             /\ \A q \in 0 .. a.capacity - 1 :
                  blocks[(q \div Base) + 1][q % Base] =
                    IF q - a.position + 1 \in 1 .. Len(bytes) THEN bytes[q - a.position + 1] ELSE Byte(a, q)
<1> DEFINE blocks == Stored(a, bytes)
<1>1. /\ a.capacity \in Nat /\ Len(a.blocks) \in Nat
      /\ DOMAIN a.blocks = 1 .. Len(a.blocks)
      /\ a.cur = (a.position \div Base) + 1
  BY FitFacts
<1>2. DOMAIN bytes = 1 .. Len(bytes)
  BY DEF IsSeq
<1>3. IsSeq(blocks) /\ Len(blocks) = Len(a.blocks)
  <2>1. blocks = [b \in 1 .. Len(a.blocks) |-> blocks[b]]
    BY <1>1 DEF Stored
  <2> QED  BY <1>1, <2>1, MadeSeq
<1>4. ASSUME NEW q \in 0 .. a.capacity - 1
      PROVE  blocks[(q \div Base) + 1][q % Base] =
               IF q - a.position + 1 \in 1 .. Len(bytes) THEN bytes[q - a.position + 1] ELSE Byte(a, q)
  <2>1. q \in Nat /\ q < a.capacity /\ a.position \in Nat
    BY <1>1 DEF Fit, IsArray
  <2> DEFINE b == (q \div Base) + 1
             o == q % Base
             i == (b - a.cur) * Base + o - Offset(a) + 1
  <2>2. b \in DOMAIN a.blocks /\ o \in 0 .. Base - 1
    BY <1>1, <2>1, ByteIsInBlock
  <2>3. i = q - a.position + 1
    BY <1>1, <2>1, Distance DEF Offset
  <2>4. blocks[b][o] = IF i \in DOMAIN bytes THEN bytes[i] ELSE a.blocks[b][o]
    <3> HIDE DEF b, o
    <3> QED  BY <2>2, Zenon DEF Stored
  <2> QED  BY <1>2, <2>3, <2>4 DEF Byte
<1> QED  BY <1>3, <1>4

(* Where the walk over n bytes ends. *)
LEMMA CursorWalks ==
  ASSUME NEW a, Fit(a), a.cur # None, NEW n \in Nat
  PROVE  CurAfter(a, n) = IfAny(a, ((a.position + n) \div Base) + 1)
<1> DEFINE c == a.position \div Base
           d == ((a.position % Base) + n) \div Base
<1>1. a.cur = c + 1
  BY FitFacts
<1>2. a.position \in Nat
  BY DEF Fit, IsArray
<1>3. c + d = (a.position + n) \div Base
  BY <1>2, WalkEnds
<1>4. c \in Nat /\ d \in Nat
  <2>1. c \in Nat /\ a.position % Base \in Nat
    BY <1>2, Division
  <2>2. (a.position % Base) + n \in Nat
    BY <2>1
  <2> QED  BY <2>1, <2>2, Division
<1>5. CurAfter(a, n) = IfAny(a, a.cur + d)
  BY DEF CurAfter, Offset
<1> HIDE DEF c, d
<1>6. a.cur + d = (c + d) + 1
  BY <1>1, <1>4
<1> QED  BY <1>3, <1>5, <1>6

(* What the walk over n bytes passes. *)
LEMMA PassedBytes ==
  ASSUME NEW a, Fit(a), NEW n \in Nat, a.position + n <= a.capacity
  PROVE  Passed(a, n) = [i \in 1 .. n |-> Byte(a, a.position + i - 1)]
<1> SUFFICES ASSUME NEW i \in 1 .. n
             PROVE  Passed(a, n)[i] = Byte(a, a.position + i - 1)
  BY DEF Passed
<1> DEFINE m == i - 1
           k == Offset(a) + i - 1
<1>1. m \in Nat /\ a.position \in Nat /\ a.position < a.capacity
  BY FitFacts DEF Fit, IsArray
<1>2. a.cur = (a.position \div Base) + 1
  BY <1>1, FitFacts
<1>3. a.position % Base \in Nat /\ a.position \div Base \in Nat
  BY <1>1, Division
<1>4. k = (a.position % Base) + m
  BY <1>3 DEF Offset
<1>5. k \in Nat
  BY <1>1, <1>3, <1>4
<1>6. /\ (a.position \div Base) + (k \div Base) = (a.position + m) \div Base
      /\ k % Base = (a.position + m) % Base
  BY <1>1, <1>4, WalkEnds
<1>7. k \div Base \in Nat
  BY <1>5, Division
<1>8. a.position + i - 1 = a.position + m
  BY <1>1
<1>9. Passed(a, n)[i] = a.blocks[a.cur + (k \div Base)][k % Base]
  BY DEF Passed
<1> HIDE DEF m, k
<1>10. a.cur + (k \div Base) = ((a.position + m) \div Base) + 1
  BY <1>2, <1>3, <1>6, <1>7
<1> QED  BY <1>6, <1>8, <1>9, <1>10 DEF Byte

(* What w is when bytes have been put into a at its position. *)
Overwritten(a, w, bytes) ==
  /\ Fit(w) /\ w.position = a.position + Len(bytes)
  /\ w.size = Larger(a.size, a.position + Len(bytes))
  /\ \A q \in 0 .. w.size - 1 :
       IF q - a.position + 1 \in 1 .. Len(bytes) THEN Byte(w, q) = bytes[q - a.position + 1]
       ELSE q < a.size => Byte(w, q) = Byte(a, q)

(* write(): the position moves behind the bytes, which are the only change. *)
LEMMA WriteFacts ==
  ASSUME NEW a, Fit(a), NEW bytes, IsSeq(bytes)
  PROVE  Overwritten(a, Write(a, bytes), bytes)
<1> DEFINE n == Len(bytes)
           g == AddCapacity(a, n)
           w == Write(a, bytes)
<1>1. n \in Nat /\ a.position \in Nat /\ a.size \in Nat /\ a.position <= a.size /\ a.size <= a.capacity
      /\ a.capacity \in Nat
  BY FitFacts DEF Fit, IsArray, IsSeq, Exact
<1>2. CASE bytes = <<>>
  <2>1. w = a /\ n = 0
    BY <1>2, KnownSeqs DEF Write
  <2> HIDE DEF w, n
  <2>2. Larger(a.size, a.position + n) = a.size
    BY <1>1, <2>1 DEF Larger
  <2>3. \A q \in 0 .. w.size - 1 : q < a.size /\ ~(q - a.position + 1 \in 1 .. n)
    BY <1>1, <2>1
  <2> QED  BY <1>1, <2>1, <2>2, <2>3 DEF w, n, Overwritten
<1>3. CASE bytes # <<>>
  <2> DEFINE blocks == Stored(g, bytes)
  <2>1. n > 0
    <3>1. n # 0
      <4> SUFFICES ASSUME n = 0 PROVE FALSE
        OBVIOUS
      <4>1. IsSeq(bytes) /\ IsSeq(<<>>) /\ Len(bytes) = Len(<<>>) /\ \A i \in 1 .. Len(bytes) : bytes[i] = <<>>[i]
        BY KnownSeqs
      <4> QED  BY <1>3, <4>1, SameSeq
    <3> QED  BY <1>1, <3>1
  <2>2. /\ Fit(g) /\ g.position = a.position /\ g.size = a.size /\ g.little \in BOOLEAN
        /\ a.position + n <= g.capacity /\ a.capacity <= g.capacity
        /\ \A q \in 0 .. a.capacity - 1 : Byte(g, q) = Byte(a, q)
    BY <1>1, RoomIsMade DEF Fit, IsArray
  <2>3. /\ w = [g EXCEPT !.blocks = blocks, !.cur = CurAfter(g, n),
                         !.position = a.position + n, !.size = Larger(@, a.position + n)]
    BY <1>3 DEF Write
  <2>4. DOMAIN g = {"blocks", "cur", "position", "size", "capacity", "little", "fault"}
    BY <2>2 DEF Fit, IsArray
  <2> HIDE DEF g, blocks, w, n
  <2>5. /\ DOMAIN w = DOMAIN g /\ w.blocks = blocks /\ w.cur = CurAfter(g, n) /\ w.position = a.position + n
        /\ w.size = Larger(a.size, a.position + n) /\ w.capacity = g.capacity /\ w.little = g.little
    BY <2>2, <2>3, <2>4
  <2>6. g.capacity \in Nat /\ g.capacity = Base * Len(g.blocks) /\ g.cur # None
    <3>1. g.capacity \in Nat /\ (g.cur = None => g.position = g.capacity)
      BY <2>2, FitFacts
    <3>2. g.capacity = Base * Len(g.blocks)
      BY <2>2 DEF Fit, Exact
    <3> QED  BY <1>1, <2>1, <2>2, <3>1, <3>2
  <2>7. /\ IsSeq(blocks) /\ Len(blocks) = Len(g.blocks)
        /\ \A q \in 0 .. g.capacity - 1 :
             blocks[(q \div Base) + 1][q % Base] =
               IF q - g.position + 1 \in 1 .. n THEN bytes[q - g.position + 1] ELSE Byte(g, q)
    BY <2>2, <2>6, StoredFacts, Zenon DEF blocks, n
  <2>8. CurAfter(g, n) = IfAny(g, ((g.position + n) \div Base) + 1)
    BY <1>1, <2>2, <2>6, CursorWalks
  <2>9. DOMAIN g.blocks = DOMAIN w.blocks
    BY <2>2, <2>5, <2>7 DEF Fit, IsArray, IsSeq
  <2>10. w.cur = IfAny(w, (w.position \div Base) + 1)
    BY <2>2, <2>5, <2>8, <2>9, Zenon DEF IfAny
  <2>11. /\ w.size \in Nat /\ w.position \in Nat /\ w.position <= w.size /\ w.size <= w.capacity
         /\ a.size <= w.size
    BY <1>1, <2>2, <2>5, <2>6 DEF Larger
  <2>12. Fit(w)
    BY <2>2, <2>4, <2>5, <2>6, <2>7, <2>10, <2>11 DEF Fit, IsArray, Exact
  <2>13. ASSUME NEW q \in 0 .. w.size - 1
         PROVE  IF q - a.position + 1 \in 1 .. n THEN Byte(w, q) = bytes[q - a.position + 1]
                ELSE q < a.size => Byte(w, q) = Byte(a, q)
    <3>1. q \in 0 .. g.capacity - 1
      BY <2>5, <2>6, <2>11
    <3>2. q < a.size => q \in 0 .. a.capacity - 1
      BY <1>1
    <3>3. Byte(w, q) = IF q - a.position + 1 \in 1 .. n THEN bytes[q - a.position + 1] ELSE Byte(g, q)
      <4>1. Byte(w, q) = blocks[(q \div Base) + 1][q % Base]
        BY <2>5 DEF Byte
      <4>2. g.position = a.position
        BY <2>2
      <4> QED  BY <2>7, <3>1, <4>1, <4>2, Zenon
    <3> QED  BY <2>2, <3>2, <3>3, Zenon
  <2> QED  BY <2>5, <2>12, <2>13 DEF w, n, Overwritten
<1> QED  BY <1>2, <1>3

(* setPosition(), whose walk from the root has its special case for a whole block. *)
LEMMA SetPositionFacts ==
  ASSUME NEW a, IsArray(a), a.capacity = Base * Len(a.blocks), a.size <= a.capacity,
         NEW p \in 0 .. a.capacity
  PROVE  LET s == SetPosition(a, p)
         IN  /\ Fit(s) /\ s.position = p /\ s.size = Larger(a.size, p) /\ s.blocks = a.blocks
             /\ s.capacity = a.capacity /\ s.little = a.little /\ s.fault = a.fault
             /\ \A q : Byte(s, q) = Byte(a, q)
<1> DEFINE s == SetPosition(a, p)
           steps == IF p = 0 THEN 0 ELSE (p - 1) \div Base
           k == IF p - (steps * Base) = Base THEN steps + 2 ELSE steps + 1
<1>1. Len(a.blocks) \in Nat /\ a.size \in Nat
  BY DEF IsArray, IsSeq
<1>2. a.capacity \in Nat
  BY <1>1, Distribution
<1>3. /\ DOMAIN s = DOMAIN a /\ s.position = p /\ s.size = Larger(a.size, p) /\ s.blocks = a.blocks
      /\ s.capacity = a.capacity /\ s.little = a.little /\ s.fault = a.fault
      /\ s.cur = IfAny(a, k)
  BY DEF SetPosition, IsArray
<1> HIDE DEF s
<1>4. p \in Nat
  BY <1>2
<1>5. k = (p \div Base) + 1
  <2>1. CASE p = 0
    <3>1. 0 = 0 * Base + 0 /\ 0 \in 0 .. Base - 1
      BY ByteArrayAssumption
    <3>2. 0 \div Base = 0
      BY <3>1, DivisionIsUnique
    <3>3. p - (steps * Base) # Base
      BY <2>1, ByteArrayAssumption
    <3> QED  BY <2>1, <3>2, <3>3
  <2>2. CASE p # 0
    <3> DEFINE d == (p - 1) \div Base
               r == (p - 1) % Base
    <3>1. p - 1 \in Nat
      BY <1>4, <2>2
    <3>2. d \in Nat /\ r \in 0 .. Base - 1 /\ p - 1 = d * Base + r
      BY <3>1, Division
    <3>3. steps = d
      BY <2>2
    <3> HIDE DEF d, r, steps
    <3>4. d * Base \in Nat
      BY <3>2, Distribution
    <3>5. p - (d * Base) = r + 1
      BY <1>4, <3>2, <3>4
    <3>6. CASE r + 1 = Base
      <4>1. p = (d + 1) * Base + 0 /\ 0 \in 0 .. Base - 1
        BY <1>4, <3>2, <3>6, ByteArrayAssumption
      <4>2. p \div Base = d + 1
        BY <1>4, <3>2, <4>1, DivisionIsUnique
      <4> QED  BY <3>2, <3>3, <3>5, <3>6, <4>2
    <3>7. CASE r + 1 # Base
      <4>1. p = d * Base + (r + 1) /\ r + 1 \in 0 .. Base - 1
        BY <1>4, <3>2, <3>4, <3>7, ByteArrayAssumption
      <4>2. p \div Base = d
        BY <1>4, <3>2, <4>1, DivisionIsUnique
      <4> QED  BY <3>2, <3>3, <3>5, <3>7, <4>2
    <3> QED  BY <3>6, <3>7
  <2> QED  BY <2>1, <2>2
<1> HIDE DEF k
<1>6. s.cur = IfAny(s, (s.position \div Base) + 1)
  BY <1>3, <1>5, Zenon DEF IfAny
<1>7. s.size \in Nat /\ p <= s.size /\ s.size <= a.capacity
  BY <1>1, <1>2, <1>3, <1>4 DEF Larger
<1>8. Fit(s)
  BY <1>3, <1>4, <1>6, <1>7 DEF Fit, IsArray, Exact
<1>9. \A q : Byte(s, q) = Byte(a, q)
  BY <1>3 DEF Byte
<1> QED  BY <1>3, <1>8, <1>9 DEF s

(* read() of n bytes, which a null block makes a fault. *)
LEMMA ReadFacts ==
  ASSUME NEW a, Fit(a), NEW n \in Nat, ~Throws(a, n)
  PROVE  LET r == Read(a, n)
         IN  /\ Fit(r) /\ r.size = a.size /\ r.position = a.position + n
             /\ r.blocks = a.blocks
             /\ a.cur = None => n = 0
<1> DEFINE r == Read(a, n)
<1>1. /\ a.position \in Nat /\ a.size \in Nat /\ a.capacity \in Nat
      /\ a.position <= a.size /\ a.size <= a.capacity
  BY FitFacts DEF Fit, IsArray, Exact
<1>2. a.position + n <= a.size
  BY <1>1 DEF Throws
<1>3. DOMAIN a = {"blocks", "cur", "position", "size", "capacity", "little", "fault"}
  BY DEF Fit, IsArray
<1>4. CASE a.cur = None
  <2>1. n = 0
    BY <1>1, <1>2, <1>4, FitFacts
  <2>2. r = [a EXCEPT !.fault = TRUE]
    BY <1>4 DEF Read
  <2> HIDE DEF r
  <2>3. /\ DOMAIN r = DOMAIN a /\ r.blocks = a.blocks /\ r.cur = a.cur /\ r.position = a.position
        /\ r.size = a.size /\ r.capacity = a.capacity /\ r.little = a.little
    BY <1>3, <2>2
  <2>4. Fit(r)
    BY <2>3, Zenon DEF Fit, IsArray, Exact, IfAny
  <2> QED  BY <1>1, <2>1, <2>3, <2>4 DEF r
<1>5. CASE a.cur # None
  <2>1. r = [a EXCEPT !.position = @ + n, !.cur = CurAfter(a, n)]
    BY <1>5 DEF Read
  <2> HIDE DEF r
  <2>2. /\ DOMAIN r = DOMAIN a /\ r.blocks = a.blocks /\ r.cur = CurAfter(a, n)
        /\ r.position = a.position + n /\ r.size = a.size /\ r.capacity = a.capacity /\ r.little = a.little
    BY <1>3, <2>1
  <2>3. r.cur = IfAny(r, (r.position \div Base) + 1)
    BY <1>5, <2>2, CursorWalks DEF IfAny
  <2>4. Fit(r)
    BY <1>1, <1>2, <2>2, <2>3 DEF Fit, IsArray, Exact
  <2> QED  BY <1>5, <2>2, <2>4 DEF r
<1> QED  BY <1>4, <1>5

-----------------------------------------------------------------------------
(* The numbers that stand before an item are sequences of bytes, ... *)
LEMMA PrefixIsSeq ==
  ASSUME NEW item \in Items, NEW little
  PROVE  IsSeq(Prefix(item, little))
<1>1. ASSUME NEW v PROVE IsSeq(Fixed(v, little))
  <2> DEFINE b == [i \in 1 .. IntBytes |-> Digit(v, Radix, i)]
             r == [i \in DOMAIN b |-> b[Len(b) + 1 - i]]
  <2>1. IsSeq(b) /\ DOMAIN b = 1 .. IntBytes
    <3>1. b = [i \in 1 .. IntBytes |-> b[i]]
      BY Zenon
    <3> HIDE DEF b
    <3> QED  BY <3>1, ByteArrayAssumption, MadeSeq
  <2>2. IsSeq(r)
    <3> HIDE DEF b
    <3>1. r = [i \in 1 .. IntBytes |-> r[i]]
      BY <2>1
    <3> QED  BY <3>1, ByteArrayAssumption, MadeSeq
  <2>3. Fixed(v, little) = IF little THEN b ELSE r
    BY DEF Fixed, Swapped
  <2> QED  BY <2>1, <2>2, <2>3
<1>2. ASSUME NEW v PROVE IsSeq(Varint(v))
  <2> DEFINE K == {k \in 1 .. IntBytes * (Group + 1) : v >= Power(Half, k)}
             n == 1 + Cardinality(K)
             s == [i \in 1 .. n |-> Digit(v, Half, i) + (IF i < n THEN Half ELSE 0)]
  <2>1. IntBytes * (Group + 1) \in Int
    BY ByteArrayAssumption
  <2>2. IsFiniteSet(1 .. IntBytes * (Group + 1))
    BY <2>1, FS_Interval
  <2>3. IsFiniteSet(K)
    BY <2>2, FS_Subset
  <2>4. Cardinality(K) \in Nat
    BY <2>3, FS_CardinalityType
  <2>5. n \in Nat
    BY <2>4
  <2>6. Varint(v) = s
    BY DEF Varint
  <2> HIDE DEF n
  <2>7. IsSeq(s)
    BY <2>5, MadeSeq
  <2> QED  BY <2>6, <2>7
<1>3. CASE item.kind = "fixed"
  BY <1>1, <1>3 DEF Prefix
<1>4. CASE item.kind = "varint"
  BY <1>2, <1>4 DEF Prefix
<1>5. CASE item.kind = "zigzag"
  BY <1>2, <1>5 DEF Prefix
<1>6. CASE item.kind = "stringF"
  BY <1>1, <1>6 DEF Prefix
<1>7. CASE item.kind = "stringVint"
  BY <1>2, <1>7 DEF Prefix
<1> QED  BY <1>3, <1>4, <1>5, <1>6, <1>7, ByteArrayAssumption

(* ... and so are the texts behind them. *)
LEMMA TextIsSeq ==
  /\ \A item \in Items : IsString(item) => IsSeq(item.value)
  /\ \A text \in Received : IsSeq(text)
BY KnownSeqs, ByteArrayAssumption

(* Two writes in a row are one. *)
LEMMA WriteTwice ==
  ASSUME NEW a, Fit(a), NEW s, NEW t, IsSeq(s), IsSeq(t)
  PROVE  Overwritten(a, Write(Write(a, s), t), s \o t)
<1> DEFINE v == Write(a, s)
           w == Write(v, t)
           m == Len(s)
           n == Len(t)
           p == a.position
<1>1. Overwritten(a, v, s)
  BY WriteFacts
<1>2. Overwritten(v, w, t)
  BY <1>1, WriteFacts DEF Overwritten
<1>3. /\ Len(s \o t) = m + n
      /\ \A i \in 1 .. m + n : (s \o t)[i] = IF i <= m THEN s[i] ELSE t[i - m]
  BY Joined
<1>4. m \in Nat /\ n \in Nat /\ p \in Nat /\ a.size \in Nat
  BY DEF Fit, IsArray, IsSeq
<1> DEFINE st == s \o t
<1> HIDE DEF v, w, m, n, p, st
<1>5. /\ v.position = p + m /\ v.size = Larger(a.size, p + m)
      /\ \A q \in 0 .. v.size - 1 :
           IF q - p + 1 \in 1 .. m THEN Byte(v, q) = s[q - p + 1] ELSE q < a.size => Byte(v, q) = Byte(a, q)
  BY <1>1 DEF Overwritten, m, p
<1>6. /\ w.position = v.position + n /\ w.size = Larger(v.size, v.position + n) /\ Fit(w)
      /\ \A q \in 0 .. w.size - 1 :
           IF q - v.position + 1 \in 1 .. n THEN Byte(w, q) = t[q - v.position + 1]
           ELSE q < v.size => Byte(w, q) = Byte(v, q)
  BY <1>2 DEF Overwritten, n
<1>7. w.position = p + (m + n) /\ w.size = Larger(a.size, p + (m + n))
  BY <1>4, <1>5, <1>6 DEF Larger
<1>8. v.size \in Nat /\ v.size >= p + m /\ v.size >= a.size /\ w.size \in Nat
  BY <1>4, <1>5, <1>7 DEF Larger
<1>9. ASSUME NEW q \in 0 .. w.size - 1
      PROVE  IF q - p + 1 \in 1 .. m + n THEN Byte(w, q) = st[q - p + 1]
             ELSE q < a.size => Byte(w, q) = Byte(a, q)
  <2>1. q \in Nat
    BY <1>8
  <2> DEFINE i == q - p + 1
  <2>2. i \in Int /\ q - v.position + 1 = i - m
    BY <1>4, <1>5, <2>1
  <2>3. CASE i \in 1 .. m
    <3>1. st[i] = s[i] /\ i \in 1 .. m + n
      BY <1>3, <1>4, <2>3 DEF st, m, n
    <3>2. ~(i - m \in 1 .. n) /\ q < v.size /\ q \in 0 .. v.size - 1
      BY <1>4, <1>8, <2>1, <2>3
    <3>3. Byte(w, q) = Byte(v, q)
      BY <1>6, <2>2, <3>2
    <3>4. Byte(v, q) = s[i]
      BY <1>5, <2>3, <3>2
    <3> QED  BY <3>1, <3>3, <3>4
  <2>4. CASE i - m \in 1 .. n
    <3>1. st[i] = t[i - m] /\ i \in 1 .. m + n
      BY <1>3, <1>4, <2>2, <2>4 DEF st, m, n
    <3>2. Byte(w, q) = t[i - m]
      BY <1>6, <2>2, <2>4
    <3> QED  BY <3>1, <3>2
  <2>5. CASE ~(i \in 1 .. m) /\ ~(i - m \in 1 .. n)
    <3>1. ~(i \in 1 .. m + n)
      BY <1>4, <2>2, <2>5
    <3>2. ASSUME q < a.size PROVE Byte(w, q) = Byte(a, q)
      <4>1. q < v.size /\ q \in 0 .. v.size - 1
        BY <1>4, <1>8, <2>1, <3>2
      <4>2. Byte(w, q) = Byte(v, q)
        BY <1>6, <2>2, <2>5, <4>1
      <4>3. Byte(v, q) = Byte(a, q)
        BY <1>5, <2>5, <3>2, <4>1
      <4> QED  BY <4>2, <4>3
    <3> QED  BY <3>1, <3>2
  <2> QED  BY <2>3, <2>4, <2>5
<1> QED  BY <1>3, <1>6, <1>7, <1>9 DEF Overwritten, w, v, st, m, n, p

(* What the store holds. *)
LEMMA ContentsFacts ==
  ASSUME NEW a, a.size \in Nat
  PROVE  /\ IsSeq(Contents(a)) /\ Len(Contents(a)) = a.size
         /\ \A i \in 1 .. a.size : Contents(a)[i] = Byte(a, i - 1)
<1>1. Smaller(a.size, a.size - 0) = a.size
  BY DEF Smaller
<1>2. Contents(a) = [i \in 1 .. a.size |-> a.blocks[((0 + i - 1) \div Base) + 1][(0 + i - 1) % Base]]
  BY <1>1 DEF Contents, BuffersAt
<1>3. \A i \in 1 .. a.size : 0 + i - 1 = i - 1
  OBVIOUS
<1>4. Contents(a) = [i \in 1 .. a.size |-> Byte(a, i - 1)]
  BY <1>2, <1>3, Zenon DEF Byte
<1> DEFINE c == Contents(a)
<1>5. c = [i \in 1 .. a.size |-> c[i]] /\ \A i \in 1 .. a.size : c[i] = Byte(a, i - 1)
  <2> HIDE DEF c
  <2>1. c = [i \in 1 .. a.size |-> Byte(a, i - 1)]
    BY <1>4 DEF c
  <2> QED  BY <2>1
<1> HIDE DEF c
<1>6. IsSeq(c) /\ Len(c) = a.size
  BY <1>5, MadeSeq
<1> QED  BY <1>5, <1>6 DEF c

(* In e, text has replaced what followed p in d. *)
Replaced(d, e, p, text) ==
  /\ Len(e) = Larger(Len(d), p + Len(text))
  /\ \A i \in 1 .. Len(e) :
       IF i - p \in 1 .. Len(text) THEN e[i] = text[i - p] ELSE i <= Len(d) => e[i] = d[i]

(* Then e is put together from three parts. *)
LEMMA Overlay ==
  ASSUME NEW d, NEW e, NEW text, IsSeq(d), IsSeq(e), IsSeq(text), NEW p \in 0 .. Len(d),
         Replaced(d, e, p, text)
  PROVE  e = SubSeq(d, 1, p) \o text \o SubSeq(d, p + Len(text) + 1, Len(d))
<1> DEFINE m == Len(d)
           n == Len(text)
           r == IF p + n < m THEN m - (p + n) ELSE 0
           front == SubSeq(d, 1, p)
           back == SubSeq(d, p + n + 1, m)
           both == front \o text
           all == both \o back
<1>1. m \in Nat /\ n \in Nat /\ p \in Nat /\ p <= m /\ r \in Nat
  BY DEF IsSeq
<1>2. IsSeq(front) /\ Len(front) = p /\ \A i \in 1 .. p : front[i] = d[i]
  <2>1. 1 \in 1 .. m + 1 /\ p \in 0 .. m /\ 1 <= p + 1
    BY <1>1
  <2>2. IsSeq(front) /\ Len(front) = p + 1 - 1 /\ \A i \in 1 .. p + 1 - 1 : front[i] = d[1 + i - 1]
    BY <2>1, Part, Zenon
  <2> HIDE DEF front
  <2>3. p + 1 - 1 = p /\ \A i \in 1 .. p : 1 + i - 1 = i
    BY <1>1
  <2> QED  BY <2>2, <2>3
<1>3. IsSeq(back) /\ Len(back) = r /\ \A i \in 1 .. r : back[i] = d[p + n + i]
  <2>1. CASE p + n <= m
    <3>1. p + n + 1 \in 1 .. m + 1 /\ m \in 0 .. m /\ p + n + 1 <= m + 1
      BY <1>1, <2>1
    <3>2. /\ IsSeq(back) /\ Len(back) = m + 1 - (p + n + 1)
          /\ \A i \in 1 .. m + 1 - (p + n + 1) : back[i] = d[p + n + 1 + i - 1]
      BY <3>1, Part, Zenon
    <3> HIDE DEF back
    <3>3. m + 1 - (p + n + 1) = r /\ \A i \in 1 .. r : p + n + 1 + i - 1 = p + n + i
      BY <1>1, <2>1
    <3> QED  BY <3>2, <3>3
  <2>2. CASE m < p + n
    <3>1. p + n + 1 \in Int /\ m \in Int /\ m < p + n + 1 /\ r = 0
      BY <1>1, <2>2
    <3>2. back = <<>>
      BY <3>1, SubSeqEmpty, Zenon
    <3> HIDE DEF back
    <3> QED  BY <3>1, <3>2, KnownSeqs
  <2> QED  BY <1>1, <2>1, <2>2
<1> HIDE DEF front, back
<1>4. IsSeq(both) /\ Len(both) = p + n /\ \A i \in 1 .. p + n : both[i] = IF i <= p THEN front[i] ELSE text[i - p]
  BY <1>2, Joined
<1> HIDE DEF both
<1>5. /\ IsSeq(all) /\ Len(all) = (p + n) + r
      /\ \A i \in 1 .. (p + n) + r : all[i] = IF i <= p + n THEN both[i] ELSE back[i - (p + n)]
  <2>1. /\ IsSeq(both \o back) /\ Len(both \o back) = Len(both) + Len(back)
        /\ \A i \in 1 .. Len(both) + Len(back) :
             (both \o back)[i] = IF i <= Len(both) THEN both[i] ELSE back[i - Len(both)]
    BY <1>3, <1>4, Joined, Zenon
  <2> QED  BY <1>3, <1>4, <2>1, Zenon
<1> HIDE DEF all, r
<1>6. Len(e) = (p + n) + r /\ (r > 0 => m = (p + n) + r)
  <2>1. Len(e) = IF m > p + n THEN m ELSE p + n
    BY DEF Larger, Replaced
  <2> HIDE DEF m, n
  <2> QED  BY <1>1, <2>1 DEF r
<1>7. ASSUME NEW i \in 1 .. (p + n) + r PROVE all[i] = e[i]
  <2>1. IF i - p \in 1 .. n THEN e[i] = text[i - p] ELSE i <= m => e[i] = d[i]
    BY <1>6 DEF Replaced
  <2>2. CASE i <= p
    <3>1. ~(i - p \in 1 .. n) /\ i <= p + n /\ i \in 1 .. p /\ i <= m /\ i \in 1 .. p + n
      BY <1>1, <2>2
    <3>2. all[i] = front[i]
      BY <1>4, <1>5, <2>2, <3>1
    <3> QED  BY <1>2, <2>1, <3>1, <3>2
  <2>3. CASE i - p \in 1 .. n
    <3>1. ~(i <= p) /\ i \in 1 .. p + n /\ i <= p + n
      BY <1>1, <2>3
    <3>2. all[i] = text[i - p]
      BY <1>4, <1>5, <3>1
    <3> QED  BY <2>1, <2>3, <3>2
  <2>4. CASE i > p + n
    <3>1. /\ ~(i - p \in 1 .. n) /\ i - (p + n) \in 1 .. r /\ p + n + (i - (p + n)) = i
          /\ ~(i <= p + n) /\ r > 0
      BY <1>1, <2>4
    <3>2. all[i] = d[i]
      BY <1>3, <1>5, <3>1
    <3>3. i <= m
      BY <1>1, <1>6, <3>1
    <3> QED  BY <2>1, <3>1, <3>2, <3>3
  <2> QED  BY <1>1, <2>2, <2>3, <2>4
<1>8. e = all
  BY <1>5, <1>6, <1>7, SameSeq
<1> QED  BY <1>8 DEF all, both, front, back

-----------------------------------------------------------------------------
(* What every call leaves: an object whose cursor is exact, within the bound. *)
ChainInv == Fit(ba) /\ ba.size <= MaxSize

(* Overwriting the chain is writing to the store. *)
LEMMA OverwrittenIsWritten ==
  ASSUME Fit(ba), NEW bytes, IsSeq(bytes), Overwritten(ba, ba', bytes), out' = <<>>
  PROVE  Store!Write(bytes)
<1> DEFINE n == Len(bytes)
           d == Contents(ba)
           e == Contents(ba')
           p == ba.position
<1>1. n \in Nat /\ p \in Nat /\ ba.size \in Nat /\ p <= ba.size
  BY DEF Fit, IsArray, Exact, IsSeq
<1>2. ba'.size \in Nat /\ ba'.size = Larger(ba.size, p + n) /\ ba'.position = p + n
  BY DEF Overwritten, Fit, IsArray
<1>3. IsSeq(d) /\ Len(d) = ba.size /\ \A i \in 1 .. ba.size : d[i] = Byte(ba, i - 1)
  BY <1>1, ContentsFacts
<1>4. IsSeq(e) /\ Len(e) = ba'.size /\ \A i \in 1 .. ba'.size : e[i] = Byte(ba', i - 1)
  BY <1>2, ContentsFacts
<1>5. \A q \in 0 .. ba'.size - 1 :
        IF q - p + 1 \in 1 .. n THEN Byte(ba', q) = bytes[q - p + 1]
        ELSE q < ba.size => Byte(ba', q) = Byte(ba, q)
  BY DEF Overwritten
<1> HIDE DEF d, e, n, p
<1>6. ASSUME NEW i \in 1 .. ba'.size
      PROVE  IF i - p \in 1 .. n THEN e[i] = bytes[i - p] ELSE i <= ba.size => e[i] = d[i]
  <2>1. i - 1 \in 0 .. ba'.size - 1 /\ (i - 1) - p + 1 = i - p /\ (i - 1 < ba.size <=> i <= ba.size)
    BY <1>1, <1>2
  <2>2. IF i - p \in 1 .. n THEN Byte(ba', i - 1) = bytes[i - p]
        ELSE i <= ba.size => Byte(ba', i - 1) = Byte(ba, i - 1)
    BY <1>5, <2>1
  <2>3. i <= ba.size => i \in 1 .. ba.size
    BY <1>1, <1>2
  <2> QED  BY <1>3, <1>4, <2>2, <2>3
<1>7. p \in 0 .. Len(d) /\ Replaced(d, e, p, bytes)
  BY <1>1, <1>2, <1>3, <1>4, <1>6 DEF Replaced, n
<1>8. e = SubSeq(d, 1, p) \o bytes \o SubSeq(d, p + n + 1, Len(d))
  BY <1>3, <1>4, <1>7, Overlay, Zenon DEF n
<1> QED  BY <1>2, <1>8 DEF Store!Write, d, e, n, p

(* Moving the position, over bytes that stay, is moving in the store. *)
LEMMA MovedIsMoved ==
  ASSUME Fit(ba), Fit(ba'), ba'.size = Larger(ba.size, ba'.position), out' = <<>>,
         \A q \in 0 .. ba.size - 1 : Byte(ba', q) = Byte(ba, q)
  PROVE  Store!Move(ba'.position)
<1>1. ba.size \in Nat /\ ba'.size \in Nat /\ ba'.position \in Nat
  BY DEF Fit, IsArray
<1>2. Len(Contents(ba)) = ba.size /\ \A i \in 1 .. ba.size : Contents(ba)[i] = Byte(ba, i - 1)
  BY <1>1, ContentsFacts
<1>3. Len(Contents(ba')) = ba'.size /\ \A i \in 1 .. ba'.size : Contents(ba')[i] = Byte(ba', i - 1)
  BY <1>1, ContentsFacts
<1>4. ba'.size = IF ba'.position > ba.size THEN ba'.position ELSE ba.size
  BY <1>1 DEF Larger
<1>5. ASSUME NEW i \in 1 .. ba.size PROVE Contents(ba')[i] = Contents(ba)[i]
  <2>1. i - 1 \in 0 .. ba.size - 1 /\ i \in 1 .. ba'.size
    BY <1>1, <1>4
  <2> QED  BY <1>2, <1>3, <2>1
<1> QED  BY <1>2, <1>3, <1>4, <1>5 DEF Store!Move

(* Put: an item is written at once, though a string is two writes. *)
LEMMA PutOverwrites ==
  ASSUME ChainInv, NEW item \in Items, Put(item)
  PROVE  /\ Overwritten(ba, ba', Encoded(item, ba.little))
         /\ IsSeq(Encoded(item, ba.little))
<1> DEFINE head == Prefix(item, ba.little)
           text == Encoded(item, ba.little)
<1>1. IsSeq(head)
  BY PrefixIsSeq
<1>2. CASE IsString(item)
  <2>1. ba' = Write(Write(ba, head), item.value) /\ text = head \o item.value
    BY <1>2, Zenon DEF Put, Encoded
  <2>2. IsSeq(item.value)
    BY <1>2, TextIsSeq
  <2>3. Overwritten(ba, Write(Write(ba, head), item.value), head \o item.value)
    BY <1>1, <2>2, WriteTwice, Zenon DEF ChainInv
  <2>4. IsSeq(head \o item.value)
    BY <1>1, <2>2, Joined, Zenon
  <2> QED  BY <2>1, <2>3, <2>4, Zenon
<1>3. CASE ~IsString(item)
  <2>1. ba' = Write(ba, head) /\ text = head \o <<>>
    BY <1>3, Zenon DEF Put, Encoded
  <2>2. head \o <<>> = head
    <3> HIDE DEF head
    <3>1. IsSeq(<<>>) /\ Len(<<>>) = 0 /\ Len(head) \in Nat
      BY <1>1, KnownSeqs DEF IsSeq
    <3>2. /\ IsSeq(head \o <<>>) /\ Len(head \o <<>>) = Len(head) + Len(<<>>)
          /\ \A i \in 1 .. Len(head) + Len(<<>>) : (head \o <<>>)[i] = IF i <= Len(head) THEN head[i] ELSE <<>>[i - Len(head)]
      BY <1>1, <3>1, Joined, Zenon
    <3>3. Len(head) + Len(<<>>) = Len(head) /\ \A i \in 1 .. Len(head) : i <= Len(head)
      BY <3>1
    <3> QED  BY <1>1, <3>2, <3>3, SameSeq, Zenon
  <2>3. Overwritten(ba, ba', head)
    BY <1>1, <2>1, WriteFacts, Zenon DEF ChainInv
  <2> QED  BY <1>1, <2>1, <2>2, <2>3, Zenon
<1> QED  BY <1>2, <1>3

(* So Put keeps the chain and writes to the store. *)
LEMMA PutStep ==
  ASSUME ChainInv, NEW item \in Items, Put(item)
  PROVE  ChainInv' /\ Store!Next
<1> DEFINE text == Encoded(item, ba.little)
<1>1. Overwritten(ba, ba', text) /\ IsSeq(text)
  BY PutOverwrites
<1>2. ba'.position <= MaxSize /\ out' = <<>>
  BY Zenon DEF Put
<1> HIDE DEF text
<1>3. ChainInv'
  <2>1. Fit(ba') /\ ba'.size = Larger(ba.size, ba'.position)
    BY <1>1, Zenon DEF Overwritten
  <2>2. ba'.size <= MaxSize
    BY <1>2, <2>1 DEF ChainInv, Larger
  <2> QED  BY <2>1, <2>2 DEF ChainInv, Fit, IsArray, Exact, IsSeq, IfAny
<1>4. Store!Write(text)
  BY <1>1, <1>2, OverwrittenIsWritten DEF ChainInv
<1>5. ba.little \in BOOLEAN
  BY DEF ChainInv, Fit, IsArray
<1> QED  BY <1>3, <1>4, <1>5 DEF Store!Next, text

(* What a read returns is a part of the store. *)
LEMMA PassedIsPart ==
  ASSUME NEW a, Fit(a), NEW n \in Nat, a.position + n <= a.size
  PROVE  Passed(a, n) = SubSeq(Contents(a), a.position + 1, a.position + n)
<1> DEFINE d == Contents(a)
           p == a.position
           s == Passed(a, n)
           from == p + 1
           to == p + n
           t == SubSeq(d, from, to)
<1>1. p \in Nat /\ a.size \in Nat /\ a.size <= a.capacity /\ a.capacity \in Nat /\ p + n <= a.size
  BY FitFacts DEF Fit, IsArray, Exact
<1>2. s = [i \in 1 .. n |-> Byte(a, p + i - 1)]
  BY <1>1, PassedBytes
<1>3. IsSeq(d) /\ Len(d) = a.size /\ \A i \in 1 .. a.size : d[i] = Byte(a, i - 1)
  BY <1>1, ContentsFacts
<1> HIDE DEF s, d, p
<1>4. IsSeq(s) /\ Len(s) = n /\ \A i \in 1 .. n : s[i] = Byte(a, p + i - 1)
  <2>1. s = [i \in 1 .. n |-> s[i]] /\ \A i \in 1 .. n : s[i] = Byte(a, p + i - 1)
    BY <1>2
  <2> QED  BY <2>1, MadeSeq
<1>5. from \in 1 .. Len(d) + 1 /\ to \in 0 .. Len(d) /\ from <= to + 1
  BY <1>1, <1>3
<1>6. to + 1 - from = n /\ from = p + 1
  BY <1>1
<1> HIDE DEF from, to
<1>7. IsSeq(t) /\ Len(t) = to + 1 - from /\ \A i \in 1 .. to + 1 - from : t[i] = d[from + i - 1]
  BY <1>3, <1>5, Part, ZenonT(30)
<1> HIDE DEF t
<1>8. ASSUME NEW i \in 1 .. n PROVE s[i] = t[i]
  <2>1. from + i - 1 = p + i /\ p + i \in 1 .. a.size /\ p + i - 1 = (p + i) - 1
    BY <1>1, <1>6
  <2> QED  BY <1>3, <1>4, <1>6, <1>7, <2>1
<1>9. s = t
  BY <1>4, <1>6, <1>7, <1>8, SameSeq
<1> QED  BY <1>9, Zenon DEF s, t, d, p, from, to

(* Get: what is passed is returned; a null block is met only by a read of no bytes. *)
LEMMA GetStep ==
  ASSUME ChainInv, NEW n \in 0 .. MaxSize, Get(n)
  PROVE  ChainInv' /\ Store!Next
<1>1. n \in Nat /\ ~Throws(ba, n) /\ ba' = Read(ba, n) /\ Fit(ba) /\ ba.size <= MaxSize
  BY ByteArrayAssumption DEF Get, ChainInv
<1>2. /\ Fit(ba') /\ ba'.size = ba.size /\ ba'.position = ba.position + n
      /\ ba'.blocks = ba.blocks /\ (ba.cur = None => n = 0)
  BY <1>1, ReadFacts
<1>3. ChainInv'
  BY <1>1, <1>2 DEF ChainInv, Fit, IsArray, Exact, IsSeq, IfAny
<1>4. ba.position \in Nat /\ ba.size \in Nat /\ ba.position + n <= ba.size
  BY <1>1 DEF Throws, Fit, IsArray
<1>5. Contents(ba') = Contents(ba) /\ Len(Contents(ba)) = ba.size
  <2>1. Contents(ba') = Contents(ba)
    BY <1>2, Zenon DEF Contents, BuffersAt
  <2> QED  BY <1>4, <2>1, ContentsFacts
<1>6. Passed(ba, n) = SubSeq(Contents(ba), ba.position + 1, ba.position + n)
  BY <1>1, <1>4, PassedIsPart
<1>7. out' = SubSeq(Contents(ba), ba.position + 1, ba.position + n)
  <2>1. CASE ba.cur # None
    BY <1>6, <2>1, Zenon DEF Get
  <2>2. CASE ba.cur = None
    <3>1. ba.position + 1 \in Int /\ ba.position + n \in Int /\ ba.position + n < ba.position + 1
      BY <1>2, <1>4, <2>2
    <3>2. SubSeq(Contents(ba), ba.position + 1, ba.position + n) = <<>>
      BY <3>1, SubSeqEmpty, Zenon
    <3> QED  BY <2>2, <3>2, Zenon DEF Get
  <2> QED  BY <2>1, <2>2
<1>8. Store!Read(n)
  BY <1>2, <1>4, <1>5, <1>7 DEF Store!Read
<1> QED  BY <1>3, <1>8 DEF Store!Next

(* A call of setPosition() is a move in the store. *)
LEMMA SetPositionStep ==
  ASSUME ChainInv, NEW p \in Nat, p <= ba.capacity, p <= MaxSize, ba' = SetPosition(ba, p), out' = <<>>
  PROVE  ChainInv' /\ Store!Next
<1>1. Fit(ba) /\ IsArray(ba) /\ ba.capacity = Base * Len(ba.blocks) /\ ba.size <= ba.capacity
      /\ ba.size <= MaxSize /\ ba.size \in Nat
  BY DEF ChainInv, Fit, IsArray, Exact
<1>2. p \in 0 .. ba.capacity
  BY <1>1, FitFacts
<1>3. /\ Fit(ba') /\ ba'.position = p /\ ba'.size = Larger(ba.size, p)
      /\ \A q : Byte(ba', q) = Byte(ba, q)
  BY <1>1, <1>2, SetPositionFacts
<1>4. ChainInv'
  <2>1. ba'.size <= MaxSize
    BY <1>1, <1>3 DEF Larger
  <2> QED  BY <1>3, <2>1 DEF ChainInv, Fit, IsArray, Exact, IsSeq, IfAny
<1>5. Store!Move(p)
  BY <1>1, <1>3, MovedIsMoved
<1>6. p \in 0 .. MaxSize
  BY ByteArrayAssumption
<1> QED  BY <1>4, <1>5, <1>6 DEF Store!Next

(* Recv: what recv() filled of the room is written, and nothing else moves. *)
LEMMA RecvOverwrites ==
  ASSUME ChainInv, NEW n \in 1 .. MaxSize, NEW text \in Received, Recv(n, text)
  PROVE  Overwritten(ba, ba', text) /\ IsSeq(text) /\ ba'.size <= MaxSize
<1> DEFINE g == AddCapacity(ba, n)
           h == [g EXCEPT !.blocks = Stored(g, text)]
           m == Len(text)
           p == ba.position
<1>1. n \in Nat /\ n > 0 /\ Fit(ba) /\ ba.size <= MaxSize /\ IsSeq(text) /\ m \in Nat /\ m <= n
      /\ p + n <= MaxSize /\ p \in Nat /\ ba.size \in Nat /\ ba.size <= ba.capacity
  BY ByteArrayAssumption, TextIsSeq DEF Recv, ChainInv, Fit, IsArray, Exact, IsSeq
<1>2. /\ Fit(g) /\ g.position = p /\ g.size = ba.size
      /\ p + n <= g.capacity /\ ba.capacity <= g.capacity
      /\ \A q \in 0 .. ba.capacity - 1 : Byte(g, q) = Byte(ba, q)
  BY <1>1, RoomIsMade
<1>3. ba' = SetPosition(h, p + m) /\ out' = <<>>
  BY DEF Recv
<1>4. ba.capacity \in Nat
  BY <1>1, FitFacts
<1> HIDE DEF g, m, p
<1>5. g.capacity \in Nat /\ g.cur # None /\ g.capacity = Base * Len(g.blocks) /\ IsArray(g)
  <2>1. g.capacity \in Nat /\ (g.cur = None <=> g.position = g.capacity)
    BY <1>2, FitFacts
  <2> QED  BY <1>1, <1>2, <2>1 DEF Fit, Exact
<1>6. /\ IsSeq(Stored(g, text)) /\ Len(Stored(g, text)) = Len(g.blocks)
      /\ \A q \in 0 .. g.capacity - 1 :
           Stored(g, text)[(q \div Base) + 1][q % Base] =
             IF q - g.position + 1 \in 1 .. m THEN text[q - g.position + 1] ELSE Byte(g, q)
  BY <1>1, <1>2, <1>5, StoredFacts, Zenon DEF m
<1>7. /\ DOMAIN h = DOMAIN g /\ h.blocks = Stored(g, text) /\ h.position = p /\ h.size = ba.size
      /\ h.capacity = g.capacity /\ h.little = g.little
  BY <1>2, <1>5 DEF IsArray
<1> HIDE DEF h
<1>8. IsArray(h) /\ h.capacity = Base * Len(h.blocks) /\ h.size <= h.capacity /\ p + m \in 0 .. h.capacity
  BY <1>1, <1>2, <1>4, <1>5, <1>6, <1>7 DEF IsArray
<1>9. /\ Fit(ba') /\ ba'.position = p + m /\ ba'.size = Larger(ba.size, p + m)
      /\ \A q : Byte(ba', q) = Byte(h, q)
  <2> DEFINE v == SetPosition(h, p + m)
  <2>1. /\ Fit(v) /\ v.position = p + m /\ v.size = Larger(h.size, p + m)
        /\ \A q : Byte(v, q) = Byte(h, q)
    BY <1>8, SetPositionFacts, Zenon
  <2> QED  BY <1>3, <1>7, <2>1, Zenon
<1>10. ba'.size \in Nat /\ ba'.size <= MaxSize /\ ba'.size <= g.capacity
  BY <1>1, <1>2, <1>4, <1>5, <1>9, ByteArrayAssumption DEF Larger
<1>11. Overwritten(ba, ba', text)
  <2>1. ASSUME NEW q \in 0 .. ba'.size - 1
        PROVE  IF q - p + 1 \in 1 .. m THEN Byte(ba', q) = text[q - p + 1]
               ELSE q < ba.size => Byte(ba', q) = Byte(ba, q)
    <3>1. q \in 0 .. g.capacity - 1
      BY <1>5, <1>10
    <3>2. q < ba.size => q \in 0 .. ba.capacity - 1
      BY <1>1, <1>4
    <3>3. Byte(ba', q) = Stored(g, text)[(q \div Base) + 1][q % Base]
      BY <1>7, <1>9 DEF Byte
    <3>4. Byte(ba', q) = IF q - p + 1 \in 1 .. m THEN text[q - p + 1] ELSE Byte(g, q)
      BY <1>2, <1>6, <3>1, <3>3, Zenon
    <3> QED  BY <1>2, <3>2, <3>4, Zenon
  <2> QED  BY <1>9, <2>1, Zenon DEF Overwritten, m, p
<1> QED  BY <1>1, <1>10, <1>11

(* So Recv keeps the chain and writes to the store. *)
LEMMA RecvStep ==
  ASSUME ChainInv, NEW n \in 1 .. MaxSize, NEW text \in Received, Recv(n, text)
  PROVE  ChainInv' /\ Store!Next
<1>1. Overwritten(ba, ba', text) /\ IsSeq(text) /\ ba'.size <= MaxSize
  BY RecvOverwrites
<1>2. ChainInv'
  <2>1. Fit(ba')
    BY <1>1 DEF Overwritten
  <2> QED  BY <1>1, <2>1 DEF ChainInv, Fit, IsArray, Exact, IsSeq, IfAny
<1>3. Store!Write(text)
  <2>1. out' = <<>>
    BY Zenon DEF Recv
  <2> QED  BY <1>1, <2>1, OverwrittenIsWritten DEF ChainInv
<1> QED  BY <1>2, <1>3 DEF Store!Next

(* An object with one block and nothing in it. *)
LEMMA EmptyFits ==
  ASSUME NEW a, DOMAIN a = {"blocks", "cur", "position", "size", "capacity", "little", "fault"},
         NEW b, a.blocks = <<b>>, a.cur = 1, a.position = 0, a.size = 0, a.capacity = Base, a.little \in BOOLEAN
  PROVE  Fit(a) /\ a.size <= MaxSize /\ Contents(a) = <<>>
<1>1. IsSeq(a.blocks) /\ Len(a.blocks) = 1 /\ DOMAIN a.blocks = 1 .. 1
  <2>1. <<b>> \in Seq({b}) /\ Len(<<b>>) = 1 /\ DOMAIN <<b>> = 1 .. 1
    OBVIOUS
  <2> QED  BY <2>1, KnownSeqs
<1>2. 0 \div Base = 0
  <2>1. 0 = 0 * Base + 0 /\ 0 \in 0 .. Base - 1
    BY ByteArrayAssumption
  <2> QED  BY <2>1, DivisionIsUnique
<1>3. a.cur = IfAny(a, (a.position \div Base) + 1)
  BY <1>1, <1>2 DEF IfAny
<1>4. Fit(a) /\ a.size <= MaxSize
  BY <1>1, <1>3, ByteArrayAssumption DEF Fit, IsArray, Exact
<1>5. IsSeq(Contents(a)) /\ Len(Contents(a)) = 0
  BY ContentsFacts
<1>6. Contents(a) = <<>>
  BY <1>5, KnownSeqs, SameSeq
<1> QED  BY <1>4, <1>6

(* clear(), and a new object. *)
LEMMA WipeStep ==
  ASSUME ChainInv, Wipe
  PROVE  ChainInv' /\ Store!Next
<1> DEFINE a == [NewArray(ba.little) EXCEPT !.blocks = <<BlockOf(0)>>, !.fault = ba.fault]
<1>1. ba' = a /\ out' = <<>>
  BY DEF Wipe, Clear
<1>2. ba.little \in BOOLEAN
  BY DEF ChainInv, Fit, IsArray
<1>3. /\ DOMAIN a = {"blocks", "cur", "position", "size", "capacity", "little", "fault"}
      /\ a.blocks = <<BlockOf(0)>> /\ a.cur = 1 /\ a.position = 0 /\ a.size = 0 /\ a.capacity = Base /\ a.little = ba.little
  BY DEF NewArray
<1> HIDE DEF a
<1>4. Fit(a) /\ a.size <= MaxSize /\ Contents(a) = <<>>
  BY <1>2, <1>3, EmptyFits
<1>5. ChainInv'
  BY <1>1, <1>4 DEF ChainInv, Fit, IsArray, Exact, IsSeq, IfAny
<1>6. Store!Clear
  BY <1>1, <1>3, <1>4 DEF Store!Clear
<1> QED  BY <1>5, <1>6 DEF Store!Next

(* A new object fits, and is an empty store. *)
LEMMA InitFits == Init => ChainInv /\ Store!Init
<1> SUFFICES ASSUME NEW little \in BOOLEAN, ba = NewArray(little), out = <<>>
             PROVE  ChainInv /\ Store!Init
  BY DEF Init
<1>1. /\ DOMAIN ba = {"blocks", "cur", "position", "size", "capacity", "little", "fault"}
      /\ ba.blocks = <<BlockOf(Junk)>> /\ ba.cur = 1 /\ ba.position = 0 /\ ba.size = 0
      /\ ba.capacity = Base /\ ba.little \in BOOLEAN
  BY DEF NewArray
<1>2. Fit(ba) /\ ba.size <= MaxSize /\ Contents(ba) = <<>>
  BY <1>1, EmptyFits
<1> QED  BY <1>1, <1>2 DEF ChainInv, Store!Init

(* Every call keeps the chain and is a step of the store. *)
LEMMA CallStep ==
  ASSUME ChainInv, [Next]_vars
  PROVE  ChainInv' /\ [Store!Next]_(Store!vars)
<1>1. ASSUME NEW item \in Items, Put(item) PROVE ChainInv' /\ Store!Next
  BY <1>1, PutStep
<1>2. ASSUME NEW n \in 0 .. MaxSize, Get(n) PROVE ChainInv' /\ Store!Next
  BY <1>2, GetStep
<1>3. ASSUME NEW p \in 0 .. MaxSize, Seek(p) PROVE ChainInv' /\ Store!Next
  <2>1. p \in Nat /\ p <= MaxSize
    BY ByteArrayAssumption
  <2> QED  BY <1>3, <2>1, SetPositionStep DEF Seek
<1>4. ASSUME Wipe PROVE ChainInv' /\ Store!Next
  BY <1>4, WipeStep
<1>5. ASSUME NEW little \in BOOLEAN, SetEndian(little) PROVE ChainInv' /\ Store!Next
  <2>1. ba' = [ba EXCEPT !.little = little] /\ out' = <<>>
    BY <1>5 DEF SetEndian
  <2>2. DOMAIN ba = {"blocks", "cur", "position", "size", "capacity", "little", "fault"}
    BY DEF ChainInv, Fit, IsArray
  <2>3. /\ DOMAIN ba' = DOMAIN ba /\ ba'.blocks = ba.blocks /\ ba'.cur = ba.cur /\ ba'.position = ba.position
        /\ ba'.size = ba.size /\ ba'.capacity = ba.capacity /\ ba'.little \in BOOLEAN
    BY <2>1, <2>2
  <2>4. Fit(ba')
    BY <2>3, Zenon DEF ChainInv, Fit, IsArray, Exact, IfAny
  <2>5. ChainInv'
    BY <2>3, <2>4 DEF ChainInv, Fit, IsArray, Exact, IsSeq, IfAny
  <2>6. ba'.size = Larger(ba.size, ba'.position) /\ ba.position \in 0 .. MaxSize
    BY <2>3, ByteArrayAssumption DEF ChainInv, Fit, IsArray, Exact, Larger
  <2>7. \A q \in 0 .. ba.size - 1 : Byte(ba', q) = Byte(ba, q)
    BY <2>3 DEF Byte
  <2>8. Store!Move(ba.position)
    BY <2>1, <2>3, <2>4, <2>6, <2>7, MovedIsMoved DEF ChainInv
  <2> QED  BY <2>5, <2>6, <2>8 DEF Store!Next
<1>6. ASSUME NEW n \in 1 .. MaxSize, NEW text \in Received, Recv(n, text) PROVE ChainInv' /\ Store!Next
  BY <1>6, RecvStep
<1>7. ASSUME NEW n \in 1 .. MaxSize, Send(n) PROVE ChainInv' /\ Store!Next
  <2>1. /\ ba.position \in Nat /\ ba.size \in Nat /\ ba.size <= MaxSize /\ ba.size <= ba.capacity
        /\ ba.capacity \in Nat /\ n \in Nat
    BY ByteArrayAssumption, FitFacts DEF ChainInv, Fit, IsArray, Exact
  <2>2. ba.position + n <= ba.size /\ ba' = SetPosition(ba, ba.position + n) /\ out' = <<>>
    BY <1>7, <2>1 DEF Send, Throws
  <2>3. ba.position + n \in Nat /\ ba.position + n <= ba.capacity /\ ba.position + n <= MaxSize
    BY <2>1, <2>2, ByteArrayAssumption
  <2> QED  BY <2>2, <2>3, SetPositionStep
<1>8. ASSUME UNCHANGED vars PROVE ChainInv' /\ UNCHANGED Store!vars
  BY <1>8 DEF vars, Store!vars, ChainInv, Fit, IsArray, Exact, IsSeq, IfAny
<1> QED  BY <1>1, <1>2, <1>3, <1>4, <1>5, <1>6, <1>7, <1>8 DEF Next

(* The cursor of ByteArray is exact, for every block size: m_cur is the block
   that holds m_position, and null exactly when the chain is full. *)
THEOREM CursorIsExact == Spec => []CursorExact
<1>1. ChainInv => CursorExact
  BY DEF ChainInv, Fit, Exact, CursorExact
<1> QED  BY InitFits, CallStep, <1>1, PTL DEF Spec

(* Whatever the block size, write(), read(), setPosition(), clear() and the
   transfers of SocketStream do to the chain what ByteStore says of one
   sequence of bytes. *)
THEOREM StoreImplemented == Spec => ImplementsByteStore
BY InitFits, CallStep, PTL DEF Spec, ImplementsByteStore, Store!Spec

-----------------------------------------------------------------------------
(* The views. *)

(* A walk from the root, from p on, shows what a walk from the cursor does. *)
LEMMA RootWalk ==
  ASSUME NEW a, Fit(a), NEW n \in Nat, a.size - a.position <= n
  PROVE  BuffersAt(a, n, a.position) = [i \in 1 .. a.size - a.position |-> Byte(a, a.position + i - 1)]
<1>1. Smaller(n, a.size - a.position) = a.size - a.position
  BY DEF Smaller, Fit, IsArray
<1> QED  BY <1>1, Zenon DEF BuffersAt, Byte

(* writeToFile() cuts its first piece right at the start of a block, or when a
   block's worth of bytes follows. *)
LEMMA FileWalk ==
  ASSUME NEW a, Fit(a), Offset(a) = 0 \/ a.size - a.position >= Base
  PROVE  FileBytes(a) = [i \in 1 .. a.size - a.position |-> Byte(a, a.position + i - 1)]
<1> DEFINE rest == a.size - a.position
           first == Smaller(rest, Base) - Offset(a)
           c == a.position \div Base
           o == a.position % Base
<1>1. /\ a.position \in Nat /\ a.size \in Nat /\ a.capacity \in Nat /\ a.position <= a.size
      /\ a.size <= a.capacity /\ rest \in Nat
  BY FitFacts DEF Fit, IsArray, Exact
<1>2. c \in Nat /\ o \in 0 .. Base - 1 /\ a.position = c * Base + o /\ Offset(a) = o
  BY <1>1, Division DEF Offset
<1> SUFFICES ASSUME NEW i \in 1 .. rest
             PROVE  FileBytes(a)[i] = Byte(a, a.position + i - 1)
  BY DEF FileBytes
<1>3. a.cur = c + 1
  BY <1>1, FitFacts
<1>4. FileBytes(a)[i] = IF i <= first THEN a.blocks[a.cur][Offset(a) + i - 1]
                        ELSE a.blocks[a.cur + 1 + ((i - first - 1) \div Base)][(i - first - 1) % Base]
  BY DEF FileBytes
<1> DEFINE f == first
<1>5. f = (IF rest > Base THEN Base ELSE rest) - o \/ f = (IF rest < Base THEN rest ELSE Base) - o
  BY <1>1, <1>2 DEF Smaller
<1> HIDE DEF c, o
<1>6. c * Base \in Nat /\ (c + 1) * Base = c * Base + Base
  BY <1>2, ByteArrayAssumption
<1>7. CASE i <= first
  <2>1. o + i - 1 \in 0 .. Base - 1
    BY <1>1, <1>2, <1>5, <1>7, ByteArrayAssumption
  <2>2. a.position + i - 1 = c * Base + (o + i - 1) /\ a.position + i - 1 \in Nat
    BY <1>1, <1>2, <1>6
  <2>3. (a.position + i - 1) \div Base = c /\ (a.position + i - 1) % Base = o + i - 1
    BY <1>2, <2>1, <2>2, DivisionIsUnique
  <2> HIDE DEF first
  <2> QED  BY <1>2, <1>3, <1>4, <1>7, <2>3, Zenon DEF Byte
<1>8. CASE ~(i <= first)
  <2> DEFINE x == i - first - 1
             q == x \div Base
             r == x % Base
  <2>1. first = Base - o
    BY <1>1, <1>2, <1>5, <1>8, ByteArrayAssumption
  <2>2. x \in Nat
    BY <1>2, <1>8, <2>1, ByteArrayAssumption
  <2>3. q \in Nat /\ r \in 0 .. Base - 1 /\ x = q * Base + r
    BY <2>2, Division
  <2>4. a.position + i - 1 = (c + 1) * Base + x
    BY <1>1, <1>2, <1>6, <2>1, ByteArrayAssumption
  <2>5. FileBytes(a)[i] = a.blocks[a.cur + 1 + q][r]
    BY <1>4, <1>8, Zenon
  <2> HIDE DEF x, q, r, first
  <2>6. (c + 1) * Base + q * Base = (c + 1 + q) * Base /\ q * Base \in Nat
    BY <1>2, <2>3, ByteArrayAssumption
  <2>7. a.position + i - 1 = (c + 1 + q) * Base + r /\ a.position + i - 1 \in Nat
    <3>1. a.position + i - 1 \in Nat
      BY <1>1
    <3>2. r \in Nat /\ (c + 1) * Base \in Nat
      BY <1>6, <2>3, ByteArrayAssumption
    <3>3. (c + 1) * Base + x = ((c + 1) * Base + q * Base) + r
      BY <2>3, <2>6, <3>2
    <3> QED  BY <2>4, <2>6, <3>1, <3>3
  <2>8. (a.position + i - 1) \div Base = c + 1 + q /\ (a.position + i - 1) % Base = r
    BY <1>2, <2>3, <2>7, DivisionIsUnique
  <2>9. a.cur + 1 + q = (c + 1 + q) + 1
    BY <1>2, <1>3, <2>3
  <2> QED  BY <2>5, <2>8, <2>9, Zenon DEF Byte
<1> QED  BY <1>7, <1>8

(* toString(), both getReadBuffers() and writeToFile(), wherever they start in
   the chain, show the store from the position on, writeToFile() but for a
   last piece inside a block. *)
THEOREM ViewsShowTheStore == Spec => []ViewsAgree
<1>1. ChainInv => ViewsAgree
  <2> SUFFICES ASSUME ChainInv PROVE ViewsAgree
    OBVIOUS
  <2> DEFINE rest == ba.size - ba.position
             part == SubSeq(Contents(ba), ba.position + 1, ba.size)
  <2>1. /\ Fit(ba) /\ ba.position \in Nat /\ ba.size \in Nat /\ ba.position <= ba.size /\ ba.size <= ba.capacity
        /\ ba.size <= MaxSize /\ rest \in Nat /\ rest <= MaxSize /\ ba.position + rest = ba.size
        /\ ba.capacity \in Nat
    BY FitFacts, ByteArrayAssumption DEF ChainInv, Fit, IsArray, Exact
  <2>2. Buffers(ba, MaxSize) = Passed(ba, rest)
    BY <2>1, ByteArrayAssumption DEF Buffers, Smaller
  <2> HIDE DEF rest
  <2>3. Passed(ba, rest) = part
    BY <2>1, PassedIsPart
  <2>4. Passed(ba, rest) = [i \in 1 .. rest |-> Byte(ba, ba.position + i - 1)]
    BY <2>1, PassedBytes
  <2>5. BuffersAt(ba, MaxSize, ba.position) = part
    BY <2>1, <2>3, <2>4, RootWalk, ByteArrayAssumption DEF rest
  <2>6. Len(part) = rest
    <3> DEFINE s == [i \in 1 .. rest |-> Byte(ba, ba.position + i - 1)]
    <3>1. s = [i \in 1 .. rest |-> s[i]]
      OBVIOUS
    <3> HIDE DEF s
    <3>2. Len(s) = rest
      BY <2>1, <3>1, MadeSeq
    <3> QED  BY <2>3, <2>4, <3>2 DEF s
  <2>7. Offset(ba) = 0 \/ Len(part) >= Base => FileBytes(ba) = part
    BY <2>1, <2>3, <2>4, <2>6, FileWalk DEF rest
  <2> QED  BY <2>2, <2>3, <2>5, <2>7, Zenon DEF ViewsAgree
<1> QED  BY InitFits, CallStep, <1>1, PTL DEF Spec

-----------------------------------------------------------------------------
(* Numbers.  The induction theorems of the library take an operator; here   *)
(* what is shown for every number is a set of numbers, whose complement has *)
(* no least element.                                                       *)

(* Any numbers there are have a least. *)
LEMMA Least ==
  ASSUME NEW T, T \subseteq Nat, T # {}
  PROVE  \E n \in T : \A m \in T : n <= m
<1>1. \E n \in T : \A m \in T : ~ (<<m, n>> \in OpToRel(<, Nat))
  BY NatLessThanWellFounded, WFMin
<1>2. \E n \in T : \A m \in T : ~(m < n)
  BY <1>1 DEF OpToRel
<1>3. \A n \in T, m \in T : ~(m < n) => n <= m
  OBVIOUS
<1> QED  BY <1>2, <1>3, Zenon

(* A set of numbers that is closed under the successor has them all. *)
LEMMA Induction ==
  ASSUME NEW S, 0 \in S, \A n \in Nat : n \in S => n + 1 \in S
  PROVE  \A n \in Nat : n \in S
<1> DEFINE T == Nat \ S
<1> SUFFICES ASSUME T # {} PROVE FALSE
  OBVIOUS
<1>1. PICK n \in T : \A m \in T : n <= m
  <2>1. T \subseteq Nat
    OBVIOUS
  <2> HIDE DEF T
  <2> QED  BY <2>1, Least
<1>2. n - 1 \in Nat /\ n - 1 < n
  OBVIOUS
<1>3. n - 1 \in S
  BY <1>1, <1>2
<1> QED  BY <1>2, <1>3

(* f starts at base and goes from n to n + 1 by step. *)
Recurs(f, V, base, step) ==
  /\ f \in [Nat -> V]
  /\ f[0] = base
  /\ \A n \in Nat : f[n + 1] = step[n][f[n]]

(* A function may be defined by its value at 0 and by the step from n to n + 1. *)
LEMMA Recursion ==
  ASSUME NEW V, NEW base \in V, NEW step \in [Nat -> [V -> V]]
  PROVE  \E f : Recurs(f, V, base, step)
<1> DEFINE Upto(n) == {g \in [0 .. n -> V] : g[0] = base /\ \A i \in 0 .. n - 1 : g[i + 1] = step[i][g[i]]}
<1>1. \A n \in Nat : Upto(n) # {}
  <2> DEFINE S == {n \in Nat : Upto(n) # {}}
  <2>1. 0 \in S
    <3> DEFINE g == [i \in 0 .. 0 |-> base]
    <3>1. g \in Upto(0)
      OBVIOUS
    <3> QED  BY <3>1
  <2>2. ASSUME NEW n \in Nat, n \in S PROVE n + 1 \in S
    <3>1. PICK g : g \in Upto(n)
      BY <2>2
    <3> DEFINE h == [i \in 0 .. n + 1 |-> IF i <= n THEN g[i] ELSE step[n][g[n]]]
    <3>2. h \in [0 .. n + 1 -> V] /\ h[0] = base
      BY <3>1
    <3>3. ASSUME NEW i \in 0 .. n + 1 - 1 PROVE h[i + 1] = step[i][h[i]]
      BY <3>1
    <3> HIDE DEF h
    <3>4. h \in Upto(n + 1)
      BY <3>2, <3>3
    <3> QED  BY <3>4
  <2> HIDE DEF S
  <2>3. \A n \in Nat : n \in S
    BY <2>1, <2>2, Induction
  <2> QED  BY <2>3 DEF S
<1>2. \A m \in Nat, n \in Nat : \A g \in Upto(m), h \in Upto(n) : \A i \in Nat : i <= m /\ i <= n => g[i] = h[i]
  <2> SUFFICES ASSUME NEW m \in Nat, NEW n \in Nat, NEW g \in Upto(m), NEW h \in Upto(n)
               PROVE  \A i \in Nat : i <= m /\ i <= n => g[i] = h[i]
    OBVIOUS
  <2> DEFINE S == {i \in Nat : i <= m /\ i <= n => g[i] = h[i]}
  <2>1. 0 \in S
    OBVIOUS
  <2>2. ASSUME NEW i \in Nat, i \in S PROVE i + 1 \in S
    <3> SUFFICES ASSUME i + 1 <= m, i + 1 <= n PROVE g[i + 1] = h[i + 1]
      OBVIOUS
    <3>1. g[i] = h[i]
      BY <2>2
    <3>2. i \in 0 .. m - 1 /\ i \in 0 .. n - 1
      OBVIOUS
    <3>3. g[i + 1] = step[i][g[i]] /\ h[i + 1] = step[i][h[i]]
      BY <3>2
    <3> QED  BY <3>1, <3>3
  <2> HIDE DEF S
  <2>3. \A i \in Nat : i \in S
    BY <2>1, <2>2, Induction
  <2> QED  BY <2>3 DEF S
<1> DEFINE part(n) == CHOOSE g : g \in Upto(n)
           f == [n \in Nat |-> part(n)[n]]
<1>3. \A n \in Nat : part(n) \in Upto(n)
  BY <1>1
<1> HIDE DEF part
<1>4. f \in [Nat -> V] /\ f[0] = base
  BY <1>3
<1>5. ASSUME NEW n \in Nat PROVE f[n + 1] = step[n][f[n]]
  <2>1. part(n + 1)[n + 1] = step[n][part(n + 1)[n]]
    BY <1>3
  <2>2. part(n + 1)[n] = part(n)[n]
    <3>1. part(n + 1) \in Upto(n + 1) /\ part(n) \in Upto(n) /\ n + 1 \in Nat /\ n <= n + 1
      BY <1>3
    <3> HIDE DEF Upto
    <3> QED  BY <1>2, <3>1
  <2> QED  BY <2>1, <2>2
<1>6. Recurs(f, V, base, step)
  BY <1>4, <1>5 DEF Recurs
<1> QED  BY <1>6

(* What Power() computes. *)
LEMMA Powers ==
  ASSUME NEW b \in Nat
  PROVE  /\ \A n \in Nat : Power(b, n) \in Nat
         /\ Power(b, 0) = 1
         /\ \A n \in Nat : Power(b, n + 1) = b * Power(b, n)
<1> DEFINE p[i \in Nat] == IF i = 0 THEN 1 ELSE b * p[i - 1]
           step == [i \in Nat |-> [x \in Nat |-> b * x]]
<1>1. \A n \in Nat : Power(b, n) = p[n]
  BY DEF Power
<1>2. p = CHOOSE q : q = [i \in Nat |-> IF i = 0 THEN 1 ELSE b * q[i - 1]]
  OBVIOUS
<1> HIDE DEF p
<1>3. step \in [Nat -> [Nat -> Nat]]
  OBVIOUS
<1>4. PICK f : Recurs(f, Nat, 1, step)
  <2> HIDE DEF step
  <2> QED  BY <1>3, Recursion
<1>5. f = [i \in Nat |-> IF i = 0 THEN 1 ELSE b * f[i - 1]]
  <2>1. ASSUME NEW i \in Nat, i # 0 PROVE f[i] = b * f[i - 1]
    <3>1. i - 1 \in Nat /\ (i - 1) + 1 = i
      BY <2>1
    <3>2. f[(i - 1) + 1] = step[i - 1][f[i - 1]]
      BY <1>4, <3>1 DEF Recurs
    <3>3. f[i - 1] \in Nat
      BY <1>4, <3>1 DEF Recurs
    <3> QED  BY <3>1, <3>2, <3>3
  <2> QED  BY <1>4, <2>1 DEF Recurs
<1>6. p = [i \in Nat |-> IF i = 0 THEN 1 ELSE b * p[i - 1]]
  BY <1>2, <1>5
<1>7. p[0] = 1 /\ \A n \in Nat : p[n + 1] = b * p[n]
  BY <1>6
<1>8. \A n \in Nat : p[n] \in Nat
  <2> DEFINE S == {n \in Nat : p[n] \in Nat}
  <2>1. 0 \in S /\ \A n \in Nat : n \in S => n + 1 \in S
    BY <1>7
  <2> HIDE DEF S
  <2>2. \A n \in Nat : n \in S
    BY <2>1, Induction
  <2> QED  BY <2>2 DEF S
<1> QED  BY <1>1, <1>7, <1>8

-----------------------------------------------------------------------------
(* Digits. *)
(* Quotient and rest by any number ... *)
LEMMA Quotient ==
  ASSUME NEW n \in Nat, NEW d \in Nat \ {0}
  PROVE  n \div d \in Nat /\ n % d \in 0 .. d - 1 /\ n = (n \div d) * d + (n % d)
BY SMTT(30)

(* ... and there is one of each. *)
LEMMA OneQuotient ==
  ASSUME NEW q \in Nat, NEW d \in Nat \ {0}, NEW r \in 0 .. d - 1
  PROVE  (q * d + r) \div d = q /\ (q * d + r) % d = r
BY SMTT(30)

(* One more digit of a number: low are the digits below p, high what is left. *)
TakesDigit(r, p, low, high) ==
  /\ low + (high % r) * p \in 0 .. (r * p) - 1
  /\ low + high * p = low + (high % r) * p + ((low + high * p) \div (r * p)) * (r * p)

LEMMA NextDigit ==
  ASSUME NEW r \in Nat \ {0}, NEW p \in Nat \ {0}, NEW low \in 0 .. p - 1, NEW high \in Nat
  PROVE  TakesDigit(r, p, low, high)
<1> DEFINE v == low + high * p
           e == high \div r
           d == high % r
           rp == r * p
           dp == d * p
<1>1. e \in Nat /\ d \in 0 .. r - 1 /\ high = e * r + d
  BY Quotient
<1> HIDE DEF e, d
<1>2. rp \in Nat \ {0} /\ dp \in Nat
  BY <1>1
<1>3. dp + p <= rp
  <2>1. PICK k \in Nat : r = d + 1 + k
    BY <1>1
  <2>2. rp = dp + p + k * p /\ k * p \in Nat
    BY <1>1, <2>1
  <2> QED  BY <1>2, <2>2
<1>4. high * p = e * rp + dp
  <2>1. (e * r + d) * p = e * (r * p) + d * p
    BY <1>1
  <2> QED  BY <1>1, <2>1
<1> HIDE DEF rp, dp
<1>5. low + dp \in 0 .. rp - 1
  BY <1>2, <1>3
<1>6. v = e * rp + (low + dp)
  <2>1. e * rp \in Nat
    BY <1>1, <1>2
  <2> QED  BY <1>2, <1>4, <2>1
<1> HIDE DEF v
<1>7. v \div rp = e
  BY <1>1, <1>2, <1>5, <1>6, OneQuotient
<1>8. v = low + dp + (v \div rp) * rp
  <2>1. e * rp \in Nat
    BY <1>1, <1>2
  <2> QED  BY <1>2, <1>6, <1>7, <2>1
<1> QED  BY <1>5, <1>8 DEF v, rp, dp, d, TakesDigit

(* A product is 0 only when a factor is. *)
LEMMA Product ==
  ASSUME NEW x \in Nat, NEW y \in Nat
  PROVE  x * y \in Nat /\ (x # 0 /\ y # 0 => x * y # 0)
BY SMTT(30)

(* Powers of a positive number are positive. *)
LEMMA PowersPositive ==
  ASSUME NEW r \in Nat \ {0}
  PROVE  \A i \in Nat : Power(r, i) \in Nat \ {0}
<1> DEFINE S == {i \in Nat : Power(r, i) \in Nat \ {0}}
<1>1. 0 \in S /\ \A i \in Nat : i \in S => i + 1 \in S
  <2>1. \A i \in Nat : Power(r, i) \in Nat
    BY Powers
  <2>2. Power(r, 0) = 1 /\ \A i \in Nat : Power(r, i + 1) = r * Power(r, i)
    BY Powers
  <2>3. ASSUME NEW i \in Nat, Power(r, i) # 0 PROVE Power(r, i + 1) # 0
    BY <2>1, <2>2, <2>3, Product
  <2>4. 0 \in S
    <3>1. Power(r, 0) = 1
      BY <2>2
    <3>2. 1 \in Nat \ {0}
      OBVIOUS
    <3> QED  BY <3>1, <3>2
  <2>5. ASSUME NEW i \in Nat, i \in S PROVE i + 1 \in S
    <3>1. i + 1 \in Nat
      OBVIOUS
    <3> QED  BY <2>1, <2>3, <2>5, <3>1
  <2> QED  BY <2>4, <2>5, Zenon
<1> HIDE DEF S
<1>2. \A i \in Nat : i \in S
  BY <1>1, Induction
<1> QED  BY <1>2 DEF S

(* f[i] is the value of the first i digits. *)
Sums(f, ds, k, r) ==
  /\ f[0] = 0
  /\ \A i \in 0 .. k - 1 : f[i + 1] = f[i] + ds[i + 1] * Power(r, i)

(* What Number() computes. *)
LEMMA NumberSteps ==
  ASSUME NEW ds, NEW k \in Nat, Len(ds) = k, \A i \in 1 .. k : ds[i] \in Nat, NEW r \in Nat
  PROVE  \E f : Number(ds, r) = f[k] /\ Sums(f, ds, k, r)
<1> DEFINE sum[n \in 0 .. Len(ds)] == IF n = 0 THEN 0 ELSE sum[n - 1] + (ds[n] * Power(r, n - 1))
           term(i) == IF i + 1 <= k THEN ds[i + 1] * Power(r, i) ELSE 0
           step == [i \in Nat |-> [x \in Nat |-> x + term(i)]]
<1>1. Number(ds, r) = sum[k]
  BY DEF Number
<1>2. sum = CHOOSE q : q = [n \in 0 .. k |-> IF n = 0 THEN 0 ELSE q[n - 1] + (ds[n] * Power(r, n - 1))]
  OBVIOUS
<1> HIDE DEF sum
<1>3. \A i \in Nat : term(i) \in Nat
  <2> SUFFICES ASSUME NEW i \in Nat PROVE term(i) \in Nat
    OBVIOUS
  <2>1. CASE i + 1 <= k
    <3>1. i + 1 \in 1 .. k
      BY <2>1
    <3>2. ds[i + 1] \in Nat
      BY <3>1
    <3>3. Power(r, i) \in Nat
      BY Powers
    <3> QED  BY <2>1, <3>2, <3>3, Product
  <2>2. CASE ~(i + 1 <= k)
    BY <2>2
  <2> QED  BY <2>1, <2>2
<1>4. step \in [Nat -> [Nat -> Nat]]
  <2> HIDE DEF term
  <2>1. ASSUME NEW i \in Nat, NEW x \in Nat PROVE x + term(i) \in Nat
    <3>1. term(i) \in Nat
      BY <1>3
    <3> QED  BY <3>1
  <2>2. \A i \in Nat : [x \in Nat |-> x + term(i)] \in [Nat -> Nat]
    BY <2>1
  <2> QED  BY <2>2
<1>5. PICK f : Recurs(f, Nat, 0, step)
  <2> HIDE DEF step
  <2> QED  BY <1>4, Recursion
<1>6. /\ f[0] = 0
      /\ \A i \in 1 .. k : f[i] = f[i - 1] + (ds[i] * Power(r, i - 1))
  <2>1. f[0] = 0 /\ f \in [Nat -> Nat]
    BY <1>5 DEF Recurs
  <2>2. ASSUME NEW i \in 1 .. k PROVE f[i] = f[i - 1] + (ds[i] * Power(r, i - 1))
    <3>1. i - 1 \in Nat /\ (i - 1) + 1 = i /\ i <= k
      OBVIOUS
    <3>2. f[(i - 1) + 1] = step[i - 1][f[i - 1]]
      BY <1>5, <3>1, Zenon DEF Recurs
    <3>3. f[i - 1] \in Nat
      BY <2>1, <3>1
    <3>4. step[i - 1][f[i - 1]] = f[i - 1] + term(i - 1)
      <4> HIDE DEF term
      <4> QED  BY <3>1, <3>3
    <3>5. term(i - 1) = ds[i] * Power(r, i - 1)
      BY <3>1
    <3> QED  BY <3>1, <3>2, <3>4, <3>5
  <2> QED  BY <2>1, <2>2
<1> DEFINE g == [n \in 0 .. k |-> f[n]]
<1>7. g = [n \in 0 .. k |-> IF n = 0 THEN 0 ELSE g[n - 1] + (ds[n] * Power(r, n - 1))]
  <2>1. \A n \in 0 .. k : n # 0 => n \in 1 .. k /\ n - 1 \in 0 .. k
    OBVIOUS
  <2> QED  BY <1>6, <2>1
<1>8. sum = [n \in 0 .. k |-> IF n = 0 THEN 0 ELSE sum[n - 1] + (ds[n] * Power(r, n - 1))]
  <2> HIDE DEF g
  <2> QED  BY <1>2, <1>7
<1>9. sum[0] = 0 /\ \A i \in 0 .. k - 1 : sum[i + 1] = sum[i] + ds[i + 1] * Power(r, i)
  <2>1. \A i \in 0 .. k - 1 : i + 1 \in 0 .. k /\ i + 1 # 0 /\ (i + 1) - 1 = i
    OBVIOUS
  <2> QED  BY <1>8, <2>1
<1>10. Sums(sum, ds, k, r)
  BY <1>9 DEF Sums
<1> QED  BY <1>1, <1>10

(* The digits of a number are its digits: Number() undoes Digit(). *)
LEMMA NumberOfDigits ==
  ASSUME NEW v \in Nat, NEW r \in Nat \ {0}, NEW k \in Nat, v < Power(r, k),
         NEW ds, Len(ds) = k, \A i \in 1 .. k : ds[i] = Digit(v, r, i)
  PROVE  Number(ds, r) = v
<1>0. \A i \in Nat : Power(r, i) \in Nat \ {0}
  BY PowersPositive
<1>1. \A i \in Nat : v \div Power(r, i) \in Nat
  BY <1>0, Quotient
<1>2. \A i \in 0 .. k - 1 : ds[i + 1] = (v \div Power(r, i)) % r /\ ds[i + 1] \in Nat
  <2> SUFFICES ASSUME NEW i \in 0 .. k - 1
               PROVE  ds[i + 1] = (v \div Power(r, i)) % r /\ ds[i + 1] \in Nat
    OBVIOUS
  <2>1. i + 1 \in 1 .. k /\ (i + 1) - 1 = i
    OBVIOUS
  <2>2. ds[i + 1] = (v \div Power(r, i)) % r
    BY <2>1 DEF Digit
  <2> DEFINE q == v \div Power(r, i)
  <2>3. q \in Nat
    <3>1. i \in Nat
      OBVIOUS
    <3> QED  BY <1>1, <3>1, Zenon
  <2> HIDE DEF q
  <2>4. q % r \in Nat
    BY <2>3, Quotient
  <2> QED  BY <2>2, <2>4 DEF q
<1>3. \A i \in 1 .. k : ds[i] \in Nat
  <2>1. \A i \in 1 .. k : i - 1 \in 0 .. k - 1 /\ (i - 1) + 1 = i
    OBVIOUS
  <2> QED  BY <1>2, <2>1
<1>4. PICK f : Number(ds, r) = f[k] /\ Sums(f, ds, k, r)
  BY <1>3, NumberSteps
<1> DEFINE Low(i) == f[i] \in 0 .. Power(r, i) - 1 /\ v = f[i] + (v \div Power(r, i)) * Power(r, i)
           S == {i \in Nat : i <= k => Low(i)}
<1>5. 0 \in S
  <2>1. Power(r, 0) = 1 /\ v \div 1 = v
    BY Powers
  <2> QED  BY <1>4, <2>1 DEF Sums
<1>6. ASSUME NEW i \in Nat, i \in S PROVE i + 1 \in S
  <2> SUFFICES ASSUME i + 1 <= k PROVE Low(i + 1)
    OBVIOUS
  <2> DEFINE p == Power(r, i)
             high == v \div p
  <2>1. Low(i) /\ i \in 0 .. k - 1
    BY <1>6
  <2>2. Power(r, i + 1) = r * p /\ p \in Nat \ {0} /\ high \in Nat
    BY <1>0, <1>1, Powers
  <2>3. f[i + 1] = f[i] + (high % r) * p
    BY <1>2, <1>4, <2>1 DEF Sums
  <2> HIDE DEF p, high
  <2>4. f[i] \in 0 .. p - 1 /\ v = f[i] + high * p
    BY <2>1 DEF p, high
  <2> DEFINE low == f[i]
  <2> HIDE DEF low
  <2>5. low \in 0 .. p - 1 /\ v = low + high * p
    BY <2>4 DEF low
  <2>6. TakesDigit(r, p, low, high)
    <3>1. p \in Nat \ {0} /\ high \in Nat /\ low \in 0 .. p - 1 /\ r \in Nat \ {0}
      BY <2>2, <2>5
    <3> QED  BY <3>1, NextDigit, Zenon
  <2> QED  BY <2>2, <2>3, <2>5, <2>6 DEF low, TakesDigit
<1> HIDE DEF S
<1>7. \A i \in Nat : i \in S
  BY <1>5, <1>6, Induction
<1>8. Low(k)
  BY <1>7 DEF S
<1>9. v \div Power(r, k) = 0
  <2> DEFINE p == Power(r, k)
  <2>1. p \in Nat \ {0} /\ v \in 0 .. p - 1
    BY <1>0
  <2> HIDE DEF p
  <2>2. (0 * p + v) \div p = 0
    BY <2>1, OneQuotient
  <2>3. 0 * p + v = v
    BY <2>1
  <2> QED  BY <2>2, <2>3 DEF p
<1> QED
  <2> DEFINE p == Power(r, k)
  <2>1. p \in Nat /\ f[k] \in 0 .. p - 1 /\ v = f[k] + (v \div p) * p /\ v \div p = 0
    BY <1>0, <1>8, <1>9
  <2> HIDE DEF p
  <2>2. v = f[k]
    BY <2>1
  <2> QED  BY <1>4, <2>2

(* The power of a sum, ... *)
LEMMA PowersAdd ==
  ASSUME NEW b \in Nat, NEW m \in Nat
  PROVE  \A n \in Nat : Power(b, m + n) = Power(b, m) * Power(b, n)
<1> DEFINE S == {n \in Nat : Power(b, m + n) = Power(b, m) * Power(b, n)}
<1>1. \A n \in Nat : Power(b, n) \in Nat
  BY Powers
<1>2. 0 \in S
  <2>1. m + 0 = m /\ Power(b, 0) = 1 /\ Power(b, m) * 1 = Power(b, m)
    BY <1>1, Powers
  <2> QED  BY <2>1
<1>3. ASSUME NEW n \in Nat, n \in S PROVE n + 1 \in S
  <2> DEFINE x == Power(b, m)
             y == Power(b, n)
  <2>1. Power(b, m + n) = x * y
    BY <1>3
  <2>2. x \in Nat /\ y \in Nat
    BY <1>1
  <2>3. Power(b, n + 1) = b * y
    BY Powers
  <2>4. m + n \in Nat /\ (m + n) + 1 = m + (n + 1)
    OBVIOUS
  <2>5. Power(b, m + (n + 1)) = b * Power(b, m + n)
    BY <2>4, Powers
  <2> HIDE DEF x, y
  <2>6. b * (x * y) = x * (b * y)
    BY <2>2, SMTT(30)
  <2>7. Power(b, m + (n + 1)) = x * Power(b, n + 1)
    BY <2>1, <2>3, <2>5, <2>6
  <2> QED  BY <2>7 DEF x
<1> HIDE DEF S
<1>4. \A n \in Nat : n \in S
  BY <1>2, <1>3, Induction
<1> QED  BY <1>4 DEF S

(* ... and the power of a power. *)
LEMMA PowersMultiply ==
  ASSUME NEW b \in Nat, NEW m \in Nat
  PROVE  \A n \in Nat : Power(Power(b, m), n) = Power(b, m * n)
<1> DEFINE c == Power(b, m)
           S == {n \in Nat : Power(c, n) = Power(b, m * n)}
<1>1. c \in Nat
  BY Powers
<1> HIDE DEF c
<1>2. 0 \in S
  <2>1. m * 0 = 0 /\ Power(b, 0) = 1 /\ Power(c, 0) = 1
    BY <1>1, Powers
  <2> QED  BY <2>1
<1>3. ASSUME NEW n \in Nat, n \in S PROVE n + 1 \in S
  <2>1. m * n \in Nat /\ m * (n + 1) = m + m * n
    OBVIOUS
  <2>2. Power(c, n + 1) = c * Power(c, n)
    BY <1>1, Powers
  <2>3. Power(b, m + m * n) = c * Power(b, m * n)
    BY <2>1, PowersAdd DEF c
  <2>4. Power(c, n + 1) = Power(b, m * (n + 1))
    BY <1>3, <2>1, <2>2, <2>3
  <2> QED  BY <2>4
<1> HIDE DEF S
<1>4. \A n \in Nat : n \in S
  BY <1>2, <1>3, Induction
<1> QED  BY <1>4 DEF S, c

(* A larger power has a larger exponent. *)
LEMMA PowersGrow ==
  ASSUME NEW b \in Nat \ {0}, NEW m \in Nat, NEW n \in Nat
  PROVE  /\ m <= n => Power(b, m) <= Power(b, n)
         /\ Power(b, m) < Power(b, n) => m < n
<1>1. \A i \in Nat : Power(b, i) \in Nat \ {0}
  BY PowersPositive
<1>2. ASSUME NEW i \in Nat, NEW j \in Nat, i <= j PROVE Power(b, i) <= Power(b, j)
  <2> DEFINE k == j - i
             x == Power(b, i)
             y == Power(b, k)
  <2>1. k \in Nat /\ i + k = j
    BY <1>2
  <2> HIDE DEF k
  <2>2. Power(b, j) = x * y
    BY <2>1, PowersAdd
  <2>3. x \in Nat /\ y \in Nat \ {0}
    BY <1>1, <2>1
  <2> HIDE DEF x, y
  <2>4. x <= x * y
    <3>1. PICK z \in Nat : y = 1 + z
      BY <2>3
    <3>2. x * y = x + x * z /\ x * z \in Nat
      BY <2>3, <3>1
    <3> QED  BY <2>3, <3>2
  <2> QED  BY <2>2, <2>4 DEF x
<1>3. m <= n => Power(b, m) <= Power(b, n)
  BY <1>2
<1>4. n <= m => Power(b, n) <= Power(b, m)
  BY <1>2
<1> DEFINE x == Power(b, m)
           y == Power(b, n)
<1>5. x \in Nat /\ y \in Nat
  BY <1>1
<1> HIDE DEF x, y
<1>6. n <= m => y <= x
  BY <1>4 DEF x, y
<1>7. x < y => m < n
  BY <1>5, <1>6
<1> QED  BY <1>3, <1>7 DEF x, y

(* How the numbers of the encodings are powers of 2. *)
LEMMA Widths ==
  LET W == IntBytes * (Group + 1)
  IN  /\ W \in Nat \ {0} /\ Half \in Nat /\ Half >= 2
      /\ Radix \in Nat /\ Radix >= 2 /\ Modulus = Power(2, W)
      /\ \A k \in Nat : Power(Half, k) = Power(2, Group * k)
<1> DEFINE W == IntBytes * (Group + 1)
<1> USE ByteArrayAssumption
<1>1. W \in Nat \ {0} /\ W = (Group + 1) * IntBytes
  <2>1. Group + 1 \in Nat \ {0}
    OBVIOUS
  <2> QED  BY <2>1, Product
<1>2. Power(2, 0) = 1 /\ 0 + 1 = 1 /\ Power(2, 0 + 1) = 2 * Power(2, 0)
  BY Powers
<1>3. Half \in Nat /\ Half >= 2
  <2>1. Power(2, 1) = 2
    BY <1>2
  <2>2. Power(2, 1) <= Power(2, Group)
    BY PowersGrow
  <2>3. Power(2, Group) \in Nat
    BY Powers
  <2> QED  BY <2>1, <2>2, <2>3 DEF Half
<1>4. Radix = Power(2, Group + 1)
  <2>1. Power(2, Group + 1) = 2 * Power(2, Group)
    BY Powers
  <2> QED  BY <2>1 DEF Radix, Half
<1>5. Radix \in Nat /\ Radix >= 2
  BY <1>3 DEF Radix
<1>6. Modulus = Power(2, (Group + 1) * IntBytes)
  <2>1. Power(Power(2, Group + 1), IntBytes) = Power(2, (Group + 1) * IntBytes)
    BY PowersMultiply
  <2> QED  BY <1>4, <2>1 DEF Modulus
<1>7. \A k \in Nat : Power(Half, k) = Power(2, Group * k)
  BY PowersMultiply DEF Half
<1> QED  BY <1>1, <1>3, <1>5, <1>6, <1>7

-----------------------------------------------------------------------------
(* Encodings: what a reader makes of what a writer put. *)
(* A digit is one. *)
LEMMA DigitType ==
  ASSUME NEW v \in Nat, NEW r \in Nat \ {0}, NEW i \in Nat \ {0}
  PROVE  Digit(v, r, i) \in 0 .. r - 1
<1> DEFINE p == Power(r, i - 1)
           q == v \div p
<1>1. p \in Nat \ {0}
  <2>1. i - 1 \in Nat
    OBVIOUS
  <2> QED  BY <2>1, PowersPositive
<1> HIDE DEF p
<1>2. q \in Nat
  BY <1>1, Quotient
<1> HIDE DEF q
<1>3. q % r \in 0 .. r - 1
  BY <1>2, Quotient
<1> QED  BY <1>3 DEF Digit, p, q

(* byteSwap() twice is nothing. *)
LEMMA SwappedTwice ==
  ASSUME NEW s, IsSeq(s), NEW little
  PROVE  /\ Swapped(Swapped(s, little), little) = s
         /\ IsSeq(Swapped(s, little)) /\ Len(Swapped(s, little)) = Len(s)
<1> DEFINE n == Len(s)
           t == [i \in 1 .. n |-> s[n + 1 - i]]
           u == [i \in 1 .. n |-> t[n + 1 - i]]
<1>1. n \in Nat /\ DOMAIN s = 1 .. n
  BY DEF IsSeq
<1>2. Swapped(s, TRUE) = s /\ Swapped(s, FALSE) = t
  BY <1>1 DEF Swapped
<1>3. IsSeq(t) /\ Len(t) = n /\ DOMAIN t = 1 .. n
  <2>1. t = [i \in 1 .. n |-> t[i]]
    OBVIOUS
  <2> HIDE DEF t
  <2> QED  BY <1>1, <2>1, MadeSeq
<1>4. u = s
  <2>1. \A i \in 1 .. n : n + 1 - i \in 1 .. n /\ n + 1 - (n + 1 - i) = i
    BY <1>1
  <2>2. \A i \in 1 .. n : u[i] = s[i]
    BY <2>1
  <2>3. u = [i \in 1 .. n |-> s[i]]
    BY <2>2
  <2> QED  BY <2>3 DEF IsSeq
<1>5. Swapped(t, FALSE) = u
  <2> HIDE DEF t
  <2> QED  BY <1>3 DEF Swapped
<1>6. CASE little
  <2>1. Swapped(s, little) = s
    BY <1>6 DEF Swapped
  <2> QED  BY <2>1
<1>7. CASE ~little
  <2>1. Swapped(s, little) = t /\ Swapped(t, little) = u
    <3> HIDE DEF t, u
    <3> QED  BY <1>2, <1>5, <1>7 DEF Swapped
  <2> HIDE DEF t, u
  <2> QED  BY <1>3, <1>4, <2>1
<1> QED  BY <1>6, <1>7

(* readF..() undoes writeF..(). *)
LEMMA FixedReadsBack ==
  ASSUME NEW v \in 0 .. Modulus - 1, NEW little
  PROVE  /\ IsSeq(Fixed(v, little)) /\ Len(Fixed(v, little)) = IntBytes
         /\ FixedValue(Fixed(v, little), little) = v
<1> DEFINE ds == [i \in 1 .. IntBytes |-> Digit(v, Radix, i)]
<1>1. v \in Nat /\ v < Power(Radix, IntBytes) /\ Radix \in Nat \ {0}
  <2>1. Modulus \in Nat
    BY Widths, Powers
  <2> QED  BY <2>1, Widths DEF Modulus
<1>2. IsSeq(ds) /\ Len(ds) = IntBytes
  <2>1. ds = [i \in 1 .. IntBytes |-> ds[i]]
    BY Zenon
  <2> HIDE DEF ds
  <2> QED  BY <2>1, MadeSeq, ByteArrayAssumption
<1>3. \A i \in 1 .. IntBytes : ds[i] = Digit(v, Radix, i)
  BY Zenon
<1>4. Fixed(v, little) = Swapped(ds, little)
  BY Zenon DEF Fixed
<1> HIDE DEF ds
<1>5. Number(ds, Radix) = v
  BY <1>1, <1>2, <1>3, NumberOfDigits, ByteArrayAssumption
<1> QED  BY <1>2, <1>4, <1>5, SwappedTwice DEF FixedValue

(* The groups of a number: how many there are, and which of them is the last. *)
LEMMA VarintGroups ==
  ASSUME NEW v \in 0 .. Modulus - 1
  PROVE  \E n \in 1 .. Rounds :
           /\ Varint(v) = [i \in 1 .. n |-> Digit(v, Half, i) + (IF i < n THEN Half ELSE 0)]
           /\ v < Power(Half, n)
<1> DEFINE W == IntBytes * (Group + 1)
           K == {k \in 1 .. W : v >= Power(Half, k)}
           T == {k \in Nat : k # 0 /\ v < Power(Half, k)}
<1>1. W \in Nat \ {0} /\ Half \in Nat /\ Half >= 2 /\ Modulus = Power(2, W)
  BY Widths
<1>2. \A k \in Nat : Power(Half, k) = Power(2, Group * k)
  BY Widths
<1> HIDE DEF W
<1>3. \A k \in Nat : Power(Half, k) \in Nat
  BY <1>1, Powers
<1>4. Modulus \in Nat /\ v \in Nat /\ v < Modulus
  BY <1>1, Powers
<1>5. W \in T
  <2>1. Group * W \in Nat /\ W <= Group * W
    <3>1. PICK g \in Nat : Group = 1 + g
      BY ByteArrayAssumption
    <3>2. Group * W = W + g * W /\ g * W \in Nat
      BY <1>1, <3>1
    <3> QED  BY <1>1, <3>2
  <2>2. Power(2, W) <= Power(2, Group * W)
    BY <1>1, <2>1, PowersGrow
  <2>3. Power(Half, W) = Power(2, Group * W)
    BY <1>1, <1>2
  <2> QED  BY <1>1, <1>3, <1>4, <2>2, <2>3
<1>6. PICK n \in T : \A m \in T : n <= m
  <2>1. T \subseteq Nat /\ T # {}
    BY <1>5
  <2> HIDE DEF T
  <2> QED  BY <2>1, Least
<1>7. n \in Nat \ {0} /\ n <= W /\ v < Power(Half, n)
  BY <1>5, <1>6
<1>8. K = 1 .. n - 1
  <2>1. ASSUME NEW k \in 1 .. W, k < n PROVE v >= Power(Half, k)
    <3>1. k \in Nat /\ k # 0 /\ k \notin T
      BY <1>6, <1>7, <2>1
    <3> QED  BY <1>3, <1>4, <3>1
  <2>2. ASSUME NEW k \in 1 .. W, n <= k PROVE ~(v >= Power(Half, k))
    <3>1. Power(Half, n) <= Power(Half, k)
      BY <1>1, <1>7, <2>2, PowersGrow
    <3>2. Power(Half, n) \in Nat /\ Power(Half, k) \in Nat
      BY <1>3, <1>7
    <3> QED  BY <1>4, <1>7, <3>1, <3>2
  <2> QED  BY <1>1, <1>7, <2>1, <2>2
<1>9. 1 + Cardinality(K) = n
  <2>1. Cardinality(1 .. n - 1) = n - 1
    BY <1>7, FS_Interval
  <2> HIDE DEF K
  <2> QED  BY <1>7, <1>8, <2>1
<1>10. n <= Rounds
  <2>1. Group * (n - 1) < W
    <3>1. CASE n = 1
      BY <1>1, <3>1, ByteArrayAssumption
    <3>2. CASE n # 1
      <4>1. n - 1 \in Nat /\ n - 1 \in 1 .. W /\ n - 1 < n
        BY <1>1, <1>7, <3>2
      <4>2. v >= Power(Half, n - 1)
        BY <1>8, <4>1
      <4>3. Power(Half, n - 1) = Power(2, Group * (n - 1)) /\ Power(Half, n - 1) \in Nat
        BY <1>2, <1>3, <4>1
      <4>4. Group * (n - 1) \in Nat
        BY <4>1, Product, ByteArrayAssumption
      <4>5. Power(2, Group * (n - 1)) < Power(2, W)
        BY <1>1, <1>4, <4>2, <4>3
      <4> QED  BY <1>1, <4>4, <4>5, PowersGrow
    <3> QED  BY <3>1, <3>2
  <2> DEFINE x == W + Group - 1
             q == x \div Group
  <2>2. x \in Nat
    BY <1>1, ByteArrayAssumption
  <2>3. Rounds = q
    BY DEF Rounds, W
  <2>4. q \in Nat /\ x % Group \in 0 .. Group - 1 /\ x = q * Group + (x % Group)
    BY <2>2, Quotient, ByteArrayAssumption
  <2> HIDE DEF q
  <2>5. ~(q < n)
    <3> SUFFICES ASSUME q < n PROVE FALSE
      OBVIOUS
    <3>1. PICK j \in Nat : n - 1 = q + j
      BY <1>7, <2>4
    <3>2. Group * (n - 1) = q * Group + Group * j /\ Group * j \in Nat /\ q * Group \in Nat /\ Group * (n - 1) \in Nat
      BY <2>4, <3>1, ByteArrayAssumption
    <3> QED  BY <1>1, <2>1, <2>2, <2>4, <3>2, ByteArrayAssumption, SMTT(30)
  <2> QED  BY <1>7, <2>3, <2>4, <2>5
<1>11. Varint(v) = [i \in 1 .. n |-> Digit(v, Half, i) + (IF i < n THEN Half ELSE 0)]
  BY <1>9 DEF Varint, K, W
<1>12. n \in 1 .. Rounds
  <2>1. Rounds \in Nat
    <3>1. W + Group - 1 \in Nat
      BY <1>1, ByteArrayAssumption
    <3> QED  BY <3>1, Quotient, ByteArrayAssumption DEF Rounds, W
  <2> QED  BY <1>7, <1>10, <2>1
<1> QED  BY <1>7, <1>11, <1>12

(* DecodeZigzag..() undoes EncodeZigzag..(). *)
LEMMA ZigzagReadsBack ==
  ASSUME NEW v \in Int, -(Modulus \div 2) <= v, v < Modulus \div 2
  PROVE  Zigzag(v) \in 0 .. Modulus - 1 /\ Unzigzag(Zigzag(v)) = v
<1>1. PICK h \in Nat \ {0} : Modulus = 2 * h
  <2>1. IntBytes - 1 \in Nat /\ (IntBytes - 1) + 1 = IntBytes
    BY ByteArrayAssumption
  <2> DEFINE p == Power(Radix, IntBytes - 1)
  <2>2. p \in Nat \ {0} /\ Power(Radix, (IntBytes - 1) + 1) = Radix * p
    <3>1. Radix \in Nat \ {0} /\ Radix \in Nat
      BY Widths
    <3>2. p \in Nat \ {0}
      BY <2>1, <3>1, PowersPositive
    <3>3. \A n \in Nat : Power(Radix, n + 1) = Radix * Power(Radix, n)
      BY <3>1, Powers
    <3> QED  BY <2>1, <3>2, <3>3
  <2> HIDE DEF p
  <2>3. Modulus = Radix * p
    BY <2>1, <2>2 DEF Modulus
  <2>4. Half * p \in Nat \ {0}
    BY <2>2, Widths, Product
  <2>5. Radix * p = 2 * (Half * p)
    BY <2>2, Widths DEF Radix
  <2> QED  BY <2>3, <2>4, <2>5
<1>2. Modulus \div 2 = h
  BY <1>1
<1>3. v \in -h .. h - 1
  BY <1>2
<1>4. CASE v < 0
  <2>1. (2 * v) % Modulus = 2 * v + 2 * h
    BY <1>1, <1>3, <1>4
  <2>2. Zigzag(v) = -(2 * v) - 1
    BY <1>1, <1>4, <2>1 DEF Zigzag
  <2>3. (-(2 * v) - 1) % 2 = 1 /\ (-(2 * v) - 1) \div 2 = -v - 1
    BY <1>3, <1>4
  <2>4. Unzigzag(-(2 * v) - 1) = v
    BY <1>1, <1>2, <1>3, <1>4, <2>3 DEF Unzigzag
  <2> QED  BY <1>1, <1>3, <1>4, <2>2, <2>4
<1>5. CASE v >= 0
  <2>1. (2 * v) % Modulus = 2 * v
    BY <1>1, <1>3, <1>5
  <2>2. Zigzag(v) = 2 * v
    BY <1>3, <1>5, <2>1 DEF Zigzag
  <2>3. (2 * v) % 2 = 0 /\ (2 * v) \div 2 = v
    BY <1>3, <1>5
  <2>4. Unzigzag(2 * v) = v
    BY <1>1, <1>2, <1>3, <1>5, <2>3 DEF Unzigzag
  <2> QED  BY <1>1, <1>3, <1>5, <2>2, <2>4
<1> QED  BY <1>3, <1>4, <1>5

(* The seven low bits of a group are its digit, and the top bit marks all but the last. *)
LEMMA GroupByte ==
  ASSUME NEW v \in Nat, NEW n \in Nat, NEW i \in 1 .. n
  PROVE  LET b == Digit(v, Half, i) + (IF i < n THEN Half ELSE 0)
         IN  b % Half = Digit(v, Half, i) /\ (b \in 0 .. Half - 1 <=> i = n)
<1> DEFINE d == Digit(v, Half, i)
<1>1. Half \in Nat \ {0} /\ i \in Nat \ {0}
  BY Widths
<1>2. d \in 0 .. Half - 1
  BY <1>1, DigitType
<1> HIDE DEF d
<1>3. (0 * Half + d) % Half = d /\ (1 * Half + d) % Half = d
  BY <1>1, <1>2, OneQuotient
<1>4. 0 * Half + d = d + 0 /\ 1 * Half + d = d + Half
  BY <1>1, <1>2
<1>5. CASE i < n
  BY <1>1, <1>2, <1>3, <1>4, <1>5 DEF d
<1>6. CASE i = n
  BY <1>1, <1>2, <1>3, <1>4, <1>6 DEF d
<1> QED  BY <1>5, <1>6

(* readUint..() undoes writeUint..(), ... *)
LEMMA VarintReadsBack ==
  ASSUME NEW v \in 0 .. Modulus - 1
  PROVE  /\ IsSeq(Varint(v)) /\ Len(Varint(v)) \in 1 .. Rounds
         /\ VarintValue(Varint(v)) = v
         /\ \A i \in 1 .. Len(Varint(v)) : Varint(v)[i] \in 0 .. Half - 1 <=> i = Len(Varint(v))
<1>1. PICK n \in 1 .. Rounds :
           /\ Varint(v) = [i \in 1 .. n |-> Digit(v, Half, i) + (IF i < n THEN Half ELSE 0)]
           /\ v < Power(Half, n)
  BY VarintGroups
<1> DEFINE ds == Varint(v)
           cs == [i \in DOMAIN ds |-> ds[i] % Half]
<1>2. n \in Nat /\ v \in Nat /\ Modulus \in Nat \ {0} /\ v \in 0 .. Modulus - 1 /\ Half \in Nat \ {0}
  <2>1. Modulus \in Nat
    BY Widths, Powers
  <2>2. Half \in Nat \ {0}
    BY Widths
  <2> QED  BY <2>1, <2>2
<1>3. \A i \in 1 .. n : ds[i] = Digit(v, Half, i) + (IF i < n THEN Half ELSE 0)
  BY <1>1, Zenon
<1>4. IsSeq(ds) /\ Len(ds) = n /\ DOMAIN ds = 1 .. n
  <2>1. ds = [i \in 1 .. n |-> ds[i]]
    BY <1>1, Zenon
  <2> HIDE DEF ds
  <2> QED  BY <1>2, <2>1, MadeSeq
<1> HIDE DEF ds
<1>5. \A i \in 1 .. n : ds[i] % Half = Digit(v, Half, i) /\ (ds[i] \in 0 .. Half - 1 <=> i = n)
  BY <1>2, <1>3, GroupByte
<1>6. Len(cs) = n /\ \A i \in 1 .. n : cs[i] = Digit(v, Half, i)
  <2>1. cs = [i \in 1 .. n |-> cs[i]]
    BY <1>4
  <2>2. \A i \in 1 .. n : cs[i] = ds[i] % Half
    BY <1>4
  <2> HIDE DEF cs
  <2>3. Len(cs) = n
    BY <1>2, <2>1, MadeSeq
  <2> QED  BY <1>5, <2>2, <2>3
<1> HIDE DEF cs
<1>7. Number(cs, Half) = v
  BY <1>1, <1>2, <1>6, NumberOfDigits
<1>8. v % Modulus = v
  <2>1. (0 * Modulus + v) % Modulus = v /\ 0 * Modulus + v = v
    BY <1>2, OneQuotient
  <2> QED  BY <2>1
<1>9. VarintValue(ds) = v
  BY <1>7, <1>8 DEF VarintValue, cs
<1> QED  BY <1>4, <1>5, <1>9 DEF ds

(* ... which ends where writeUint..() did, whatever follows. *)
LEMMA VarintEnds ==
  ASSUME NEW v \in 0 .. Modulus - 1, NEW bytes, IsSeq(bytes), Len(Varint(v)) <= Len(bytes),
         \A i \in 1 .. Len(Varint(v)) : bytes[i] = Varint(v)[i]
  PROVE  VarintLength(bytes) = Len(Varint(v))
<1> DEFINE n == Len(Varint(v))
           last == {i \in 1 .. Smaller(Rounds, Len(bytes)) : bytes[i] \in 0 .. Half - 1}
<1>1. n \in 1 .. Rounds /\ \A i \in 1 .. n : bytes[i] \in 0 .. Half - 1 <=> i = n
  BY VarintReadsBack
<1>2. n <= Len(bytes) /\ Len(bytes) \in Nat
  BY DEF IsSeq
<1> HIDE DEF n
<1>3. Rounds \in Nat
  <2> DEFINE W == IntBytes * (Group + 1)
  <2>1. W \in Nat \ {0}
    BY Widths
  <2>2. Rounds = (W + Group - 1) \div Group
    BY DEF Rounds
  <2> HIDE DEF W
  <2>3. W + Group - 1 \in Nat
    BY <2>1, ByteArrayAssumption
  <2> QED  BY <2>2, <2>3, Quotient, ByteArrayAssumption
<1>4. n \in last
  <2>1. n \in 1 .. Smaller(Rounds, Len(bytes)) /\ n \in 1 .. n
    BY <1>1, <1>2, <1>3 DEF Smaller
  <2> QED  BY <1>1, <2>1
<1>5. \A i \in last : i \in Nat /\ n <= i
  <2> SUFFICES ASSUME NEW i \in last PROVE i \in Nat /\ n <= i
    OBVIOUS
  <2>1. i \in Nat /\ i # 0
    BY <1>2, <1>3 DEF Smaller
  <2>2. i \in 1 .. n => i = n
    BY <1>1
  <2> HIDE DEF last
  <2> QED  BY <1>1, <1>3, <2>1, <2>2
<1>6. VarintLength(bytes) = IF last = {} THEN Rounds ELSE Min(last)
  BY DEF VarintLength
<1> HIDE DEF last
<1>7. Min(last) = n
  <2>1. \A x \in last : (\A y \in last : x <= y) => x = n
    BY <1>1, <1>3, <1>4, <1>5
  <2>2. \A y \in last : n <= y
    BY <1>5
  <2> QED  BY <1>4, <2>1, <2>2 DEF Min
<1> QED  BY <1>4, <1>6, <1>7 DEF n

-----------------------------------------------------------------------------
(* What an item looks like where it was written. *)
StandsIn(a, w) ==
  LET bytes == Encoded(w.item, w.little)
  IN  /\ w.item \in Items /\ w.little \in BOOLEAN /\ w.at \in Nat
      /\ w.length = Len(bytes) /\ w.at + w.length <= a.size
      /\ \A i \in 1 .. w.length : Byte(a, w.at + i - 1) = bytes[i]

(* Every item that nothing has been written over stands in the chain. *)
Stands == \A w \in written : StandsIn(ba, w)

(* The bytes of an item are a sequence of them. *)
LEMMA EncodedIsSeq ==
  ASSUME NEW item \in Items, NEW little
  PROVE  IsSeq(Encoded(item, little)) /\ Len(Encoded(item, little)) \in Nat
<1> DEFINE head == Prefix(item, little)
           tail == IF IsString(item) THEN item.value ELSE <<>>
<1>1. IsSeq(head)
  BY PrefixIsSeq
<1>2. IsSeq(tail)
  BY TextIsSeq, KnownSeqs
<1> HIDE DEF head, tail
<1>3. IsSeq(head \o tail)
  BY <1>1, <1>2, Joined
<1>4. Encoded(item, little) = head \o tail
  BY DEF Encoded, head, tail
<1> QED  BY <1>3, <1>4 DEF IsSeq

(* An item stands where its bytes have stayed. *)
LEMMA StaysWhereKept ==
  ASSUME NEW a, NEW b, a.size \in Nat, b.size \in Nat, a.size <= b.size,
         NEW w, StandsIn(a, w),
         \A q \in w.at .. w.at + w.length - 1 : q < a.size => Byte(b, q) = Byte(a, q)
  PROVE  StandsIn(b, w)
<1> DEFINE bytes == Encoded(w.item, w.little)
<1>1. /\ w.item \in Items /\ w.little \in BOOLEAN /\ w.at \in Nat
      /\ w.length = Len(bytes) /\ w.at + w.length <= a.size
      /\ \A i \in 1 .. w.length : Byte(a, w.at + i - 1) = bytes[i]
  BY Zenon DEF StandsIn
<1>2. w.length \in Nat
  BY <1>1, EncodedIsSeq
<1> HIDE DEF bytes
<1>3. w.at + w.length <= b.size
  BY <1>1, <1>2
<1>4. ASSUME NEW i \in 1 .. w.length PROVE Byte(b, w.at + i - 1) = bytes[i]
  <2>1. w.at + i - 1 \in w.at .. w.at + w.length - 1 /\ w.at + i - 1 < a.size
    BY <1>1, <1>2
  <2>2. Byte(b, w.at + i - 1) = Byte(a, w.at + i - 1)
    BY <2>1
  <2> QED  BY <1>1, <2>2
<1> QED  BY <1>1, <1>3, <1>4, Zenon DEF StandsIn, bytes

(* An item stands unless it is written over. *)
LEMMA StaysBesideWrite ==
  ASSUME NEW a, NEW b, NEW bytes, Fit(a), IsSeq(bytes), Overwritten(a, b, bytes),
         NEW w, StandsIn(a, w), w.at + w.length <= a.position \/ w.at >= a.position + Len(bytes)
  PROVE  StandsIn(b, w)
<1>1. a.size \in Nat /\ a.position \in Nat /\ Len(bytes) \in Nat
  BY DEF Fit, IsArray, IsSeq
<1>2. b.size = Larger(a.size, a.position + Len(bytes))
  BY DEF Overwritten
<1>3. b.size \in Nat /\ a.size <= b.size
  BY <1>1, <1>2 DEF Larger
<1>4. w.at \in Nat /\ w.length \in Nat
  BY EncodedIsSeq DEF StandsIn
<1> DEFINE n == Len(bytes)
<1>5. n \in Nat /\ (w.at + w.length <= a.position \/ w.at >= a.position + n)
  BY <1>1
<1>6. ASSUME NEW q \in w.at .. w.at + w.length - 1, q < a.size PROVE Byte(b, q) = Byte(a, q)
  <2>1. q \in 0 .. b.size - 1
    BY <1>1, <1>3, <1>4, <1>6
  <2>2. ~(q - a.position + 1 \in 1 .. n)
    <3> HIDE DEF n
    <3> QED  BY <1>1, <1>4, <1>5, SMTT(30)
  <2> QED  BY <1>6, <2>1, <2>2 DEF Overwritten
<1> QED  BY <1>1, <1>3, <1>6, StaysWhereKept

(* Put: the item stands, and the others that it does not reach. *)
LEMMA PutStands ==
  ASSUME ChainInv, Stands, NEW item \in Items, Put(item)
  PROVE  Stands'
<1> DEFINE bytes == Encoded(item, ba.little)
           n == ba'.position - ba.position
           new == [at |-> ba.position, length |-> n, item |-> item, little |-> ba.little]
<1>1. Overwritten(ba, ba', bytes) /\ IsSeq(bytes)
  BY PutOverwrites
<1>2. written' = Untouched(ba.position, n) \union {new}
  BY Zenon DEF Put
<1>3. /\ Fit(ba) /\ ba.position \in Nat /\ ba.size \in Nat /\ ba.little \in BOOLEAN /\ Len(bytes) \in Nat
      /\ ba'.position = ba.position + Len(bytes) /\ ba'.size = Larger(ba.size, ba.position + Len(bytes))
      /\ \A q \in 0 .. ba'.size - 1 :
           q - ba.position + 1 \in 1 .. Len(bytes) => Byte(ba', q) = bytes[q - ba.position + 1]
  <2> HIDE DEF bytes
  <2> QED  BY <1>1 DEF ChainInv, Fit, IsArray, IsSeq, Overwritten
<1>4. n = Len(bytes)
  <2> HIDE DEF bytes
  <2> QED  BY <1>3
<1> HIDE DEF bytes, n
<1>5. StandsIn(ba', new)
  <2>1. ba.position + n <= ba'.size /\ ba'.size \in Nat
    BY <1>3, <1>4 DEF Larger
  <2>2. ASSUME NEW i \in 1 .. n PROVE Byte(ba', ba.position + i - 1) = bytes[i]
    <3>1. ba.position + i - 1 \in 0 .. ba'.size - 1 /\ (ba.position + i - 1) - ba.position + 1 = i
      BY <1>3, <1>4, <2>1
    <3> QED  BY <1>3, <1>4, <3>1
  <2>3. /\ new.at = ba.position /\ new.length = n /\ new.item = item /\ new.little = ba.little
    OBVIOUS
  <2> HIDE DEF new
  <2> QED  BY <1>3, <1>4, <2>1, <2>2, <2>3, Zenon DEF StandsIn, bytes
<1> HIDE DEF new
<1>6. ASSUME NEW w \in Untouched(ba.position, n) PROVE StandsIn(ba', w)
  <2>1. StandsIn(ba, w) /\ (w.at + w.length <= ba.position \/ w.at >= ba.position + n)
    BY DEF Untouched, Stands
  <2> QED  BY <1>1, <1>3, <1>4, <2>1, StaysBesideWrite
<1> QED  BY <1>2, <1>5, <1>6, Zenon DEF Stands, StandsIn, Byte

(* Recv: what recv() filled is all that it touches. *)
LEMMA RecvStands ==
  ASSUME ChainInv, Stands, NEW n \in 1 .. MaxSize, NEW text \in Received, Recv(n, text)
  PROVE  Stands'
<1>1. Overwritten(ba, ba', text) /\ IsSeq(text)
  BY RecvOverwrites
<1>2. written' = Untouched(ba.position, Len(text))
  BY Zenon DEF Recv
<1>3. ASSUME NEW w \in Untouched(ba.position, Len(text)) PROVE StandsIn(ba', w)
  <2>1. StandsIn(ba, w) /\ (w.at + w.length <= ba.position \/ w.at >= ba.position + Len(text))
    BY DEF Untouched, Stands
  <2> QED  BY <1>1, <2>1, StaysBesideWrite DEF ChainInv
<1> QED  BY <1>2, <1>3, Zenon DEF Stands, StandsIn, Byte

(* Where no byte changes, every item stays. *)
LEMMA QuietStands ==
  ASSUME Stands, UNCHANGED written, ba.size \in Nat, ba'.size \in Nat, ba.size <= ba'.size,
         \A q : Byte(ba', q) = Byte(ba, q)
  PROVE  Stands'
<1>1. ASSUME NEW w \in written PROVE StandsIn(ba', w)
  <2>1. StandsIn(ba, w)
    BY DEF Stands
  <2> QED  BY <2>1, StaysWhereKept
<1> QED  BY <1>1, Zenon DEF Stands, StandsIn, Byte

(* setPosition() moves nothing. *)
LEMMA MovedStands ==
  ASSUME ChainInv, Stands, NEW p \in Nat, p <= ba.capacity, ba' = SetPosition(ba, p), UNCHANGED written
  PROVE  Stands'
<1>1. Fit(ba) /\ IsArray(ba) /\ ba.capacity = Base * Len(ba.blocks) /\ ba.size <= ba.capacity
      /\ ba.size \in Nat
  BY DEF ChainInv, Fit, IsArray, Exact
<1>2. p \in 0 .. ba.capacity
  BY <1>1, FitFacts
<1>3. ba'.size = Larger(ba.size, p) /\ \A q : Byte(ba', q) = Byte(ba, q)
  BY <1>1, <1>2, SetPositionFacts
<1>4. ba'.size \in Nat /\ ba.size <= ba'.size
  BY <1>1, <1>3 DEF Larger
<1> QED  BY <1>1, <1>3, <1>4, QuietStands

(* Every call leaves what it does not write over. *)
LEMMA StandsStep ==
  ASSUME ChainInv, Stands, [Next]_vars
  PROVE  Stands'
<1>0. ba.size \in Nat /\ ba.position \in Nat
  BY DEF ChainInv, Fit, IsArray
<1>1. ASSUME NEW item \in Items, Put(item) PROVE Stands'
  BY <1>1, PutStands
<1>2. ASSUME NEW n \in 0 .. MaxSize, Get(n) PROVE Stands'
  <2>1. n \in Nat /\ ~Throws(ba, n) /\ ba' = Read(ba, n) /\ Fit(ba) /\ UNCHANGED written
    BY <1>2, ByteArrayAssumption DEF Get, ChainInv
  <2>2. ba'.size = ba.size /\ ba'.blocks = ba.blocks
    BY <2>1, ReadFacts
  <2>3. \A q : Byte(ba', q) = Byte(ba, q)
    BY <2>2 DEF Byte
  <2> QED  BY <1>0, <2>1, <2>2, <2>3, QuietStands
<1>3. ASSUME NEW p \in 0 .. MaxSize, Seek(p) PROVE Stands'
  <2>1. p \in Nat /\ p <= ba.capacity /\ ba' = SetPosition(ba, p) /\ UNCHANGED written
    BY <1>3, ByteArrayAssumption DEF Seek
  <2> QED  BY <2>1, MovedStands
<1>4. ASSUME Wipe PROVE Stands'
  BY <1>4 DEF Wipe, Stands
<1>5. ASSUME NEW little \in BOOLEAN, SetEndian(little) PROVE Stands'
  <2>1. ba' = [ba EXCEPT !.little = little] /\ UNCHANGED written
    BY <1>5 DEF SetEndian
  <2>2. ba'.size = ba.size /\ ba'.blocks = ba.blocks
    BY <2>1 DEF ChainInv, Fit, IsArray
  <2>3. \A q : Byte(ba', q) = Byte(ba, q)
    BY <2>2 DEF Byte
  <2> QED  BY <1>0, <2>1, <2>2, <2>3, QuietStands
<1>6. ASSUME NEW n \in 1 .. MaxSize, NEW text \in Received, Recv(n, text) PROVE Stands'
  BY <1>6, RecvStands
<1>7. ASSUME NEW n \in 1 .. MaxSize, Send(n) PROVE Stands'
  <2>1. ~Throws(ba, n) /\ ba' = SetPosition(ba, ba.position + n) /\ UNCHANGED written /\ n \in Nat
    BY <1>7, ByteArrayAssumption DEF Send
  <2>2. ba.capacity \in Nat /\ ba.size <= ba.capacity
    BY FitFacts DEF ChainInv, Fit, Exact
  <2>3. ba.position + n \in Nat /\ ba.position + n <= ba.capacity
    BY <1>0, <2>1, <2>2 DEF Throws
  <2> QED  BY <2>1, <2>3, MovedStands
<1>8. ASSUME UNCHANGED vars PROVE Stands'
  BY <1>8, Zenon DEF vars, Stands, StandsIn, Byte
<1> QED  BY <1>1, <1>2, <1>3, <1>4, <1>5, <1>6, <1>7, <1>8 DEF Next

(* At first nothing has been written. *)
LEMMA InitStands == Init => Stands
BY DEF Init, Stands

-----------------------------------------------------------------------------
(* The number that an item starts with. *)
Said(item) == IF IsString(item) THEN Len(item.value) % Modulus ELSE item.value

(* The numbers in front of an item are in the range of their encodings. *)
LEMMA SaidFits ==
  ASSUME NEW item \in Items
  PROVE  /\ Modulus \in Nat \ {0}
         /\ item.kind \in {"fixed", "varint", "stringF"} => Said(item) \in 0 .. Modulus - 1
         /\ item.kind \in {"zigzag", "stringVint"} =>
              Said(item) \in Int /\ -(Modulus \div 2) <= Said(item) /\ Said(item) < Modulus \div 2
         /\ IsString(item) => Len(item.value) \in Nat /\ Said(item) \in 0 .. Len(item.value)
         /\ item.kind = "stringVint" => Said(item) = Len(item.value)
<1>1. Modulus \in Nat \ {0}
  <2>1. Radix \in Nat \ {0}
    BY Widths
  <2> QED  BY <2>1, PowersPositive, ByteArrayAssumption DEF Modulus
<1>2. Modulus \div 2 \in Nat /\ -(Modulus \div 2) \in Int /\ Modulus \div 2 <= Modulus
  BY <1>1
<1>3. CASE ~IsString(item)
  <2>1. Said(item) = item.value
    BY <1>3 DEF Said
  <2>2. item.kind \in {"fixed", "varint", "zigzag"}
    BY <1>3, ByteArrayAssumption DEF IsString
  <2>3. item.kind \in {"fixed", "varint"} => item.value \in 0 .. Modulus - 1
    BY ItemsAssumption
  <2>4. item.kind = "zigzag" => item.value \in -(Modulus \div 2) .. (Modulus \div 2) - 1
    BY ItemsAssumption
  <2>5. item.kind = "zigzag" =>
          item.value \in Int /\ -(Modulus \div 2) <= item.value /\ item.value < Modulus \div 2
    BY <1>2, <2>4
  <2> QED  BY <1>1, <1>3, <2>1, <2>2, <2>3, <2>5
<1>4. CASE IsString(item)
  <2> DEFINE n == Len(item.value)
  <2>1. n \in Nat
    BY <1>4, TextIsSeq DEF IsSeq
  <2>2. Said(item) = n % Modulus
    BY <1>4 DEF Said
  <2>3. item.kind = "stringVint" => n < Modulus \div 2
    BY ItemsAssumption
  <2> HIDE DEF n
  <2>4. n % Modulus \in 0 .. Modulus - 1 /\ n % Modulus <= n
    <3>1. /\ n \div Modulus \in Nat /\ n % Modulus \in 0 .. Modulus - 1
          /\ n = (n \div Modulus) * Modulus + (n % Modulus)
      BY <1>1, <2>1, Quotient
    <3>2. (n \div Modulus) * Modulus \in Nat
      BY <1>1, <3>1, Product
    <3> QED  BY <1>1, <2>1, <3>1, <3>2
  <2>5. n < Modulus => n % Modulus = n
    <3> SUFFICES ASSUME n < Modulus PROVE n % Modulus = n
      OBVIOUS
    <3>1. n \in 0 .. Modulus - 1
      BY <1>1, <2>1
    <3>2. (0 * Modulus + n) % Modulus = n
      BY <1>1, <3>1, OneQuotient
    <3>3. 0 * Modulus + n = n
      BY <1>1, <2>1
    <3> QED  BY <3>2, <3>3
  <2>6. item.kind = "stringVint" => Said(item) = n /\ Said(item) < Modulus \div 2
    BY <1>1, <1>2, <2>1, <2>2, <2>3, <2>5
  <2>7. item.kind = "stringF" => Said(item) \in 0 .. Modulus - 1
    BY <2>2, <2>4
  <2>8. Said(item) \in 0 .. n
    BY <1>1, <2>1, <2>2, <2>4
  <2>9. item.kind \in {"stringF", "stringVint"}
    BY <1>4 DEF IsString
  <2>10. item.kind = "stringVint" => Said(item) \in Int /\ -(Modulus \div 2) <= Said(item)
    BY <1>2, <2>1, <2>8
  <2> QED  BY <1>1, <2>1, <2>6, <2>7, <2>8, <2>9, <2>10 DEF n
<1> QED  BY <1>3, <1>4

(* How many bytes a reader takes for the number, and what it makes of them. *)
Taken(item, bytes) == IF item.kind \in {"fixed", "stringF"} THEN IntBytes ELSE VarintLength(bytes)
Understood(item, bytes, little) ==
  CASE item.kind \in {"fixed", "stringF"} -> FixedValue(bytes, little)
    [] item.kind = "varint" -> VarintValue(bytes)
    [] OTHER -> Unzigzag(VarintValue(bytes))

(* The reader takes what the writer put, and understands what it said. *)
LEMMA PrefixReadsBack ==
  ASSUME NEW item \in Items, NEW little, NEW bytes, IsSeq(bytes),
         Len(Prefix(item, little)) <= Len(bytes),
         \A i \in 1 .. Len(Prefix(item, little)) : bytes[i] = Prefix(item, little)[i]
  PROVE  /\ Taken(item, bytes) = Len(Prefix(item, little))
         /\ Understood(item, Prefix(item, little), little) = Said(item)
<1> DEFINE v == Said(item)
<1>1. CASE item.kind \in {"fixed", "stringF"}
  <2>1. v \in 0 .. Modulus - 1
    BY <1>1, SaidFits
  <2>2. Prefix(item, little) = Fixed(v, little)
    BY <1>1 DEF Prefix, Said, IsString
  <2>3. Taken(item, bytes) = IntBytes
    BY <1>1 DEF Taken
  <2>4. \A s : Understood(item, s, little) = FixedValue(s, little)
    BY <1>1 DEF Understood
  <2> HIDE DEF v
  <2> QED  BY <2>1, <2>2, <2>3, <2>4, FixedReadsBack DEF v
<1>2. CASE item.kind = "varint"
  <2>1. v \in 0 .. Modulus - 1
    BY <1>2, SaidFits
  <2>2. Prefix(item, little) = Varint(v)
    BY <1>2 DEF Prefix, Said, IsString
  <2>3. Taken(item, bytes) = VarintLength(bytes)
    BY <1>2 DEF Taken
  <2>4. \A s : Understood(item, s, little) = VarintValue(s)
    BY <1>2 DEF Understood
  <2> HIDE DEF v
  <2>5. VarintLength(bytes) = Len(Varint(v))
    BY <2>1, <2>2, VarintEnds
  <2> QED  BY <2>1, <2>2, <2>3, <2>4, <2>5, VarintReadsBack DEF v
<1>3. CASE item.kind \in {"zigzag", "stringVint"}
  <2>1. v \in Int /\ -(Modulus \div 2) <= v /\ v < Modulus \div 2
    BY <1>3, SaidFits
  <2>2. Prefix(item, little) = Varint(Zigzag(v))
    <3>1. item.kind = "zigzag" => Prefix(item, little) = Varint(Zigzag(v))
      BY DEF Prefix, Said, IsString
    <3>2. item.kind = "stringVint" => Prefix(item, little) = Varint(Zigzag(Len(item.value)))
      BY DEF Prefix
    <3>3. item.kind = "stringVint" => v = Len(item.value)
      BY SaidFits
    <3> QED  BY <1>3, <3>1, <3>2, <3>3
  <2>3. Taken(item, bytes) = VarintLength(bytes)
    BY <1>3 DEF Taken
  <2>4. \A s : Understood(item, s, little) = Unzigzag(VarintValue(s))
    BY <1>3 DEF Understood
  <2> HIDE DEF v
  <2> DEFINE u == Zigzag(v)
  <2>5. u \in 0 .. Modulus - 1 /\ Unzigzag(u) = v
    BY <2>1, ZigzagReadsBack
  <2> HIDE DEF u
  <2>6. Prefix(item, little) = Varint(u)
    BY <2>2 DEF u
  <2>7. VarintLength(bytes) = Len(Varint(u))
    BY <2>5, <2>6, VarintEnds
  <2>8. VarintValue(Varint(u)) = u
    BY <2>5, VarintReadsBack
  <2> QED  BY <2>3, <2>4, <2>5, <2>6, <2>7, <2>8 DEF v
<1> QED  BY <1>1, <1>2, <1>3, ByteArrayAssumption

(* What an item has behind its number. *)
TextOf(item) == IF IsString(item) THEN item.value ELSE <<>>

(* The bytes of an item are its prefix and its text. *)
LEMMA EncodedParts ==
  ASSUME NEW item \in Items, NEW little
  PROVE  /\ IsSeq(Prefix(item, little)) /\ Len(Prefix(item, little)) \in Nat
         /\ IsSeq(TextOf(item)) /\ Len(TextOf(item)) \in Nat
         /\ Len(Encoded(item, little)) = Len(Prefix(item, little)) + Len(TextOf(item))
         /\ \A i \in 1 .. Len(Prefix(item, little)) :
              Encoded(item, little)[i] = Prefix(item, little)[i]
         /\ \A i \in 1 .. Len(TextOf(item)) :
              Encoded(item, little)[Len(Prefix(item, little)) + i] = TextOf(item)[i]
<1> DEFINE head == Prefix(item, little)
           tail == TextOf(item)
           bytes == Encoded(item, little)
           m == Len(head)
           n == Len(tail)
<1>1. IsSeq(head)
  BY PrefixIsSeq
<1>2. IsSeq(tail)
  BY TextIsSeq, KnownSeqs DEF TextOf
<1>3. bytes = head \o tail
  BY DEF Encoded, TextOf
<1> HIDE DEF head, tail, bytes
<1>4. m \in Nat /\ n \in Nat
  BY <1>1, <1>2 DEF IsSeq
<1>5. /\ Len(bytes) = m + n
      /\ \A i \in 1 .. m + n : bytes[i] = IF i <= m THEN head[i] ELSE tail[i - m]
  BY <1>1, <1>2, <1>3, Joined
<1> HIDE DEF m, n
<1>6. ASSUME NEW i \in 1 .. m PROVE bytes[i] = head[i]
  <2>1. i \in 1 .. m + n /\ i <= m
    BY <1>4
  <2> QED  BY <1>5, <2>1
<1>7. ASSUME NEW i \in 1 .. n PROVE bytes[m + i] = tail[i]
  <2>1. m + i \in 1 .. m + n /\ ~(m + i <= m) /\ (m + i) - m = i
    BY <1>4
  <2> QED  BY <1>5, <2>1
<1> QED  BY <1>1, <1>2, <1>4, <1>5, <1>6, <1>7 DEF head, tail, bytes, m, n

(* What the reader of an item looks at. *)
Reader(w) == SetPosition([ba EXCEPT !.little = w.little], w.at)

(* setPosition() and setisLittleEndian() change no byte, so the item is in front of the reader. *)
LEMMA ReaderFacts ==
  ASSUME ChainInv, NEW w, StandsIn(ba, w)
  PROVE  LET a == Reader(w)
         IN  /\ Fit(a) /\ a.position = w.at /\ a.size = ba.size /\ a.capacity = ba.capacity
             /\ a.little = w.little /\ StandsIn(a, w)
<1> DEFINE b == [ba EXCEPT !.little = w.little]
           a == Reader(w)
<1>1. /\ Fit(ba) /\ IsArray(ba) /\ ba.capacity = Base * Len(ba.blocks) /\ ba.size <= ba.capacity
      /\ ba.size \in Nat /\ ba.capacity \in Nat
  BY FitFacts DEF ChainInv, Fit, IsArray, Exact
<1>2. w.at \in Nat /\ w.length \in Nat /\ w.at + w.length <= ba.size /\ w.little \in BOOLEAN
  BY EncodedIsSeq DEF StandsIn
<1>3. /\ DOMAIN b = DOMAIN ba /\ b.blocks = ba.blocks /\ b.cur = ba.cur /\ b.position = ba.position
      /\ b.size = ba.size /\ b.capacity = ba.capacity /\ b.little = w.little
  BY <1>1 DEF IsArray
<1>4. a = SetPosition(b, w.at)
  BY DEF Reader
<1> HIDE DEF a, b
<1>5. IsArray(b) /\ b.capacity = Base * Len(b.blocks) /\ b.size <= b.capacity /\ w.at \in 0 .. b.capacity
  BY <1>1, <1>2, <1>3 DEF IsArray
<1>6. /\ Fit(a) /\ a.position = w.at /\ a.size = Larger(b.size, w.at) /\ a.capacity = b.capacity
      /\ a.little = b.little /\ \A q : Byte(a, q) = Byte(b, q)
  BY <1>4, <1>5, SetPositionFacts
<1>7. a.size = ba.size
  BY <1>1, <1>2, <1>3, <1>6 DEF Larger
<1>8. \A q : Byte(a, q) = Byte(ba, q)
  BY <1>3, <1>6 DEF Byte
<1>9. StandsIn(a, w)
  BY <1>1, <1>7, <1>8, StaysWhereKept
<1> QED  BY <1>3, <1>6, <1>7, <1>9 DEF a

(* What is passed is known byte by byte. *)
LEMMA PassedIs ==
  ASSUME NEW a, Fit(a), NEW n \in Nat, a.position + n <= a.size,
         NEW s, IsSeq(s), Len(s) = n, \A i \in 1 .. n : Byte(a, a.position + i - 1) = s[i]
  PROVE  Passed(a, n) = s
<1>1. a.size <= a.capacity /\ a.capacity \in Nat /\ a.size \in Nat /\ a.position \in Nat
  BY FitFacts DEF Fit, IsArray, Exact
<1>2. a.position + n <= a.capacity
  BY <1>1
<1>3. Passed(a, n) = [i \in 1 .. n |-> Byte(a, a.position + i - 1)]
  BY <1>2, PassedBytes
<1>4. [i \in 1 .. n |-> Byte(a, a.position + i - 1)] = [i \in 1 .. n |-> s[i]]
  OBVIOUS
<1> QED  BY <1>3, <1>4 DEF IsSeq

(* The number is read: the reader stands behind it. *)
LEMMA NumberIsRead ==
  ASSUME ChainInv, NEW w, StandsIn(ba, w)
  PROVE  LET a == Reader(w)
             n == Len(Prefix(w.item, w.little))
         IN  /\ ~Throws(a, n)
             /\ Decoded(w) = [number |-> Said(w.item), rest |-> Read(a, n)]
<1> DEFINE a == Reader(w)
           head == Prefix(w.item, w.little)
           n == Len(head)
           rest == a.size - a.position
           bytes == Buffers(a, MaxSize)
<1>1. /\ Fit(a) /\ a.position = w.at /\ a.size = ba.size /\ a.capacity = ba.capacity
      /\ a.little = w.little /\ StandsIn(a, w)
  BY ReaderFacts
<1>2. /\ w.item \in Items /\ w.at \in Nat /\ w.length = Len(Encoded(w.item, w.little))
      /\ w.at + w.length <= a.size
      /\ \A i \in 1 .. w.length : Byte(a, w.at + i - 1) = Encoded(w.item, w.little)[i]
  BY <1>1, Zenon DEF StandsIn
<1>3. /\ IsSeq(head) /\ n \in Nat /\ w.length \in Nat /\ n <= w.length
      /\ \A i \in 1 .. n : Encoded(w.item, w.little)[i] = head[i]
  <2> DEFINE m == Len(TextOf(w.item))
  <2>1. /\ IsSeq(head) /\ n \in Nat /\ m \in Nat
        /\ Len(Encoded(w.item, w.little)) = n + m
        /\ \A i \in 1 .. n : Encoded(w.item, w.little)[i] = head[i]
    BY <1>2, EncodedParts, ZenonT(60)
  <2>2. w.length = n + m
    BY <1>2, <2>1, Zenon
  <2> HIDE DEF n, m, head
  <2> QED  BY <2>1, <2>2
<1> HIDE DEF a, head, n
<1>4. /\ a.size \in Nat /\ a.capacity \in Nat /\ a.size <= a.capacity /\ rest \in Nat /\ n <= rest
      /\ a.position \in Nat /\ a.size <= MaxSize /\ w.at + n <= a.size
  <2>1. a.size \in Nat /\ a.size <= a.capacity /\ a.size <= MaxSize /\ a.capacity \in Nat
    BY <1>1, FitFacts DEF ChainInv, Fit, IsArray, Exact
  <2> QED  BY <1>1, <1>2, <1>3, <2>1
<1>5. \A i \in 1 .. n : Byte(a, w.at + i - 1) = head[i]
  <2>1. \A i \in 1 .. n : i \in 1 .. w.length
    BY <1>3
  <2> QED  BY <1>2, <1>3, <2>1
<1>6. Passed(a, n) = head
  BY <1>1, <1>3, <1>4, <1>5, PassedIs DEF n
<1>7. bytes = [i \in 1 .. rest |-> Byte(a, w.at + i - 1)]
  <2>1. bytes = Passed(a, rest)
    BY <1>4, ByteArrayAssumption DEF Buffers, Smaller
  <2>2. a.position + rest <= a.capacity
    BY <1>1, <1>4
  <2> HIDE DEF rest, bytes
  <2>3. Passed(a, rest) = [i \in 1 .. rest |-> Byte(a, a.position + i - 1)]
    BY <1>1, <1>4, <2>2, PassedBytes
  <2> QED  BY <1>1, <2>1, <2>3, Zenon
<1>8. IsSeq(bytes) /\ Len(bytes) = rest /\ \A i \in 1 .. n : bytes[i] = head[i]
  <2>1. bytes = [i \in 1 .. rest |-> bytes[i]]
    <3> HIDE DEF bytes
    <3> QED  BY <1>7
  <2>2. \A i \in 1 .. n : bytes[i] = Byte(a, w.at + i - 1)
    <3>1. \A i \in 1 .. n : i \in 1 .. rest
      BY <1>3, <1>4
    <3> HIDE DEF bytes, rest
    <3> QED  BY <1>7, <3>1
  <2> HIDE DEF bytes, rest
  <2>3. IsSeq(bytes) /\ Len(bytes) = rest
    BY <1>4, <2>1, MadeSeq
  <2> QED  BY <1>5, <2>2, <2>3
<1> HIDE DEF bytes, rest
<1>9. Taken(w.item, bytes) = n /\ Understood(w.item, head, w.little) = Said(w.item)
  BY <1>2, <1>4, <1>8, PrefixReadsBack DEF head, n
<1>10. ~Throws(a, n)
  BY <1>3, <1>4 DEF Throws, rest
<1>11. Decoded(w) = [number |-> Said(w.item), rest |-> Read(a, n)]
  <2>1. w.item.kind \in {"fixed", "stringF"} => IntBytes = n
    BY <1>9 DEF Taken
  <2>2. w.item.kind \notin {"fixed", "stringF"} => VarintLength(bytes) = n
    BY <1>9 DEF Taken
  <2> DEFINE number == CASE w.item.kind \in {"fixed", "stringF"} ->
                              FixedValue(Passed(a, IntBytes), a.little)
                         [] w.item.kind = "varint" -> VarintValue(Passed(a, n))
                         [] OTHER -> Unzigzag(VarintValue(Passed(a, n)))
  <2>3. number = Understood(w.item, head, w.little)
    BY <1>1, <1>6, <2>1 DEF Understood
  <2>4. Decoded(w) = IF Throws(a, n) THEN [number |-> None, rest |-> a]
                     ELSE [number |-> number, rest |-> Read(a, n)]
    BY <2>1, <2>2 DEF Decoded, Reader, a, bytes
  <2> HIDE DEF number
  <2> QED  BY <1>9, <1>10, <2>3, <2>4
<1> QED  BY <1>10, <1>11 DEF a, n, head

(* And so is the text behind it. *)
LEMMA TextIsRead ==
  ASSUME ChainInv, NEW w, StandsIn(ba, w), IsString(w.item)
  PROVE  LET r == Read(Reader(w), Len(Prefix(w.item, w.little)))
         IN  /\ ~Throws(r, Said(w.item))
             /\ r.cur = None => w.item.value = <<>> /\ w.at + w.length = ba.capacity
             /\ r.cur # None => Passed(r, Said(w.item)) = SubSeq(w.item.value, 1, Said(w.item))
<1> DEFINE a == Reader(w)
           n == Len(Prefix(w.item, w.little))
           r == Read(a, n)
           text == w.item.value
           m == Len(text)
           k == Said(w.item)
           part == SubSeq(text, 1, k)
           bytes == Encoded(w.item, w.little)
<1>1. /\ Fit(a) /\ a.position = w.at /\ a.size = ba.size /\ a.capacity = ba.capacity
      /\ StandsIn(a, w) /\ ~Throws(a, n)
  BY ReaderFacts, NumberIsRead
<1>2. /\ w.item \in Items /\ w.at \in Nat /\ w.length = Len(bytes) /\ w.at + w.length <= a.size
      /\ \A i \in 1 .. w.length : Byte(a, w.at + i - 1) = bytes[i]
  BY <1>1, Zenon DEF StandsIn
<1>3. /\ n \in Nat /\ IsSeq(text) /\ m \in Nat /\ w.length = n + m
      /\ \A i \in 1 .. m : bytes[n + i] = text[i]
  <2> DEFINE tail == TextOf(w.item)
  <2>1. tail = text
    BY DEF TextOf
  <2>2. /\ n \in Nat /\ IsSeq(tail) /\ Len(tail) \in Nat /\ Len(bytes) = n + Len(tail)
        /\ \A i \in 1 .. Len(tail) : bytes[n + i] = tail[i]
    BY <1>2, EncodedParts, Zenon
  <2> HIDE DEF tail, text, bytes, n
  <2> QED  BY <1>2, <2>1, <2>2, Zenon
<1>4. k \in Nat /\ k <= m
  BY <1>2, <1>3, SaidFits
<1> HIDE DEF a, n, k, bytes
<1>5. /\ Fit(r) /\ r.size = a.size /\ r.position = a.position + n /\ r.blocks = a.blocks
  BY <1>1, <1>3, ReadFacts
<1>6. \A q : Byte(r, q) = Byte(a, q)
  BY <1>5 DEF Byte
<1> HIDE DEF r
<1>7. /\ r.capacity = a.capacity /\ r.capacity \in Nat /\ r.size <= r.capacity /\ r.size \in Nat
      /\ (r.cur = None <=> r.position = r.capacity)
  <2>1. r.capacity = Base * Len(r.blocks) /\ a.capacity = Base * Len(a.blocks) /\ r.size <= r.capacity
        /\ r.size \in Nat
    BY <1>1, <1>5 DEF Fit, IsArray, Exact
  <2> QED  BY <1>5, <2>1, FitFacts
<1>8. w.at + n + m <= r.size /\ r.position = w.at + n
  BY <1>1, <1>2, <1>3, <1>5
<1> HIDE DEF m
<1>9. ~Throws(r, k)
  BY <1>2, <1>3, <1>4, <1>7, <1>8 DEF Throws
<1>10. ASSUME r.cur = None PROVE text = <<>> /\ w.at + w.length = ba.capacity
  <2>1. m = 0
    BY <1>2, <1>3, <1>7, <1>8, <1>10
  <2>2. text = <<>>
    BY <1>3, <2>1, KnownSeqs, SameSeq DEF m
  <2>3. w.at + w.length = ba.capacity
    BY <1>1, <1>2, <1>3, <1>7, <1>8, <1>10, <2>1
  <2> QED  BY <2>2, <2>3
<1>11. Passed(r, k) = part
  <2>1. IsSeq(part) /\ Len(part) = k /\ \A i \in 1 .. k : part[i] = text[i]
    <3>1. 1 \in 1 .. m + 1 /\ k \in 0 .. m /\ 1 <= k + 1
      BY <1>3, <1>4
    <3>2. /\ IsSeq(part) /\ Len(part) = k + 1 - 1
          /\ \A i \in 1 .. k + 1 - 1 : part[i] = text[1 + i - 1]
      BY <1>3, <3>1, Part, Zenon DEF m
    <3> HIDE DEF part
    <3>3. k + 1 - 1 = k /\ \A i \in 1 .. k : 1 + i - 1 = i
      BY <1>4
    <3> QED  BY <3>2, <3>3
  <2> HIDE DEF part
  <2>2. ASSUME NEW i \in 1 .. k PROVE Byte(r, r.position + i - 1) = part[i]
    <3>1. n + i \in 1 .. w.length /\ w.at + (n + i) - 1 = r.position + i - 1 /\ i \in 1 .. m
      BY <1>2, <1>3, <1>4, <1>8
    <3>2. Byte(r, w.at + (n + i) - 1) = bytes[n + i]
      BY <1>2, <1>6, <3>1
    <3>3. bytes[n + i] = text[i]
      BY <1>3, <3>1
    <3> QED  BY <2>1, <3>1, <3>2, <3>3
  <2>3. r.position + k <= r.size
    BY <1>2, <1>3, <1>4, <1>7, <1>8
  <2> QED  BY <1>4, <1>5, <2>1, <2>2, <2>3, PassedIs
<1> QED  BY <1>9, <1>10, <1>11 DEF r, a, n, k, part

(* ReadBack, for every size of blocks, groups and integers, every item and
   every series of calls: what was written and not written over is read as it
   was written, numbers in every encoding and byte order, texts up to what
   their length can say. *)
THEOREM WrittenIsReadBack == Spec => []ReadBack
<1>1. ChainInv /\ Stands => ReadBack
  <2> SUFFICES ASSUME ChainInv, Stands, NEW w \in written
               PROVE  LET d == Decoded(w)
                          length == Len(w.item.value) % Modulus
                      IN  IF ~IsString(w.item) THEN d.number = w.item.value
                          ELSE /\ d.number = length /\ ~Throws(d.rest, length)
                               /\ d.rest.cur = None =>
                                    w.item.value = <<>> /\ w.at + w.length = ba.capacity
                               /\ d.rest.cur # None =>
                                    Passed(d.rest, length) = SubSeq(w.item.value, 1, length)
    BY DEF ReadBack
  <2> DEFINE r == Read(Reader(w), Len(Prefix(w.item, w.little)))
             d == Decoded(w)
  <2>1. StandsIn(ba, w)
    BY DEF Stands
  <2>2. d = [number |-> Said(w.item), rest |-> r]
    BY <2>1, NumberIsRead
  <2> HIDE DEF d, r
  <2>3. d.number = Said(w.item) /\ d.rest = r
    BY <2>2
  <2>4. CASE ~IsString(w.item)
    BY <2>3, <2>4 DEF Said, d
  <2>5. CASE IsString(w.item)
    <3>1. Said(w.item) = Len(w.item.value) % Modulus
      BY <2>5 DEF Said
    <3>2. /\ ~Throws(r, Said(w.item))
          /\ r.cur = None => w.item.value = <<>> /\ w.at + w.length = ba.capacity
          /\ r.cur # None => Passed(r, Said(w.item)) = SubSeq(w.item.value, 1, Said(w.item))
      BY <2>1, <2>5, TextIsRead DEF r
    <3> QED  BY <2>3, <2>5, <3>1, <3>2, Zenon DEF d
  <2> QED  BY <2>4, <2>5
<1>2. Init => ChainInv /\ Stands
  BY InitFits, InitStands
<1>3. ChainInv /\ Stands /\ [Next]_vars => (ChainInv /\ Stands)'
  BY CallStep, StandsStep
<1> QED  BY <1>1, <1>2, <1>3, PTL DEF Spec
=============================================================================
