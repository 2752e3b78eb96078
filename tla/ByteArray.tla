----------------------------- MODULE ByteArray -----------------------------
(***************************************************************************)
(* ByteArray of src/src/ByteArray: a chain of blocks of Base bytes with a  *)
(* position, and the encodings it writes and reads.  An object is a record *)
(* of its members:                                                         *)
(*   blocks     the chain from m_root, each block a function of offsets    *)
(*   cur        m_cur as an index in the chain, None for nullptr           *)
(*   position, size, capacity, little (m_isLittleSys)                      *)
(*   fault      whether a call has looked at a null block                  *)
(*                                                                         *)
(* A byte has Group + 1 bits and a fixed integer IntBytes bytes, so that   *)
(* the shifts of the code keep their shape (32 bits in groups of 7 leave 4 *)
(* over, as 8 in groups of 3 leave 2) while TLC can count to the end.      *)
(***************************************************************************)
EXTENDS Integers, Sequences, FiniteSetsExt

CONSTANTS
  Base,        \* m_baseSize
  Group,       \* bits of a varint group (7)
  IntBytes,    \* sizeof of the integers
  Items,       \* what callers write: [kind, value]
  Received,    \* what the socket delivers at once: sequences of bytes
  MaxSize,     \* bound: the length of what is written
  Junk,        \* an uninitialised byte
  None         \* nullptr

\* writeString..() writes a length and the bytes of the text behind it.
IsString(item) == item.kind \in {"stringF", "stringVint"}

ASSUME ByteArrayAssumption ==
  /\ Base \in Nat \ {0} /\ Group \in Nat \ {0} /\ IntBytes \in Nat \ {0}
  /\ None \notin Nat /\ Junk \notin Nat /\ MaxSize \in Nat
  /\ \A item \in Items :
       /\ item.kind \in {"fixed", "varint", "zigzag", "stringF", "stringVint"}
       /\ IsString(item) => item.value \in Seq(Nat)
  /\ Received \subseteq Seq(Nat)

VARIABLES
  ba,          \* the object
  out,         \* the bytes of the last call, when it was a raw read
  written      \* the items that still stand where they were written

vars == <<ba, out, written>>

\* b to the power of n.
Power(b, n) == LET p[i \in Nat] == IF i = 0 THEN 1 ELSE b * p[i - 1] IN p[n]

Half == Power(2, Group)               \* what a varint group counts to
Radix == 2 * Half                     \* what a byte counts to
Modulus == Power(Radix, IntBytes)     \* what an integer counts to

\* The types of the arguments, and of size(): no text is as long as half of what
\* 64 bits count to, but the length of writeStringF16() may be too short for one.
ASSUME ItemsAssumption ==
  \A item \in Items :
    /\ item.kind \in {"fixed", "varint"} => item.value \in 0 .. Modulus - 1
    /\ item.kind = "zigzag" => item.value \in -(Modulus \div 2) .. (Modulus \div 2) - 1
    /\ item.kind = "stringVint" => Len(item.value) < Modulus \div 2

Larger(m, n) == IF m > n THEN m ELSE n
Smaller(m, n) == IF m < n THEN m ELSE n

(***************************************************************************)
(* The chain of blocks.                                                    *)
(***************************************************************************)
BlockOf(byte) == [o \in 0 .. Base - 1 |-> byte]
NewArray(little) ==
  [blocks |-> <<BlockOf(Junk)>>, cur |-> 1, position |-> 0, size |-> 0, capacity |-> Base,
   little |-> little, fault |-> FALSE]

Offset(a) == a.position % Base

\* m_cur moves on from a block whose last byte has been passed.
IfAny(a, k) == IF k \in DOMAIN a.blocks THEN k ELSE None

\* The walk over n bytes from the current block: what it passes, where it ends.
Passed(a, n) ==
  [i \in 1 .. n |-> LET k == Offset(a) + i - 1
                    IN  a.blocks[a.cur + (k \div Base)][k % Base]]
CurAfter(a, n) == IfAny(a, a.cur + ((Offset(a) + n) \div Base))

\* The same walk, storing.
Stored(a, bytes) ==
  LET put(b, o) == LET i == (b - a.cur) * Base + o - Offset(a) + 1
                   IN  IF i \in DOMAIN bytes THEN bytes[i] ELSE a.blocks[b][o]
  IN  [b \in DOMAIN a.blocks |-> [o \in 0 .. Base - 1 |-> put(b, o)]]

Missing(a, n) ==
  LET left == a.capacity - a.position
  IN  IF left >= n THEN 0 ELSE (n - left + Base - 1) \div Base

(* Mutant of AddCapacity: m_cur is left null when the chain was full. *)
AddCapacityForgets(a, n) ==
  [a EXCEPT !.blocks = @ \o [i \in 1 .. Missing(a, n) |-> BlockOf(Junk)],
            !.capacity = @ + (Missing(a, n) * Base),
            !.cur = IF Missing(a, n) > 0 /\ a.capacity = a.position THEN Len(a.blocks) ELSE @]

AddCapacity(a, n) ==
  [a EXCEPT !.blocks = @ \o [i \in 1 .. Missing(a, n) |-> BlockOf(Junk)],
            !.capacity = @ + (Missing(a, n) * Base),
            !.cur = IF Missing(a, n) > 0 /\ a.capacity = a.position
                    THEN Len(a.blocks) + 1 ELSE @]

Write(a, bytes) ==
  LET g == AddCapacity(a, Len(bytes))
      end == a.position + Len(bytes)
  IN  IF bytes = <<>> THEN a
      ELSE [g EXCEPT !.blocks = Stored(g, bytes), !.cur = CurAfter(g, Len(bytes)),
                     !.position = end, !.size = Larger(@, end)]

\* read() throws beyond the size; a read of no bytes looks at the current block too.
Throws(a, n) == n > a.size - a.position
Read(a, n) ==
  IF a.cur = None THEN [a EXCEPT !.fault = TRUE]
  ELSE [a EXCEPT !.position = @ + n, !.cur = CurAfter(a, n)]

(* Mutant of SetPosition: at the end of a block the cursor stays in it. *)
SetPositionStays(a, p) ==
  [a EXCEPT !.position = p, !.size = Larger(@, p),
            !.cur = IF p = 0 THEN 1 ELSE ((p - 1) \div Base) + 1]

\* The walk from the root steps while more than a block is left, then once more when
\* exactly one is.
SetPosition(a, p) ==
  LET steps == IF p = 0 THEN 0 ELSE (p - 1) \div Base
      whole == p - (steps * Base) = Base
  IN  [a EXCEPT !.position = p, !.size = Larger(@, p),
                !.cur = IfAny(a, IF whole THEN steps + 2 ELSE steps + 1)]

\* clear() keeps the first block and zeroes it.
Clear(a) == [NewArray(a.little) EXCEPT !.blocks = <<BlockOf(0)>>, !.fault = a.fault]

(***************************************************************************)
(* Views: the bytes that follow a position.                                *)
(***************************************************************************)
\* getReadBuffers(buffers, len, position) walks from the root.
BuffersAt(a, len, p) ==
  [i \in 1 .. Smaller(len, a.size - p) |->
     a.blocks[((p + i - 1) \div Base) + 1][(p + i - 1) % Base]]

\* toString(), getReadBuffers(buffers, len): from the current block.
Buffers(a, len) == Passed(a, Smaller(len, a.size - a.position))

\* writeToFile(): the first piece is cut by the offset even when it would not have
\* reached the end of its block.
FileBytes(a) ==
  LET rest == a.size - a.position
      first == Smaller(rest, Base) - Offset(a)
  IN  [i \in 1 .. rest |->
         IF i <= first THEN a.blocks[a.cur][Offset(a) + i - 1]
         ELSE a.blocks[a.cur + 1 + ((i - first - 1) \div Base)][(i - first - 1) % Base]]

(***************************************************************************)
(* Encodings.                                                              *)
(***************************************************************************)
Digit(v, radix, i) == (v \div Power(radix, i - 1)) % radix

\* Value of digits, the least significant first.
Number(digits, radix) ==
  LET sum[n \in 0 .. Len(digits)] ==
        IF n = 0 THEN 0 ELSE sum[n - 1] + (digits[n] * Power(radix, n - 1))
  IN  sum[Len(digits)]

\* writeFint..(), writeFuint..(): the machine is little-endian, byteSwap() reverses.
Swapped(bytes, little) ==
  IF little THEN bytes ELSE [i \in DOMAIN bytes |-> bytes[Len(bytes) + 1 - i]]
Fixed(v, little) == Swapped([i \in 1 .. IntBytes |-> Digit(v, Radix, i)], little)
FixedValue(bytes, little) == Number(Swapped(bytes, little), Radix)

(* Mutant of Varint: the comparison lets a full group through as the last. *)
VarintShort(v) ==
  LET n == 1 + Cardinality({k \in 1 .. IntBytes * (Group + 1) : v > Power(Half, k)})
  IN  [i \in 1 .. n |-> Digit(v, Half, i) + (IF i < n THEN Half ELSE 0)]

\* writeUint32(), writeUint64(): groups, all but the last with the top bit set.
Varint(v) ==
  LET n == 1 + Cardinality({k \in 1 .. IntBytes * (Group + 1) : v >= Power(Half, k)})
  IN  [i \in 1 .. n |-> Digit(v, Half, i) + (IF i < n THEN Half ELSE 0)]

\* readUint32(), readUint64(): byte after byte while the top bit is set, at most as
\* many as the shift stays below the width; what is shifted out is lost.
Rounds == ((IntBytes * (Group + 1)) + Group - 1) \div Group
VarintLength(bytes) ==
  LET last == {i \in 1 .. Smaller(Rounds, Len(bytes)) : bytes[i] \in 0 .. Half - 1}
  IN  IF last = {} THEN Rounds ELSE Min(last)
VarintValue(bytes) ==
  Number([i \in DOMAIN bytes |-> bytes[i] % Half], Half) % Modulus

\* (v << 1) ^ (v >> 31) and (u >> 1) ^ -(u & 1) on integers of the width.
Zigzag(v) ==
  IF v < 0 THEN (Modulus - 1) - ((2 * v) % Modulus) ELSE (2 * v) % Modulus
Unzigzag(u) ==
  LET w == IF u % 2 = 1 THEN (Modulus - 1) - (u \div 2) ELSE u \div 2
  IN  IF w >= Modulus \div 2 THEN w - Modulus ELSE w

\* What each kind of item writes: its own bytes, or its length and then its bytes.
Prefix(item, little) ==
  CASE item.kind = "fixed"     -> Fixed(item.value, little)
    [] item.kind = "varint"    -> Varint(item.value)
    [] item.kind = "zigzag"    -> Varint(Zigzag(item.value))
    [] item.kind = "stringF"   -> Fixed(Len(item.value) % Modulus, little)
    [] item.kind = "stringVint" -> Varint(Zigzag(Len(item.value)))
Encoded(item, little) == Prefix(item, little) \o (IF IsString(item) THEN item.value ELSE <<>>)

(***************************************************************************)
(* The operations.                                                         *)
(***************************************************************************)
Init ==
  /\ \E little \in BOOLEAN : ba = NewArray(little)
  /\ out = <<>> /\ written = {}

Untouched(at, n) == {w \in written : w.at + w.length <= at \/ w.at >= at + n}

\* writeFint..(), writeInt..(), writeUint..(), writeString..(): one write of the
\* number, and one of the text.
Put(item) ==
  LET head == Prefix(item, ba.little)
      after == IF IsString(item) THEN Write(Write(ba, head), item.value) ELSE Write(ba, head)
      n == after.position - ba.position
  IN  /\ after.position <= MaxSize
      /\ ba' = after
      /\ written' = Untouched(ba.position, n) \union
           {[at |-> ba.position, length |-> n, item |-> item, little |-> ba.little]}
      /\ out' = <<>>

\* read(), of which every typed read is a series.
Get(n) ==
  /\ ~Throws(ba, n)
  /\ ba' = Read(ba, n)
  /\ out' = IF ba.cur = None THEN <<>> ELSE Passed(ba, n)
  /\ UNCHANGED written

Seek(p) ==
  /\ p <= ba.capacity
  /\ ba' = SetPosition(ba, p)
  /\ out' = <<>> /\ UNCHANGED written

Wipe == ba' = Clear(ba) /\ written' = {} /\ out' = <<>>

SetEndian(little) == ba' = [ba EXCEPT !.little = little] /\ out' = <<>> /\ UNCHANGED written

\* SocketStream::read(ba, n): room for n bytes, of which recv() fills some.
Recv(n, text) ==
  LET g == AddCapacity(ba, n)
  IN  /\ ba.position + n <= MaxSize /\ Len(text) <= n
      /\ ba' = SetPosition([g EXCEPT !.blocks = Stored(g, text)], ba.position + Len(text))
      /\ written' = Untouched(ba.position, Len(text))
      /\ out' = <<>>

\* SocketStream::write(ba, n), of which send() takes some.
Send(n) ==
  /\ n > 0 /\ ~Throws(ba, n)
  /\ ba' = SetPosition(ba, ba.position + n)
  /\ out' = <<>> /\ UNCHANGED written

Next ==
  /\ ~ba.fault
  /\ \/ \E item \in Items : Put(item)
     \/ \E n \in 0 .. MaxSize : Get(n)
     \/ \E p \in 0 .. MaxSize : Seek(p)
     \/ Wipe
     \/ \E little \in BOOLEAN : SetEndian(little)
     \/ \E n \in 1 .. MaxSize, text \in Received : Recv(n, text)
     \/ \E n \in 1 .. MaxSize : Send(n)

Spec == Init /\ [][Next]_vars

(***************************************************************************)
(* Properties.                                                             *)
(***************************************************************************)
Contents(a) == BuffersAt(a, a.size, 0)

(* m_cur, m_position and m_capacity are kept by hand in write(), read(),    *)
(* setPosition(), addCapacity() and clear(): the cursor is the block that   *)
(* holds the position, and null exactly when the chain is full.             *)
CursorExact ==
  /\ ba.position <= ba.size /\ ba.size <= ba.capacity
  /\ ba.capacity = Base * Len(ba.blocks)
  /\ ba.cur = IfAny(ba, (ba.position \div Base) + 1)

\* What the reader of an item meets after setPosition(): the value of the number in
\* front, and the object that number has been read from.
Decoded(w) ==
  LET a == SetPosition([ba EXCEPT !.little = w.little], w.at)
      bytes == Buffers(a, MaxSize)
      n == IF w.item.kind \in {"fixed", "stringF"} THEN IntBytes ELSE VarintLength(bytes)
      number == CASE w.item.kind \in {"fixed", "stringF"} ->
                         FixedValue(Passed(a, IntBytes), a.little)
                  [] w.item.kind = "varint" -> VarintValue(Passed(a, n))
                  [] OTHER -> Unzigzag(VarintValue(Passed(a, n)))
  IN  IF Throws(a, n) THEN [number |-> None, rest |-> a]
      ELSE [number |-> number, rest |-> Read(a, n)]

(* Whatever was written across whatever blocks, after whatever other calls, *)
(* reads back as it was as long as nothing was written over it: numbers in  *)
(* both byte orders and groups, strings behind their lengths, cut to what   *)
(* the length could say.  An empty string whose length ends the last block  *)
(* is the exception: the read of no bytes looks at a null block.            *)
ReadBack ==
  \A w \in written :
    LET d == Decoded(w)
        length == Len(w.item.value) % Modulus
    IN  IF ~IsString(w.item) THEN d.number = w.item.value
        ELSE /\ d.number = length /\ ~Throws(d.rest, length)
             /\ d.rest.cur = None => w.item.value = <<>> /\ w.at + w.length = ba.capacity
             /\ d.rest.cur # None =>
                  Passed(d.rest, length) = SubSeq(w.item.value, 1, length)

(* toString(), both getReadBuffers() and writeToFile() show the bytes of    *)
(* the store from the position on.  writeToFile() does so only from the     *)
(* start of a block or with a block's worth of bytes to come.               *)
ViewsAgree ==
  LET rest == SubSeq(Contents(ba), ba.position + 1, ba.size)
  IN  /\ Buffers(ba, MaxSize) = rest
      /\ BuffersAt(ba, MaxSize, ba.position) = rest
      /\ Offset(ba) = 0 \/ Len(rest) >= Base => FileBytes(ba) = rest

(* A chain of blocks is, to its callers, one sequence of bytes with a       *)
(* position (ByteStore): every call does to it what it says.                *)
Store == INSTANCE ByteStore WITH
  Texts <- {Encoded(item, little) : item \in Items, little \in BOOLEAN} \union Received,
  data <- Contents(ba), pos <- ba.position
ImplementsByteStore == Store!Spec
=============================================================================
