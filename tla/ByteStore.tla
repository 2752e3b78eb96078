----------------------------- MODULE ByteStore -----------------------------
(***************************************************************************)
(* What ByteArray promises whoever serialises with it: one sequence of     *)
(* bytes and a position in it.  Nothing of blocks shows.                   *)
(***************************************************************************)
EXTENDS Naturals, Sequences

CONSTANTS
  Texts,       \* what is written at once
  MaxSize      \* bound: the length of the sequence

VARIABLES
  data,        \* the bytes
  pos,         \* the position, 0 being before the first byte
  out          \* what the last call returned

vars == <<data, pos, out>>

Init == data = <<>> /\ pos = 0 /\ out = <<>>

\* Writing replaces what follows the position and extends the sequence.
Write(text) ==
  /\ pos' = pos + Len(text)
  /\ data' = SubSeq(data, 1, pos) \o text \o SubSeq(data, pos' + 1, Len(data))
  /\ out' = <<>>

Read(n) ==
  /\ pos + n <= Len(data)
  /\ out' = SubSeq(data, pos + 1, pos + n)
  /\ pos' = pos + n
  /\ UNCHANGED data

\* Moving beyond the end makes room whose bytes may be any.
Move(p) ==
  /\ pos' = p
  /\ Len(data') = IF p > Len(data) THEN p ELSE Len(data)
  /\ \A i \in 1 .. Len(data) : data'[i] = data[i]
  /\ out' = <<>>

Clear == data' = <<>> /\ pos' = 0 /\ out' = <<>>

Next ==
  \/ \E text \in Texts : Write(text)
  \/ \E n \in 0 .. MaxSize : Read(n)
  \/ \E p \in 0 .. MaxSize : Move(p)
  \/ Clear

Spec == Init /\ [][Next]_vars
=============================================================================
