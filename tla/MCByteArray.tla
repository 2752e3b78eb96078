--------------------------- MODULE MCByteArray ---------------------------
(***************************************************************************)
(* ByteArray with blocks of two bytes of four bits: every item but the     *)
(* shortest spans blocks, and its end falls on and off their borders.      *)
(***************************************************************************)
EXTENDS ByteArray

MCItems ==
  {[kind |-> "fixed", value |-> 30], [kind |-> "varint", value |-> 8],
   [kind |-> "zigzag", value |-> -128],
   [kind |-> "stringF", value |-> <<>>], [kind |-> "stringVint", value |-> <<9, 5>>]}
MCReceived == {<<12, 1>>}
==========================================================================
