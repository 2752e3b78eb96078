---------------------------- MODULE MCIOManager ----------------------------
(* Small instances of IOManager for TLC. *)
EXTENDS IOManager

NoPin == [c \in Task |-> None]
=============================================================================
