----------------------------- MODULE HttpBytes -----------------------------
(***************************************************************************)
(* What the two ragel parsers of src/src/Http share: the bytes they tell   *)
(* apart, and transition tables over them.  A printable byte is the string *)
(* of that character; bytes that no state of either parser distinguishes   *)
(* are represented by one of them:                                         *)
(*   "!" also stands for $ & ' * _ ~       "(" also for ) , ; and =        *)
(*   "|" also for the backquote        "x80" for " \ and 80 to ff        *)
(*   "VT" also for FF                      "x01" for 07, 08 and 0e to 1f   *)
(* In the chunk grammar ";" and "=" differ, so these two stay themselves.  *)
(***************************************************************************)
EXTENDS Naturals, Sequences

Digit == {"0", "1", "2", "3", "4", "5", "6", "7", "8", "9"}
UpperHex == {"A", "B", "C", "D", "E", "F"}
LowerHex == {"a", "b", "c", "d", "e", "f"}
Upper == UpperHex \cup {"G", "H", "I", "J", "K", "L", "M", "N", "O", "P", "Q",
                        "R", "S", "T", "U", "V", "W", "X", "Y", "Z"}
Lower == LowerHex \cup {"g", "h", "i", "j", "k", "l", "m", "n", "o", "p", "q",
                        "r", "s", "t", "u", "v", "w", "x", "y", "z"}
Alpha == Upper \cup Lower
XDigit == Digit \cup UpperHex \cup LowerHex
Control == {"x01", "x02", "x03", "x04", "x05", "x06"}
Blank == {"SP", "TAB"}
Mark == {"!", "-", "."}        \* unreserved punctuation and its like
Delim == {"(", ";", "=", "+"}  \* sub_delims that are not in Mark's class

Byte == Alpha \cup Digit \cup Control \cup Blank \cup Mark \cup Delim \cup
        {"NUL", "LF", "VT", "CR", "|", "x80", "#", "%", "/", ":", "<", ">",
         "?", "@", "[", "]", "^", "{", "}", "DEL"}

\* One entry of a table: in a state of S, a byte of on leads to state to after
\* the calls and marks of do, in order.  A state is a tuple: a name and counters.
Row(S, on, to, do) == {[from |-> s, on |-> on, to |-> to, do |-> do] : s \in S}
Go(S, on, to) == Row(S, on, to, <<>>)
At(name) == <<name, 0>>

\* st0: no row for the byte.
Fail == [to |-> At("error"), do |-> <<>>]

\* A table as a function of state and byte.
Compile(rows) ==
  [s \in {r.from : r \in rows} \cup {r.to : r \in rows} |->
     LET here == {r \in rows : r.from = s}
     IN  [b \in Byte |->
            LET match == {r \in here : b \in r.on}
            IN  IF match = {} THEN Fail
                ELSE LET r == CHOOSE r \in match : TRUE
                     IN  [to |-> r.to, do |-> r.do]]]

\* No two rows of a table compete for a byte.
Deterministic(rows) ==
  \A r, q \in rows : r # q /\ r.from = q.from => r.on \cap q.on = {}
=============================================================================
