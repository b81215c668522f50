----------------------------- MODULE ErrorText -----------------------------
(***************************************************************************)
(* errors::channel_category: the message of an error code, as a string and *)
(* in a buffer that the caller offers.  A character of a message is the    *)
(* pair of the message and its place; only lengths matter.                 *)
(***************************************************************************)
EXTENDS Naturals, Sequences

CONSTANTS
  Codes,     \* the codes that are asked for, valid or not
  MaxLen     \* bounds the size of the buffer

VARIABLES
  code,      \* the code ev
  len,       \* the size of the buffer that is offered
  cells,     \* the memory of the buffer, and the cell behind it
  returned   \* "nothing" yet, "source" or "buffer"

vars == <<code, len, cells, returned>>

\* The lengths of "Invalid code", "Channel is null", "Channel is closed".
Messages == <<12, 15, 17>>

\* get_message: the place of the message in the table.
Index(ev) == IF ev < 1 \/ ev >= Len(Messages) THEN 1 ELSE ev + 1

\* message(ev): the characters of the string.
Text(ev) == [i \in 1 .. Messages[Index(ev)] |-> <<Index(ev), i>>]

\* to_copy, for a buffer of n cells.
Copied(ev, n) == IF n - 1 < Len(Text(ev)) THEN n - 1 ELSE Len(Text(ev))

Init ==
  /\ code \in Codes
  /\ len \in 0 .. MaxLen
  /\ cells = [i \in 1 .. MaxLen + 1 |-> "old"]
  /\ returned = "nothing"

\* message(ev, buffer, 0)
ReturnSource ==
  /\ returned = "nothing" /\ len = 0
  /\ returned' = "source"
  /\ UNCHANGED <<code, len, cells>>

\* message(ev, buffer, len): copy, then buffer[len] = '\0'.
Fill ==
  /\ returned = "nothing" /\ len > 0
  /\ cells' = [i \in DOMAIN cells |->
                 IF i = len + 1 THEN "nul"
                 ELSE IF i <= Copied(code, len) THEN Text(code)[i] ELSE cells[i]]
  /\ returned' = "buffer"
  /\ UNCHANGED <<code, len>>

Next == ReturnSource \/ Fill \/ (returned # "nothing" /\ UNCHANGED vars)

Spec == Init /\ [][Next]_vars

-----------------------------------------------------------------------------
\* "The string_view's data actually points to a c-style string", and what is
\* returned in place of it is one as well: it ends in a terminator, inside the
\* buffer, after its characters (error_code.hpp:51-60).
IsCString ==
  returned = "buffer" =>
    \E n \in 1 .. len : cells[n] = "nul" /\ \A i \in 1 .. n - 1 : cells[i] # "old"
=============================================================================
