----------------------------- MODULE MCNullTie -----------------------------
(***************************************************************************)
(* Two ties of the same two producers, and a wait for one of these.        *)
(***************************************************************************)
EXTENDS NullTie

BothOps == [k \in Call |-> IF k \in Tie THEN <<"a", "b">> ELSE <<"a">>]
=============================================================================
