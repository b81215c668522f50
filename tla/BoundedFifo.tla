---------------------------- MODULE BoundedFifo ----------------------------
(***************************************************************************)
(* What the buffer of a channel promises: a first-in first-out queue of at *)
(* most Capacity values.  `out` is the value handed over by the last Pop.  *)
(* Once `dying` is set the owner is destroying the channel and values are  *)
(* only dropped from the front.  ValueBuffer implements this module.       *)
(***************************************************************************)
EXTENDS Naturals, Sequences

CONSTANTS
  Capacity,   \* the most values the queue may hold
  Value,      \* the values that may be stored
  Nothing     \* `out` before the first Pop

VARIABLES queue, out, dying

fifoVars == <<queue, out, dying>>

Init ==
  /\ queue = <<>>
  /\ out = Nothing
  /\ dying = FALSE

Push(v) ==
  /\ ~dying
  /\ Len(queue) < Capacity
  /\ queue' = Append(queue, v)
  /\ UNCHANGED <<out, dying>>

Pop ==
  /\ ~dying
  /\ queue # <<>>
  /\ out' = Head(queue)
  /\ queue' = Tail(queue)
  /\ UNCHANGED dying

Kill ==
  /\ ~dying
  /\ dying' = TRUE
  /\ UNCHANGED <<queue, out>>

Drop ==
  /\ dying
  /\ queue # <<>>
  /\ queue' = Tail(queue)
  /\ UNCHANGED <<out, dying>>

Next ==
  \/ \E v \in Value : Push(v)
  \/ Pop
  \/ Kill
  \/ Drop

Spec == Init /\ [][Next]_fifoVars
=============================================================================
