------------------------------ MODULE NullTie ------------------------------
(***************************************************************************)
(* Waiting for operations that may have no implementation.  An operation   *)
(* that was moved into a tie, as in tie(std::move(op), ...), is left       *)
(* without one, and every later tie that is made of it has a null leg.     *)
(* check_for_null looks for such legs before a tie submits its own;        *)
(* async_wait of a single producer looks at its own implementation.        *)
(* (Channels always have one: their destructor suppresses the move.)       *)
(*                                                                         *)
(* What waits in a channel may be matched at any time, by another thread.  *)
(***************************************************************************)
EXTENDS Integers, Sequences, FiniteSets

CONSTANTS
  Operation,   \* the operation objects: producers and consumers
  Tie,         \* the calls of async_wait on a tie, each on one of its own
  Plain,       \* the calls of async_wait on a producer
  Ops          \* Ops[k]: the operations that call k is made on, in order

VARIABLES
  impl,        \* the operations that have an implementation
  has,         \* has[k]: for each operation of k, whether it had one
  left,        \* left[k]: the operations of k that are still to be submitted
  queued,      \* the operations in queues: <<k, i>> is number i of k
  posted,      \* posted[k]: the invocations of the handler of k
  undefined    \* a null implementation was dereferenced

Call == Tie \cup Plain

vars == <<impl, has, left, queued, posted, undefined>>

\* check_for_null: one operation after the other.
RECURSIVE CheckFrom(_, _, _)
CheckFrom(h, i, r) ==
  IF i = Len(h) THEN r
  ELSE CheckFrom(h, i + 1,
         IF r.which # -1 /\ ~h[i + 1] THEN [ec |-> "null", which |-> i] ELSE r)

CheckForNull(h) == CheckFrom(h, 0, [ec |-> "ok", which |-> -1])

Init ==
  /\ impl = Operation
  /\ has = [k \in Call |-> <<>>]
  /\ left = [k \in Call |-> {}]
  /\ queued = {}
  /\ posted = [k \in Call |-> <<>>]
  /\ undefined = FALSE

\* tie(...): each operation is copied or moved into the tie.
MakeTie(k) ==
  /\ has[k] = <<>>
  /\ has' = [has EXCEPT ![k] = [i \in DOMAIN Ops[k] |-> Ops[k][i] \in impl]]
  /\ \E moved \in SUBSET {Ops[k][i] : i \in DOMAIN Ops[k]} : impl' = impl \ moved
  /\ UNCHANGED <<left, queued, posted, undefined>>

\* async_wait, up to the shuffled submission.
AsyncWait(k) ==
  LET r == CheckForNull(has[k]) IN
  /\ has[k] # <<>> /\ left[k] = {} /\ posted[k] = <<>>
  /\ \A e \in queued : e[1] # k
  /\ IF r.ec = "null"
     THEN posted' = [posted EXCEPT ![k] = <<r>>] /\ UNCHANGED left
     ELSE left' = [left EXCEPT ![k] = DOMAIN has[k]] /\ UNCHANGED posted
  /\ UNCHANGED <<impl, has, queued, undefined>>

\* basic_channel_producer::async_wait.
Wait(k) ==
  /\ has[k] = <<>>
  /\ has' = [has EXCEPT ![k] = <<Ops[k][1] \in impl>>]
  /\ IF Ops[k][1] \in impl
     THEN left' = [left EXCEPT ![k] = {1}] /\ UNCHANGED posted
     ELSE posted' = [posted EXCEPT ![k] = <<[ec |-> "null", which |-> 0]>>]
          /\ UNCHANGED left
  /\ UNCHANGED <<impl, queued, undefined>>

\* submit_shared_op, which asserts and dereferences the implementation.
Submit(k, i) ==
  /\ i \in left[k]
  /\ left' = [left EXCEPT ![k] = @ \ {i}]
  /\ undefined' = ~has[k][i]
  /\ queued' = IF has[k][i] THEN queued \cup {<<k, i>>} ELSE queued
  /\ UNCHANGED <<impl, has, posted>>

\* A partner comes, and the tie completes with operation i.
Match(k, i) ==
  /\ <<k, i>> \in queued
  /\ posted[k] = <<>>
  /\ posted' = [posted EXCEPT ![k] = <<[ec |-> "ok", which |-> i - 1]>>]
  /\ UNCHANGED <<impl, has, left, queued, undefined>>

\* Every call has been made; some may wait.
AllMade ==
  \A k \in Call : has[k] # <<>> /\ left[k] = {} /\
    (posted[k] # <<>> \/ \E e \in queued : e[1] = k)

Next ==
  \/ /\ ~undefined
     /\ \/ \E k \in Tie : MakeTie(k) \/ AsyncWait(k)
        \/ \E k \in Plain : Wait(k)
        \/ \E k \in Call : \E i \in DOMAIN has[k] : Submit(k, i) \/ Match(k, i)
        \/ AllMade /\ UNCHANGED vars
  \/ undefined /\ UNCHANGED vars

Spec == Init /\ [][Next]_vars

-----------------------------------------------------------------------------
EndsEarly(k) ==
  /\ left[k] = {}
  /\ \A e \in queued : e[1] # k
  /\ \A i \in DOMAIN posted[k] : posted[k][i].ec = "null"

HasNull(k) == \E i \in DOMAIN has[k] : ~has[k][i]

\* "Early completion if one of the ops has no state": a call with such an
\* operation submits none, and ends with channel_null and with that only,
\* whatever ties did to the operation before and do while the call waits
\* (tie.hpp:48-57, channel_producer.hpp:67-89).
NullEndsEarly == \A k \in Call : HasNull(k) => EndsEarly(k)
=============================================================================
