------------------------------- MODULE MCTies -------------------------------
(***************************************************************************)
(* Ties, for TLC.  Three casts of callers use channels a and b, which are  *)
(* unbuffered, and c, which has one slot; each behaviour is that of one    *)
(* cast.  The operation s1a is the leg of call s1 that sends on channel a, *)
(* r1c the leg of r1 that receives from c; an x call has legs of both      *)
(* kinds.                                                                  *)
(*                                                                         *)
(*   select    a tie of two senders and a tie of two receivers, with a     *)
(*             plain sender and a plain receiver, and a close              *)
(*             (test/test_select.cpp; multi-consumer-tie.cpp)              *)
(*   exchange  two ties that each send on one of two channels and receive  *)
(*             from the other, so that both channels may want the mutexes  *)
(*             of both ties at once; a plain partner for each kind of leg, *)
(*             and two closes                                              *)
(*   relay     a tie that sends on one channel or receives from another, a *)
(*             tie that receives from either, a sender, a poll, two closes *)
(***************************************************************************)
EXTENDS ChannelRefinement

VARIABLE cast   \* the callers and closers of this behaviour

TiesCapacity == [a |-> 0, b |-> 0, c |-> 1]

TiesProducer == {"s1a", "s1c", "s2c", "x1a", "x2b", "s3a", "x3a", "s4c"}
TiesConsumer == {"r1a", "r1c", "r2c", "x1b", "x2a", "r3b", "x3c", "r4a", "r4c"}

TiesChanOf ==
  [s1a |-> "a", s1c |-> "c", s2c |-> "c", r1a |-> "a", r1c |-> "c", r2c |-> "c",
   x1a |-> "a", x1b |-> "b", x2a |-> "a", x2b |-> "b", s3a |-> "a", r3b |-> "b",
   x3a |-> "a", x3c |-> "c", r4a |-> "a", r4c |-> "c", s4c |-> "c"]

TiesCallOf ==
  [s1a |-> "s1", s1c |-> "s1", s2c |-> "s2", r1a |-> "r1", r1c |-> "r1", r2c |-> "r2",
   x1a |-> "x1", x1b |-> "x1", x2a |-> "x2", x2b |-> "x2", s3a |-> "s3", r3b |-> "r3",
   x3a |-> "x3", x3c |-> "x3", r4a |-> "r4", r4c |-> "r4", s4c |-> "s4"]

TiesTarget == [poll1 |-> "c", close1 |-> "c", close2 |-> "a", close3 |-> "b", close4 |-> "c"]

Casts ==
  {{"s1", "s2", "r1", "r2", "close1"},
   {"x1", "x2", "s3", "r3", "close2", "close3"},
   {"x3", "r4", "s4", "poll1", "close2", "close4"}}

-----------------------------------------------------------------------------
InCast(t) == t \in cast /\ UNCHANGED cast

\* All of the cast have made their calls and returned.
CastDone ==
  /\ \A o \in unsubmitted : CallOf[o] \notin cast
  /\ \A c \in Chan : mutex[c] = NoOne
  /\ \A t \in Closer \cap cast : closing[t] = "done"
  /\ \A q \in Poller \cap cast : polled[q] # <<>>

TiesInit == Init /\ cast \in Casts

TiesNext ==
  \/ \E t \in Thread, c \in Chan : InCast(t) /\ FlushStep(t, c)
  \/ \E p \in Producer : InCast(CallOf[p]) /\ SubmitProduce(p)
  \/ \E o \in Consumer : InCast(CallOf[o]) /\ SubmitConsume(o)
  \/ \E t \in Closer : InCast(t) /\ (CallClose(t) \/ RunClose(t) \/ CloseAgain(t))
  \/ \E q \in Poller : InCast(q) /\ ConsumeIf(q)
  \/ CastDone /\ UNCHANGED <<vars, cast>>

FairTies == TiesInit /\ [][TiesNext]_<<vars, cast>> /\ Fairness
=============================================================================
