----------------------------- MODULE MCChannel -----------------------------
(***************************************************************************)
(* Instances of Channel for TLC.  Each scenario is a small program using   *)
(* the library: channels, the calls made on them, and the legs of each     *)
(* call.  The operation s1a is the leg of call s1 that sends on channel a, *)
(* r1a the leg of call r1 that receives from it.                           *)
(***************************************************************************)
EXTENDS Channel

(***************************************************************************)
(* Buffered: plain senders and receivers on one channel of two slots, with *)
(* polls and two closes, one of them from inside the executor.             *)
(***************************************************************************)
BufferedCapacity == [a |-> 2]
BufferedProducer == {"s1a", "s2a", "s3a"}
BufferedConsumer == {"r1a", "r2a"}
BufferedChanOf == [o \in BufferedProducer \cup BufferedConsumer |-> "a"]
BufferedCallOf ==
  [s1a |-> "s1", s2a |-> "s2", s3a |-> "s3", r1a |-> "r1", r2a |-> "r2"]
BufferedTarget ==
  [t \in {"poll1", "poll2", "poll3", "close1", "close2"} |-> "a"]

(***************************************************************************)
(* Stale poll: a tie of two senders, a receiver on one of the channels and *)
(* a poll of the other.                                                    *)
(***************************************************************************)
StaleCapacity == [a |-> 0, b |-> 0]
StaleProducer == {"s1a", "s1b"}
StaleConsumer == {"r1b"}
StaleChanOf == [s1a |-> "a", s1b |-> "b", r1b |-> "b"]
StaleCallOf == [s1a |-> "s1", s1b |-> "s1", r1b |-> "r1"]
StaleTarget == [poll1 |-> "a"]

(***************************************************************************)
(* Mixed tie: one tie that sends on a channel and receives from it, in a   *)
(* program of one thread, on channels of null_mutex.                       *)
(***************************************************************************)
MixedCapacity == [a |-> 0]
MixedProducer == {"x1s"}
MixedConsumer == {"x1r"}
MixedChanOf == [x1s |-> "a", x1r |-> "a"]
MixedCallOf == [x1s |-> "x1", x1r |-> "x1"]
MixedTarget == [t \in {} |-> "a"]
=============================================================================
