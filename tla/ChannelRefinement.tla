------------------------- MODULE ChannelRefinement -------------------------
(***************************************************************************)
(* Channel implements ChannelAbs.  The state they share keeps its names;   *)
(* an operation waits, in the abstract, when it is in a queue and its call *)
(* is not completed.  Locking, flushing and popping a stale operation are  *)
(* steps that the callers cannot see.                                      *)
(***************************************************************************)
EXTENDS Channel

\* The operations that wait: those in the queues, the stale ones left out.
Waiting ==
  {o \in IoOp :
     /\ o \in Range(producers[ChanOf[o]]) \cup Range(consumers[ChanOf[o]])
     /\ ~completed[CallOf[o]]}

\* Operation x was submitted to the channel of o before o.
CameBefore(x, o) ==
  \E i, j \in DOMAIN arrived[ChanOf[o]] :
    i < j /\ arrived[ChanOf[o]][i] = x /\ arrived[ChanOf[o]][j] = o

ahead ==
  [o \in Waiting |-> {x \in Waiting : SameKind(x, o) /\ CameBefore(x, o)}]

submitted == IoOp \ unsubmitted

Abs == INSTANCE ChannelAbs

\* Every behaviour of the channels is one that ChannelAbs allows: calls of any
\* number of legs complete as if each of them were matched in one step, in
\* the order of submission (implement_channel_queue.hpp:33-139,
\* channel_impl.hpp:117-205, tie.hpp:76-84).
ImplementsChannelAbs == Abs!Spec
=============================================================================
