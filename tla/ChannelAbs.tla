----------------------------- MODULE ChannelAbs -----------------------------
(***************************************************************************)
(* What channels promise to the calls made on them.                        *)
(*                                                                         *)
(* An operation waits from its submission until its call completes.  A     *)
(* call that completes, by whichever of its operations, withdraws all of   *)
(* them at once.  There are no mutexes here, no flags, no flushes and no   *)
(* stale operations in queues: an operation that waits, and has come       *)
(* before the others of its kind on its channel, may be matched at any     *)
(* time, in one step.                                                      *)
(*                                                                         *)
(* Channel implements this specification (ChannelRefinement).              *)
(***************************************************************************)
EXTENDS Naturals, Sequences, FiniteSets

CONSTANTS
  Chan,       \* the channels
  Capacity,   \* Capacity[c]: how many values c can buffer
  Call,       \* the asynchronous calls: one handler each
  Producer,   \* the produce operations; a producer also names its value
  Consumer,   \* the consume operations
  ChanOf,     \* ChanOf[o]: the channel of operation o
  CallOf,     \* CallOf[o]: the call that operation o is a leg of
  Poller,     \* the calls of consume_if
  Target,     \* Target[q]: the channel that poller q is called on
  NoValue     \* a default-constructed value

IoOp == Producer \cup Consumer

VARIABLES
  closed,     \* closed[c]: channel c is closed
  buffer,     \* buffer[c]: the buffered values, oldest first
  ahead,      \* ahead[o], for each operation o that waits: the operations
              \* that wait with it and came before it
  submitted,  \* the operations submitted so far
  posted,     \* posted[k]: the invocation of the handler of k, once posted
  polled      \* polled[q]: what consume_if returned to q, once it has

vars == <<closed, buffer, ahead, submitted, posted, polled>>

Ok(o, v) == [ec |-> "ok", which |-> o, val |-> v]
ChannelClosed(o) == [ec |-> "closed", which |-> o, val |-> NoValue]

\* The operations of one kind on one channel are matched in order.
SameQueue(x, o) == ChanOf[x] = ChanOf[o] /\ (x \in Producer <=> o \in Producer)

Waits(o) == o \in DOMAIN ahead

\* The turn of o: of the operations that wait with it, it came first.
First(o) == Waits(o) /\ ahead[o] = {}

Withdraw(gone) ==
  ahead' = [o \in DOMAIN ahead \ gone |-> ahead[o] \ gone]

PostAll(rs) ==
  posted' = [k \in Call |->
               IF \E r \in rs : CallOf[r.which] = k
                 THEN Append(posted[k], CHOOSE r \in rs : CallOf[r.which] = k)
                 ELSE posted[k]]

\* The calls of the results rs complete: their handlers are posted and their
\* operations withdrawn from every channel.
Complete(rs) ==
  /\ PostAll(rs)
  /\ Withdraw({o \in IoOp : \E r \in rs : CallOf[o] = CallOf[r.which]})

-----------------------------------------------------------------------------
\* An operation is submitted to its channel: it waits, unless another leg has
\* completed its call meanwhile.
Arrive(o) ==
  /\ o \notin submitted
  /\ submitted' = submitted \cup {o}
  /\ ahead' = IF posted[CallOf[o]] = <<>>
              THEN [x \in DOMAIN ahead \cup {o} |->
                      IF x = o THEN {y \in DOMAIN ahead : SameQueue(y, o)}
                               ELSE ahead[x]]
              ELSE ahead
  /\ UNCHANGED <<closed, buffer, posted, polled>>

\* "All values already buffered will be delivered to consumers", and nothing
\* enters the channel any more.
Close(c) ==
  /\ closed' = [closed EXCEPT ![c] = TRUE]
  /\ UNCHANGED <<buffer, ahead, submitted, posted, polled>>

\* A value enters the buffer.
Accept(p) ==
  LET c == ChanOf[p] IN
  /\ First(p)
  /\ ~closed[c] /\ Len(buffer[c]) < Capacity[c]
  /\ Complete({Ok(p, NoValue)})
  /\ buffer' = [buffer EXCEPT ![c] = Append(@, p)]
  /\ UNCHANGED <<closed, submitted, polled>>

\* A consumer takes the oldest value of the buffer.
Deliver(o) ==
  LET c == ChanOf[o] IN
  /\ First(o)
  /\ buffer[c] # <<>>
  /\ Complete({Ok(o, Head(buffer[c]))})
  /\ buffer' = [buffer EXCEPT ![c] = Tail(@)]
  /\ UNCHANGED <<closed, submitted, polled>>

\* A value goes from a sender to a receiver; the buffer is empty.
Transfer(p, o) ==
  LET c == ChanOf[p] IN
  /\ First(p) /\ First(o)
  /\ ChanOf[o] = c /\ CallOf[o] # CallOf[p]
  /\ ~closed[c] /\ buffer[c] = <<>>
  /\ Complete({Ok(p, NoValue), Ok(o, p)})
  /\ UNCHANGED <<closed, buffer, submitted, polled>>

\* "All pending async_send operations will be cancelled."
CancelSend(p) ==
  /\ First(p)
  /\ closed[ChanOf[p]]
  /\ Complete({ChannelClosed(p)})
  /\ UNCHANGED <<closed, buffer, submitted, polled>>

CancelReceiveEarly(o) ==                                         \* mutant
  /\ First(o)
  /\ closed[ChanOf[o]]
  /\ Complete({ChannelClosed(o)})
  /\ UNCHANGED <<closed, buffer, submitted, polled>>

\* "Any async_consume operation which does not match an already-stored value
\* will [complete] with errors::channel_closed."
CancelReceive(o) ==
  /\ First(o)
  /\ closed[ChanOf[o]] /\ buffer[ChanOf[o]] = <<>>
  /\ Complete({ChannelClosed(o)})
  /\ UNCHANGED <<closed, buffer, submitted, polled>>

-----------------------------------------------------------------------------
\* consume_if returns at once: with a value of the buffer or of the first
\* sender, or with none - and an error when the channel is closed.
Return(q, r) ==
  /\ polled[q] = <<>>
  /\ polled' = [polled EXCEPT ![q] = <<r>>]
  /\ UNCHANGED <<closed, submitted>>

PollBuffer(q) ==
  LET c == Target[q] IN
  /\ buffer[c] # <<>>
  /\ Return(q, [ec |-> "ok", val |-> Head(buffer[c])])
  /\ buffer' = [buffer EXCEPT ![c] = Tail(@)]
  /\ UNCHANGED <<ahead, posted>>

PollSender(q, p) ==
  /\ First(p) /\ ChanOf[p] = Target[q]
  /\ buffer[Target[q]] = <<>> /\ ~closed[Target[q]]
  /\ Return(q, [ec |-> "ok", val |-> p])
  /\ Complete({Ok(p, NoValue)})
  /\ UNCHANGED buffer

PollNothing(q) ==
  LET c == Target[q] IN
  /\ buffer[c] = <<>>
  /\ closed[c] \/ \A p \in Producer : ChanOf[p] = c => ~Waits(p)
  /\ Return(q, [ec |-> IF closed[c] THEN "closed" ELSE "ok", val |-> NoValue])
  /\ UNCHANGED <<buffer, ahead, posted>>

-----------------------------------------------------------------------------
Init ==
  /\ closed = [c \in Chan |-> FALSE]
  /\ buffer = [c \in Chan |-> <<>>]
  /\ ahead = [o \in {} |-> {}]
  /\ submitted = {}
  /\ posted = [k \in Call |-> <<>>]
  /\ polled = [q \in Poller |-> <<>>]

Match(p) == Accept(p) \/ CancelSend(p) \/ \E o \in Consumer : Transfer(p, o)

Serve(o) == Deliver(o) \/ CancelReceive(o)

\* The channels go on by themselves.
Progress ==
  \/ \E p \in Producer : Match(p)
  \/ \E o \in Consumer : Serve(o)

ConsumeIf(q) ==
  PollBuffer(q) \/ PollNothing(q) \/ \E p \in Producer : PollSender(q, p)

Next ==
  \/ \E o \in IoOp : Arrive(o)
  \/ \E c \in Chan : Close(c)
  \/ Progress
  \/ \E q \in Poller : ConsumeIf(q)

Spec == Init /\ [][Next]_vars
=============================================================================
