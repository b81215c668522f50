------------------------------ MODULE TieLoop ------------------------------
(***************************************************************************)
(* The program of the test "2 producers, 2 consumer, threads"              *)
(* (test/test_select.cpp) on top of Channel: two unbuffered channels, a    *)
(* thread that receives with ties and a thread that sends.                 *)
(*                                                                         *)
(* In each round the sender sends with a tie of both channels and then on  *)
(* the channel that the tie did not take; the receiver receives twice with *)
(* ties of both.  A leg that lost stays in its queue as a stale operation  *)
(* while the next calls come.  After the last round the sender closes both *)
(* channels, which ends the receiver's loop.                               *)
(***************************************************************************)
EXTENDS Channel

CONSTANT Rounds   \* the rounds of the sender: 1000 in the test

ASSUME RoundsAssumption == Rounds \in Nat \ {0}

Side == {"a", "b"}

(***************************************************************************)
(* The calls: <<"recv", i, n>> is the n-th tie of the receiver in round i, *)
(* <<"send", i, "tie">> the tie of the sender, and <<"send", i, x>> its    *)
(* second call, on channel x.  An operation is a call and a channel.       *)
(***************************************************************************)
Recv(i, n) == <<"recv", i, n>>
Send(i, x) == <<"send", i, x>>

LoopCall ==
  {Recv(i, n) : i \in 1 .. Rounds + 1, n \in {"first", "second"}}
    \cup {Send(i, x) : i \in 1 .. Rounds, x \in Side \cup {"tie"}}

LoopConsumer ==
  {<<Recv(i, n), x>> : i \in 1 .. Rounds + 1, n \in {"first", "second"}, x \in Side}

LoopProducer ==
  {<<Send(i, x), x>> : i \in 1 .. Rounds, x \in Side}
    \cup {<<Send(i, "tie"), x>> : i \in 1 .. Rounds, x \in Side}

LoopChanOf == [o \in LoopConsumer \cup LoopProducer |-> o[2]]
LoopCallOf == [o \in LoopConsumer \cup LoopProducer |-> o[1]]

LoopCapacity == [x \in Side |-> 0]
LoopCloser == {<<"close", x>> : x \in Side}
LoopTarget == [t \in LoopCloser |-> t[2]]

\* The two channels and the calls on them are those of this program.
ASSUME LoopAssumption ==
  /\ Chan = Side /\ Capacity = LoopCapacity /\ ~NullMutex
  /\ Call = LoopCall /\ CallOf = LoopCallOf /\ ChanOf = LoopChanOf
  /\ Producer = LoopProducer /\ Consumer = LoopConsumer
  /\ Poller = {} /\ Closer = LoopCloser /\ Target = LoopTarget /\ Inline = Closer

-----------------------------------------------------------------------------
\* The legs of a call.
Legs(k) == {o \in IoOp : CallOf[o] = k}

\* `.get()` has returned: the thread has submitted the legs of the call and
\* left the channels, and the handler was posted.
Returned(k) ==
  /\ completed[k]
  /\ Legs(k) \cap unsubmitted = {}
  /\ ~InChannel(k)

\* The call took channel x, or failed there.
Took(k, x) == \E i \in DOMAIN posted[k] : ChanOf[posted[k][i].which] = x

NoError(k) == \A i \in DOMAIN posted[k] : posted[k][i].ec = "ok"

Other(x) == IF x = "a" THEN "b" ELSE "a"

\* The sender has finished round i.
SentRound(i) == i > 0 => \E x \in Side : Returned(Send(i, x))

\* The receiver's loop: the first tie of a round comes after the second of the
\* round before, the second after a first without error.
ReceiverReaches(i, n) ==
  IF n = "first" THEN i > 1 => Returned(Recv(i - 1, "second"))
                 ELSE Returned(Recv(i, "first")) /\ NoError(Recv(i, "first"))

\* The sender's loop: after the tie, a send on the other channel.
SenderReaches(i, x) ==
  IF x = "tie" THEN SentRound(i - 1)
               ELSE /\ Returned(Send(i, "tie"))
                    /\ Took(Send(i, "tie"), Other(x))

Reached(k) ==
  IF k[1] = "recv" THEN ReceiverReaches(k[2], k[3]) ELSE SenderReaches(k[2], k[3])

\* After its loop the sender closes a, then b.  (system_executor runs what is
\* dispatched to it in the calling thread.)
CloseReached(t) ==
  /\ SentRound(Rounds)
  /\ Target[t] = "b" => closing[<<"close", "a">>] = "done"

\* The receiver left its loop and the sender closed both channels.
LoopsDone ==
  /\ \E i \in 1 .. Rounds + 1 :
       Returned(Recv(i, "first")) /\ ~NoError(Recv(i, "first"))
  /\ \A t \in Closer : closing[t] = "done"

\* The two threads, f1 and f2 of the test.  What a thread has entered it
\* flushes; a call of its loop comes when the loop reaches it.
ReceiverCall == {CallOf[o] : o \in Consumer}
SenderCall == {CallOf[p] : p \in Producer} \cup Closer

FlushBy(T) == \E c \in Chan : mutex[c] \in T /\ FlushStep(mutex[c], c)

ReceiverSubmits ==
  \E o \in Consumer \cap unsubmitted : Reached(CallOf[o]) /\ SubmitConsume(o)

SenderSubmits ==
  \E p \in Producer \cap unsubmitted : Reached(CallOf[p]) /\ SubmitProduce(p)

SenderCloses == \E t \in Closer : CloseReached(t) /\ RunClose(t)

Receives == FlushBy(ReceiverCall) \/ ReceiverSubmits
Sends == FlushBy(SenderCall) \/ SenderSubmits \/ SenderCloses

LoopNext ==
  \/ \E t \in Thread, c \in Chan : FlushStep(t, c)
  \/ ReceiverSubmits \/ SenderSubmits \/ SenderCloses
  \/ LoopsDone /\ UNCHANGED vars

LoopSpec == Init /\ [][LoopNext]_vars

\* Both threads run on, inside the channels and outside.
FairLoop == LoopSpec /\ WF_vars(Receives) /\ WF_vars(Sends)

-----------------------------------------------------------------------------
\* `CHECK(which2 != which1)`, `CHECK(!ec)` and `CHECK(i == 1000)`
\* (test_select.cpp:105, 117-120, 132 and 144): the two ties of a round take
\* different channels and the two values sent in that very round, whatever
\* stale legs are in the queues; no call fails but the first tie after the
\* last round, which sees the close.
RoundsMatch ==
  /\ \A i \in 1 .. Rounds, n \in {"first", "second"} :
       \A j \in DOMAIN posted[Recv(i, n)] :
         LET r == posted[Recv(i, n)][j] IN
           /\ r.ec = "ok" /\ r.val[1][2] = i
           /\ n = "second" => Took(Recv(i, "first"), Other(ChanOf[r.which]))
  /\ \A k \in Call : ~NoError(k) => k = Recv(Rounds + 1, "first")

\* `f1.get()` and `f2.get()` return (test_select.cpp:159-160): both threads leave
\* their loops, no stale leg in front of a live one stops a match.
LoopsEnd == <>LoopsDone
=============================================================================
