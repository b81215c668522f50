-------------------------- MODULE MultiConsumerTie --------------------------
(***************************************************************************)
(* The program examples/multi-consumer-tie.cpp on top of Channel: several  *)
(* coroutines that each send their words on a channel of their own and     *)
(* then close it, and one that receives with ties of all channels until    *)
(* one of them is closed, and then drains the others one by one.           *)
(*                                                                         *)
(* Every tie leaves stale operations in the queues of the channels that it *)
(* did not take.  They are met by later ties, by the receives that drain a *)
(* channel, and by its close.  All coroutines run on the threads of        *)
(* system_executor, without a strand: the receiver may be resumed by one   *)
(* leg of a tie, and begin its next receive, while the thread that began   *)
(* the tie has other legs of it to submit, and these come after that       *)
(* receive.  The delays between the calls (steady_timer) are any.          *)
(***************************************************************************)
EXTENDS Channel

CONSTANTS
  Channels,   \* how many channels and senders: c1, c2 and c3 in the program
  Words       \* Words[c]: the words that sender c sends, 6 each in the program

Ch == 1 .. Channels

ASSUME WordsAssumption == Channels \in Nat \ {0} /\ Words \in [Ch -> Nat \ {0}]

(***************************************************************************)
(* The calls: <<"send", c, i>> sends word i on channel c, <<"tie", 0, n>>  *)
(* is the n-th tie of the receiver, and <<"drain", c, n>> its n-th receive *)
(* while it drains c.  An operation is a call and a channel.               *)
(***************************************************************************)
Ties == Cardinality(UNION {{c} \X (1 .. Words[c]) : c \in Ch}) + 1

Send(c, i) == <<"send", c, i>>
Tie(n) == <<"tie", 0, n>>
Drain(c, n) == <<"drain", c, n>>

TieCall ==
  {Tie(n) : n \in 1 .. Ties}
    \cup (UNION {{Send(c, i) : i \in 1 .. Words[c]} : c \in Ch})
    \cup (UNION {{Drain(c, n) : n \in 1 .. Words[c] + 1} : c \in Ch})

TieProducer == UNION {{<<Send(c, i), c>> : i \in 1 .. Words[c]} : c \in Ch}

TieConsumer ==
  {<<Tie(n), c>> : n \in 1 .. Ties, c \in Ch}
    \cup (UNION {{<<Drain(c, n), c>> : n \in 1 .. Words[c] + 1} : c \in Ch})

TieChanOf == [o \in TieProducer \cup TieConsumer |-> o[2]]
TieCallOf == [o \in TieProducer \cup TieConsumer |-> o[1]]
TieCloser == {<<"close", c>> : c \in Ch}
TieTarget == [t \in TieCloser |-> t[2]]

\* No channel has a slot, and the calls on the channels 1, 2, ... are those of
\* this program.
ASSUME TiesAssumption ==
  /\ \A c \in Chan : Capacity[c] = 0
  /\ Ch \subseteq Chan /\ TieCall \subseteq Call
  /\ TieProducer \subseteq Producer /\ TieConsumer \subseteq Consumer
  /\ \A o \in IoOp : CallOf[o] \in TieCall => o \in TieProducer \cup TieConsumer
  /\ \A o \in TieProducer \cup TieConsumer :
       CallOf[o] = TieCallOf[o] /\ ChanOf[o] = TieChanOf[o]
  /\ TieCloser \subseteq Closer /\ TieCloser \subseteq Inline
  /\ \A t \in TieCloser : Target[t] = TieTarget[t]
  /\ Poller = {} /\ ~NullMutex

-----------------------------------------------------------------------------
\* The coroutine that awaits call k may have been resumed: its handler was
\* posted.  Another thread of system_executor may run it at once, while the
\* thread that began the call is still in a flush and has legs to submit.
Resumed(k) == completed[k]

NoError(k) == \A i \in DOMAIN posted[k] : posted[k][i].ec = "ok"

\* Call k ended on channel c, with a word or with an error.
EndedOn(k, c) == \E i \in DOMAIN posted[k] : ChanOf[posted[k][i].which] = c

Succeeds(k) == Resumed(k) /\ NoError(k)
FailsOn(k, c) == Resumed(k) /\ ~NoError(k) /\ EndedOn(k, c)

\* produce(): one word after the other.
SendReached(c, i) == i > 1 => Succeeds(Send(c, i - 1))

\* produce(): c.close() after the last word; system_executor runs what is
\* dispatched to it in the calling thread.
CloseReached(c) == Succeeds(Send(c, Words[c]))

\* done[c] of consume().
DoneWith(c) ==
  \/ \E n \in 1 .. Ties : FailsOn(Tie(n), c)
  \/ \E n \in 1 .. Words[c] + 1 : FailsOn(Drain(c, n), c)

\* consume(), the loop of ties: it goes on while none of them failed.
TieReached(n) == n > 1 => Succeeds(Tie(n - 1))

\* consume(), the loops that drain the channels in turn.
DrainReached(c, n) ==
  /\ n > 1 => Succeeds(Drain(c, n - 1))
  /\ \E i \in 1 .. Ties : Resumed(Tie(i)) /\ ~NoError(Tie(i))
  /\ ~DoneWith(c) /\ \A d \in 1 .. c - 1 : DoneWith(d)

ReceiveReached(k) ==
  IF k[1] = "tie" THEN TieReached(k[3]) ELSE DrainReached(k[2], k[3])

-----------------------------------------------------------------------------
FlushBy(T) == \E c \in Chan : mutex[c] \in T /\ FlushStep(mutex[c], c)

ConsumeCalls == {CallOf[o] : o \in TieConsumer}
ProduceCalls(c) == {Send(c, i) : i \in 1 .. Words[c]} \cup {<<"close", c>>}

\* The coroutine consume(c1, c2, c3).
Consume ==
  \/ FlushBy(ConsumeCalls)
  \/ \E o \in TieConsumer \cap unsubmitted : ReceiveReached(CallOf[o]) /\ SubmitConsume(o)

\* The coroutine produce(c).
Produce(c) ==
  \/ FlushBy(ProduceCalls(c))
  \/ \E p \in TieProducer \cap unsubmitted :
       ChanOf[p] = c /\ SendReached(c, CallOf[p][3]) /\ SubmitProduce(p)
  \/ CloseReached(c) /\ RunClose(<<"close", c>>)

\* fc.get(), fp1.get(), fp2.get() and fp3.get() have returned.
Finished ==
  /\ \A t \in TieCloser : closing[t] = "done"
  /\ \A c \in Ch : DoneWith(c)

TieNext ==
  \/ Consume
  \/ \E c \in Ch : Produce(c)
  \/ Finished /\ UNCHANGED vars

TieSpec == Init /\ [][TieNext]_vars

-----------------------------------------------------------------------------
\* The receives that got a word from channel c, and the place of a receive in
\* the order of consume().
WordCalls(c) ==
  {k \in ConsumeCalls : \E i \in DOMAIN posted[k] :
     posted[k][i].ec = "ok" /\ ChanOf[posted[k][i].which] = c}

Place(k) == IF k[1] = "tie" THEN k[3] ELSE Ties + k[3]

WordOf(k) == posted[k][1].val[1][3]

\* "The cat sat on the mat": the n-th word that consume() prints for a channel
\* is the n-th word sent on it, whichever ties and receives they came by
\* (multi-consumer-tie.cpp:65-97).
WordsInOrder ==
  \A c \in Ch : \A k \in WordCalls(c) :
    WordOf(k) = Cardinality({j \in WordCalls(c) : Place(j) <= Place(k)})

\* consume() is told that a channel is closed only when it has got all of its
\* words, by the tie that ends its loop as by a receive that drains; and no
\* send fails, since only the sender closes the channel.
ClosedAfterAll ==
  /\ \A c \in Ch, k \in ConsumeCalls :
       EndedOn(k, c) /\ ~NoError(k) => Cardinality(WordCalls(c)) = Words[c]
  /\ \A p \in TieProducer : NoError(CallOf[p])
=============================================================================
