--------------------------- MODULE TieLoopProofs ---------------------------
(***************************************************************************)
(* Proof that the rounds of TieLoop match, for any number of rounds.       *)
(*                                                                         *)
(* A thread has one call under way at a time, so that among the operations *)
(* in the queues those of one call of each thread are live and all others  *)
(* are stale.  A match ends a call of each thread: the n-th call that the  *)
(* sender makes always ends with the n-th call of the receiver.            *)
(***************************************************************************)
EXTENDS TieLoop, ChannelValueProofs

Round == 1 .. Rounds
Last == Rounds + 1

First(i) == Recv(i, "first")
Second(i) == Recv(i, "second")
SendTie(i) == Send(i, "tie")

\* The second send of round i is done.
SecondSent(i) == \E x \in Side : completed[Send(i, x)]

\* The calls k and l have ended with each other, on channel x.
Matched(k, l, x) ==
  /\ posted[k] = <<Ok(<<k, x>>, NoValue)>>
  /\ posted[l] = <<Ok(<<l, x>>, <<k, x>>)>>

\* Each thread makes its calls in the order of its loop.
SenderInOrder ==
  \A i \in Round :
    /\ Begun(SendTie(i)) => \A j \in 1 .. i - 1 : SecondSent(j)
    /\ \A x \in Side : Begun(Send(i, x)) =>
         completed[SendTie(i)] /\ Matched(SendTie(i), First(i), Other(x))

ReceiverInOrder ==
  \A i \in 1 .. Last :
    /\ Begun(First(i)) => \A j \in 1 .. i - 1 : completed[Second(j)]
    /\ Begun(Second(i)) => completed[First(i)] /\ i # Last

\* The ties of round i end with each other, and so do the second calls.
RoundMatched(i) ==
  /\ completed[SendTie(i)] <=> completed[First(i)]
  /\ completed[First(i)] => \E x \in Side : Matched(SendTie(i), First(i), x)
  /\ completed[Second(i)] <=> SecondSent(i)
  /\ \A x \in Side : completed[Send(i, x)] => Matched(Send(i, x), Second(i), x)

\* The only call that fails is the first tie after the last round.
LastFails ==
  completed[First(Last)] =>
    \E x \in Side : posted[First(Last)] = <<ChannelClosed(<<First(Last), x>>)>>

LoopInv ==
  /\ \A k \in Call : completed[k] => Begun(k)
  /\ SenderInOrder
  /\ ReceiverInOrder
  /\ \A i \in Round : RoundMatched(i)
  /\ LastFails
  /\ (\E c \in Chan : closed[c]) => SecondSent(Rounds)

-----------------------------------------------------------------------------
(***************************************************************************)
(* The names of the calls and operations.                                  *)
(***************************************************************************)
LEMMA CallNames ==
  /\ \A i, j, n, m : Recv(i, n) = Recv(j, m) <=> i = j /\ n = m
  /\ \A i, j, x, y : Send(i, x) = Send(j, y) <=> i = j /\ x = y
  /\ \A i, j, n, x : Recv(i, n) # Send(j, x)
BY DEF Recv, Send

LEMMA CallKinds ==
  /\ Rounds \in Nat /\ Rounds \in Round /\ Last \in 1 .. Last /\ Round \subseteq 1 .. Last
  /\ \A i \in 1 .. Last : First(i) \in Call /\ Second(i) \in Call
  /\ \A i \in Round : SendTie(i) \in Call /\ \A x \in Side : Send(i, x) \in Call
  /\ \A k \in Call : \/ \E i \in 1 .. Last : k = First(i) \/ k = Second(i)
                     \/ \E i \in Round : k = SendTie(i) \/ \E x \in Side : k = Send(i, x)
<1>1. /\ Rounds \in Nat /\ Rounds \in Round /\ Last \in 1 .. Last
      /\ Round \subseteq 1 .. Last
  BY RoundsAssumption DEF Round, Last
<1> QED BY <1>1, LoopAssumption DEF LoopCall, First, Second, SendTie, Round, Last

\* An operation is a call and a channel.
LEMMA ProducerKinds ==
  /\ \A p \in Producer : \E i \in Round, x \in Side :
       /\ ChanOf[p] = x
       /\ \/ CallOf[p] = SendTie(i) /\ p = <<SendTie(i), x>>
          \/ CallOf[p] = Send(i, x) /\ p = <<Send(i, x), x>>
  /\ \A i \in Round, x \in Side :
       <<SendTie(i), x>> \in IoOp /\ ChanOf[<<SendTie(i), x>>] = x
<1>1. \A i \in Round, x \in Side :
        <<SendTie(i), x>> \in Producer /\ <<Send(i, x), x>> \in Producer
  BY LoopAssumption DEF LoopProducer, SendTie, Round
<1>2. \A p \in Producer : p \in LoopConsumer \cup LoopProducer
  BY LoopAssumption
<1>3. \A k, x : <<k, x>> \in Producer =>
                  CallOf[<<k, x>>] = k /\ ChanOf[<<k, x>>] = x
  BY <1>2, LoopAssumption DEF LoopCallOf, LoopChanOf
<1>4. \A p \in Producer : \E i \in Round, x \in Side :
        p = <<SendTie(i), x>> \/ p = <<Send(i, x), x>>
  BY LoopAssumption DEF LoopProducer, SendTie, Round
<1>5. ASSUME NEW p \in Producer
      PROVE  \E i \in Round, x \in Side :
               /\ ChanOf[p] = x
               /\ \/ CallOf[p] = SendTie(i) /\ p = <<SendTie(i), x>>
                  \/ CallOf[p] = Send(i, x) /\ p = <<Send(i, x), x>>
  <2>1. PICK i \in Round, x \in Side : p = <<SendTie(i), x>> \/ p = <<Send(i, x), x>>
    BY <1>4
  <2> QED BY <1>3, <2>1
<1> QED BY <1>1, <1>3, <1>5 DEF IoOp

LEMMA ConsumerKinds ==
  /\ \A o \in Consumer : \E i \in 1 .. Last, x \in Side :
       /\ ChanOf[o] = x
       /\ \/ CallOf[o] = First(i) /\ o = <<First(i), x>>
          \/ CallOf[o] = Second(i) /\ o = <<Second(i), x>>
  /\ \A i \in 1 .. Last, x \in Side :
       <<First(i), x>> \in IoOp /\ ChanOf[<<First(i), x>>] = x
       /\ <<Second(i), x>> \in IoOp /\ ChanOf[<<Second(i), x>>] = x
<1>1. \A i \in 1 .. Last, x \in Side :
        <<First(i), x>> \in Consumer /\ <<Second(i), x>> \in Consumer
  BY LoopAssumption DEF LoopConsumer, First, Second, Last
<1>2. \A o \in Consumer : o \in LoopConsumer \cup LoopProducer
  BY LoopAssumption
<1>3. \A k, x : <<k, x>> \in Consumer =>
                  CallOf[<<k, x>>] = k /\ ChanOf[<<k, x>>] = x
  BY <1>2, LoopAssumption DEF LoopCallOf, LoopChanOf
<1>4. \A o \in Consumer : \E i \in 1 .. Last, x \in Side :
        o = <<First(i), x>> \/ o = <<Second(i), x>>
  BY LoopAssumption DEF LoopConsumer, First, Second, Last
<1> QED BY <1>1, <1>3, <1>4 DEF IoOp

\* Where the loops are when they come to a call.
LEMMA ReachedIs ==
  /\ \A i, n : Reached(Recv(i, n)) <=> ReceiverReaches(i, n)
  /\ \A i, x : Reached(Send(i, x)) <=> SenderReaches(i, x)
<1>1. \A i, n : Recv(i, n)[1] = "recv" /\ Recv(i, n)[2] = i /\ Recv(i, n)[3] = n
  BY DEF Recv
<1>2. \A i, x : Send(i, x)[1] = "send" /\ Send(i, x)[2] = i /\ Send(i, x)[3] = x
  BY DEF Send
<1>3. "send" # "recv"
  OBVIOUS
<1> QED BY <1>1, <1>2, <1>3 DEF Reached

LEMMA Sides ==
  /\ "tie" \notin Side /\ "first" # "second"
  /\ \A x, y \in Side : Other(x) = Other(y) => x = y
  /\ \A x \in Side : Other(x) \in Side
BY DEF Side, Other

\* The program is one of the channels' users, and uses them safely.
LEMMA LoopIsSafe == SafeUse
BY LoopAssumption DEF SafeUse, PlainPolls

LEMMA LoopStep == LoopNext => [Next]_vars
<1>1. /\ \A o \in Consumer : SubmitConsume(o) => Next
      /\ \A p \in Producer : SubmitProduce(p) => Next
      /\ \A t \in Closer : RunClose(t) => Next
  BY DEF Next
<1>2. ReceiverSubmits \/ SenderSubmits \/ SenderCloses => Next
  BY <1>1 DEF ReceiverSubmits, SenderSubmits, SenderCloses
<1>3. (\E t \in Thread, c \in Chan : FlushStep(t, c)) => Next
  BY DEF Next
<1> QED BY <1>2, <1>3 DEF LoopNext

-----------------------------------------------------------------------------
(***************************************************************************)
(* The step of a match.                                                    *)
(***************************************************************************)
\* The sender is done with the rounds before the one of a call that it began,
\* and with the tie of that round.
LEMMA SenderPast ==
  ASSUME LoopInv, NEW i \in Round
  PROVE  /\ \A x \in Side : Begun(Send(i, x)) => Begun(SendTie(i)) /\ completed[SendTie(i)]
         /\ \A j \in Round : j < i /\ Begun(SendTie(i)) =>
              completed[SendTie(j)] /\ SecondSent(j)
<1>1. \A j \in Round, x \in Side : Begun(Send(j, x)) => completed[SendTie(j)]
  BY DEF LoopInv, SenderInOrder
<1>2. \A j \in Round, x \in Side : completed[Send(j, x)] => completed[SendTie(j)]
  BY <1>1, CallKinds DEF LoopInv
<1>3. \A j \in Round : completed[SendTie(j)] => Begun(SendTie(j))
  BY CallKinds DEF LoopInv
<1>4. \A j \in Round : j < i /\ Begun(SendTie(i)) => SecondSent(j)
  BY CallKinds DEF LoopInv, SenderInOrder, Round
<1> QED BY <1>1, <1>2, <1>3, <1>4 DEF SecondSent

\* So is the receiver.
LEMMA ReceiverPast ==
  ASSUME LoopInv, NEW i \in 1 .. Last
  PROVE  /\ Begun(Second(i)) => Begun(First(i)) /\ completed[First(i)] /\ i # Last
         /\ \A j \in 1 .. Last : j < i /\ Begun(First(i)) =>
              completed[First(j)] /\ completed[Second(j)]
<1>1. \A j \in 1 .. Last : /\ Begun(Second(j)) => completed[First(j)] /\ j # Last
                           /\ completed[Second(j)] => Begun(Second(j))
                           /\ completed[First(j)] => Begun(First(j))
  BY CallKinds DEF LoopInv, ReceiverInOrder
<1>2. \A j \in 1 .. Last : j < i /\ Begun(First(i)) => completed[Second(j)]
  BY CallKinds DEF LoopInv, ReceiverInOrder
<1> QED BY <1>1, <1>2

\* The second call of a round is on the channel that the tie left.
LEMMA SecondOfOne ==
  ASSUME LoopInv, NEW i \in Round, NEW x \in Side, NEW y \in Side,
         Begun(Send(i, x)), Begun(Send(i, y))
  PROVE  x = y
<1>1. Matched(SendTie(i), First(i), Other(x)) /\ Matched(SendTie(i), First(i), Other(y))
  BY DEF LoopInv, SenderInOrder
<1>2. /\ posted[SendTie(i)][1].which = <<SendTie(i), Other(x)>>
      /\ posted[SendTie(i)][1].which = <<SendTie(i), Other(y)>>
  BY <1>1 DEF Matched, Ok
<1>3. Other(x) = Other(y)
  BY <1>2
<1> QED BY <1>3, Sides

\* The calls that are under way in the two threads belong together.
LEMMA Partners ==
  ASSUME LoopInv, NEW c \in Chan, NEW p \in Producer, NEW o \in Consumer,
         Live(p, c), Live(o, c)
  PROVE  \E i \in Round, x \in Side :
           /\ \/ CallOf[p] = SendTie(i) /\ CallOf[o] = First(i)
              \/ CallOf[p] = Send(i, x) /\ CallOf[o] = Second(i)
           /\ p = <<CallOf[p], x>> /\ o = <<CallOf[o], x>>
<1>1. /\ Begun(CallOf[p]) /\ ~completed[CallOf[p]] /\ ChanOf[p] = c
      /\ Begun(CallOf[o]) /\ ~completed[CallOf[o]] /\ ChanOf[o] = c
  BY DEF Live, Begun, IoOp
<1>2. PICK i \in Round, x \in Side :
        /\ ChanOf[p] = x
        /\ \/ CallOf[p] = SendTie(i) /\ p = <<SendTie(i), x>>
           \/ CallOf[p] = Send(i, x) /\ p = <<Send(i, x), x>>
  BY ProducerKinds
<1>3. PICK j \in 1 .. Last, y \in Side :
        /\ ChanOf[o] = y
        /\ \/ CallOf[o] = First(j) /\ o = <<First(j), y>>
           \/ CallOf[o] = Second(j) /\ o = <<Second(j), y>>
  BY ConsumerKinds
<1>4. /\ \A n \in Round : n < i => completed[SendTie(n)] /\ SecondSent(n)
      /\ CallOf[p] = Send(i, x) => completed[SendTie(i)]
  BY <1>1, <1>2, SenderPast
<1>5. /\ \A n \in 1 .. Last : n < j => completed[First(n)] /\ completed[Second(n)]
      /\ CallOf[o] = Second(j) => completed[First(j)] /\ j # Last
  BY <1>1, <1>3, ReceiverPast
<1>6. \A n \in Round : /\ completed[SendTie(n)] <=> completed[First(n)]
                       /\ completed[Second(n)] <=> SecondSent(n)
  BY DEF LoopInv, RoundMatched
<1>7. i \in Int /\ j \in Int /\ Rounds \in Int /\ (j \in Round \/ j > i)
  BY CallKinds DEF Round, Last
<1>8. \A n \in Round : completed[First(n)] /\ completed[Second(n)] =>
                         completed[SendTie(n)] /\ SecondSent(n)
  BY <1>6
<1>9. ~(j < i)
  <2> SUFFICES ASSUME j < i PROVE FALSE
    OBVIOUS
  <2>1. j \in Round
    BY <1>7
  <2> QED BY <1>1, <1>3, <1>4, <1>6, <2>1
<1>10. ~(i < j)
  <2> SUFFICES ASSUME i < j PROVE FALSE
    OBVIOUS
  <2>1. completed[SendTie(i)] /\ SecondSent(i)
    BY <1>5, <1>8, CallKinds
  <2>2. CallOf[p] = Send(i, x) /\ ~completed[Send(i, x)]
    BY <1>1, <1>2, <2>1
  <2>3. PICK y2 \in Side : completed[Send(i, y2)]
    BY <2>1 DEF SecondSent
  <2>4. Begun(Send(i, y2)) /\ Begun(Send(i, x))
    BY <1>1, <2>2, <2>3, CallKinds DEF LoopInv
  <2>5. y2 = x
    BY <2>4, SecondOfOne
  <2> QED BY <2>2, <2>3, <2>5
<1>11. j = i
  BY <1>7, <1>9, <1>10
<1>12. CASE CallOf[p] = SendTie(i)
  <2>1. CallOf[o] = First(i)
    BY <1>1, <1>3, <1>5, <1>6, <1>11, <1>12
  <2> QED BY <1>1, <1>2, <1>3, <1>11, <1>12, <2>1, CallNames, Sides DEF First, Second, SendTie
<1>13. CASE CallOf[p] = Send(i, x)
  <2>1. CallOf[o] = Second(i)
    BY <1>1, <1>3, <1>4, <1>6, <1>11, <1>13
  <2> QED BY <1>1, <1>2, <1>3, <1>11, <1>13, <2>1, CallNames, Sides DEF First, Second, SendTie
<1> QED BY <1>2, <1>12, <1>13

-----------------------------------------------------------------------------
(***************************************************************************)
(* Every step keeps the invariant.                                         *)
(***************************************************************************)
\* The first tie after the last round fails, and no other call does.
LEMMA FailStep ==
  ASSUME LoopInv, TypeOK, NEW c \in Chan, closed[c], NEW o \in IoOp, Live(o, c),
         Ends(o, ChannelClosed(o)), UNCHANGED <<closed, unsubmitted>>
  PROVE  LoopInv'
<1> DEFINE k == CallOf[o]
<1>1. Begun(k) /\ ~completed[k] /\ \A l : Begun(l)' <=> Begun(l)
  BY DEF Live, Begun
<1>2. SecondSent(Rounds)
  BY DEF LoopInv
<1>3. PICK z \in Side : completed[Send(Rounds, z)]
  BY <1>2 DEF SecondSent
<1>4. Begun(Send(Rounds, z)) /\ Begun(SendTie(Rounds)) /\ completed[SendTie(Rounds)]
  BY <1>3, CallKinds, SenderPast DEF LoopInv
<1>5. \A i \in Round : completed[SendTie(i)] /\ SecondSent(i)
  <2> SUFFICES ASSUME NEW i \in Round PROVE completed[SendTie(i)] /\ SecondSent(i)
    OBVIOUS
  <2>1. i = Rounds \/ i < Rounds
    BY CallKinds DEF Round
  <2> QED BY <1>2, <1>4, <2>1, CallKinds, SenderPast
<1>6. \A i \in Round : completed[First(i)] /\ completed[Second(i)]
  BY <1>5 DEF LoopInv, RoundMatched
<1>7. \A i \in Round : k # First(i) /\ k # Second(i) /\ k # SendTie(i)
  BY <1>1, <1>5, <1>6
<1>8. \A i \in Round, x \in Side : k # Send(i, x)
  <2> SUFFICES ASSUME NEW i \in Round, NEW x \in Side, k = Send(i, x) PROVE FALSE
    OBVIOUS
  <2>1. PICK y \in Side : completed[Send(i, y)]
    BY <1>5 DEF SecondSent
  <2>2. Begun(Send(i, y)) /\ Begun(Send(i, x))
    BY <1>1, <2>1, CallKinds DEF LoopInv
  <2> QED BY <1>1, <2>1, <2>2, SecondOfOne
<1>9. k = First(Last)
  <2>1. k \in Call /\ k # Second(Last)
    BY <1>1, FunctionsAssumption, CallKinds DEF LoopInv, ReceiverInOrder
  <2>2. \A i \in 1 .. Last : i = Last \/ i \in Round
    BY CallKinds DEF Round, Last
  <2> QED BY <1>7, <1>8, <2>1, <2>2, CallKinds
<1>10. \E x \in Side : o = <<First(Last), x>>
  <2>1. o \in Consumer
    <3> SUFFICES ASSUME o \in Producer PROVE FALSE
      BY DEF IoOp
    <3> QED BY <1>7, <1>8, ProducerKinds
  <2> QED BY <1>9, <2>1, ConsumerKinds, CallNames DEF First, Second
<1>11. /\ completed'[k] /\ posted'[k] = <<ChannelClosed(o)>>
       /\ \A l \in Call : l # k => completed'[l] = completed[l] /\ posted'[l] = posted[l]
  BY EndsOne
<1> HIDE DEF k
<1>12. LastFails'
  BY <1>9, <1>10, <1>11 DEF LastFails
<1>13. \A i \in Round : /\ First(i) \in Call /\ First(i) # k
                        /\ Second(i) \in Call /\ Second(i) # k
                        /\ SendTie(i) \in Call /\ SendTie(i) # k
                        /\ \A x \in Side : Send(i, x) \in Call /\ Send(i, x) # k
  BY <1>7, <1>8, CallKinds
<1>14. \A i \in Round :
         /\ completed'[First(i)] = completed[First(i)] /\ posted'[First(i)] = posted[First(i)]
         /\ completed'[Second(i)] = completed[Second(i)] /\ posted'[Second(i)] = posted[Second(i)]
         /\ completed'[SendTie(i)] = completed[SendTie(i)] /\ posted'[SendTie(i)] = posted[SendTie(i)]
         /\ \A x \in Side : completed'[Send(i, x)] = completed[Send(i, x)]
                            /\ posted'[Send(i, x)] = posted[Send(i, x)]
  BY <1>11, <1>13
<1>15. \A i \in Round : /\ SecondSent(i)' <=> SecondSent(i)
                        /\ \A x : Matched(SendTie(i), First(i), x)' <=>
                                    Matched(SendTie(i), First(i), x)
                        /\ \A x \in Side : Matched(Send(i, x), Second(i), x)' <=>
                                             Matched(Send(i, x), Second(i), x)
  BY <1>14 DEF SecondSent, Matched
<1>16. \A i \in Round : RoundMatched(i)'
  BY <1>14, <1>15 DEF LoopInv, RoundMatched
<1>17. SenderInOrder'
  <2>1. \A i \in Round : \A j \in 1 .. i - 1 : j \in Round
    BY CallKinds DEF Round
  <2> QED BY <1>1, <1>14, <1>15, <2>1 DEF LoopInv, SenderInOrder
<1>18. ReceiverInOrder'
  <2>1. \A l \in Call : completed[l] => completed'[l]
    BY <1>11
  <2>2. \A i \in 1 .. Last : \A j \in 1 .. i - 1 : Second(j) \in Call
    BY CallKinds DEF Round, Last
  <2> QED BY <1>1, <2>1, <2>2, CallKinds DEF LoopInv, ReceiverInOrder
<1>19. \A l \in Call : completed'[l] => Begun(l)'
  BY <1>1, <1>11 DEF LoopInv, k
<1>20. SecondSent(Rounds)'
  BY <1>2, <1>15, CallKinds
<1> QED BY <1>12, <1>16, <1>17, <1>18, <1>19, <1>20 DEF LoopInv

\* A match ends a call of the sender and the call of the receiver that it
\* belongs to.
LEMMA MatchStep ==
  ASSUME LoopInv, TypeOK, NEW c \in Chan, NEW p \in Producer, NEW o \in Consumer,
         Live(p, c), Live(o, c), Meets(p, o), UNCHANGED <<closed, unsubmitted>>
  PROVE  LoopInv'
<1> DEFINE k == CallOf[p]
           l == CallOf[o]
<1>1. /\ Begun(k) /\ ~completed[k] /\ Begun(l) /\ ~completed[l]
      /\ \A h : Begun(h)' <=> Begun(h)
  BY DEF Live, Begun, IoOp
<1>2. /\ completed'[k] /\ posted'[k] = <<Ok(p, NoValue)>>
      /\ completed'[l] /\ posted'[l] = <<Ok(o, p)>>
      /\ \A h \in Call : h # k /\ h # l =>
           completed'[h] = completed[h] /\ posted'[h] = posted[h]
  BY EndsTwo
<1>3. PICK i \in Round, x \in Side :
        /\ (k = SendTie(i) /\ l = First(i)) \/ (k = Send(i, x) /\ l = Second(i))
        /\ p = <<k, x>> /\ o = <<l, x>>
  BY Partners
<1> HIDE DEF k, l
<1>4. Matched(k, l, x)'
  BY <1>2, <1>3 DEF Matched
<1>5. \A h \in Call : completed[h] => completed'[h]
  BY <1>2
<1>6. \A h \in Call : completed'[h] => Begun(h)'
  BY <1>1, <1>2 DEF LoopInv
<1>7. \A j \in Round : SecondSent(j) => SecondSent(j)'
  BY <1>5, CallKinds DEF SecondSent
<1>8. (\E d \in Chan : closed'[d]) => SecondSent(Rounds)'
  BY <1>7, CallKinds DEF LoopInv
<1>9. /\ \A j \in 1 .. Last : First(j) \in Call /\ Second(j) \in Call
      /\ \A j \in Round : SendTie(j) \in Call /\ \A y \in Side : Send(j, y) \in Call
      /\ Last \notin Round /\ Round \subseteq 1 .. Last /\ Last \in 1 .. Last
      /\ \A j \in 1 .. Last : \A n \in 1 .. j - 1 : n \in 1 .. Last
      /\ \A j \in Round : \A n \in 1 .. j - 1 : n \in Round
  BY CallKinds DEF Round, Last
<1>10. ReceiverInOrder'
  BY <1>1, <1>5, <1>9 DEF LoopInv, ReceiverInOrder
<1>11. First(Last) # k /\ First(Last) # l
  BY <1>3, <1>9, CallNames, Sides DEF First, Second, SendTie
<1>12. LastFails'
  BY <1>2, <1>9, <1>11 DEF LoopInv, LastFails
<1>13. CASE k = SendTie(i) /\ l = First(i)
  <2>1. \A j \in Round : /\ Second(j) # k /\ Second(j) # l
                         /\ \A y \in Side : Send(j, y) # k /\ Send(j, y) # l
                         /\ j # i => /\ SendTie(j) # k /\ SendTie(j) # l
                                     /\ First(j) # k /\ First(j) # l
    BY <1>13, CallNames, Sides DEF First, Second, SendTie
  <2>2. \A j \in Round :
          /\ completed'[Second(j)] = completed[Second(j)] /\ posted'[Second(j)] = posted[Second(j)]
          /\ \A y \in Side : completed'[Send(j, y)] = completed[Send(j, y)]
                             /\ posted'[Send(j, y)] = posted[Send(j, y)]
    BY <1>2, <1>9, <2>1
  <2>3. \A j \in Round \ {i} :
          /\ completed'[First(j)] = completed[First(j)] /\ posted'[First(j)] = posted[First(j)]
          /\ completed'[SendTie(j)] = completed[SendTie(j)]
          /\ posted'[SendTie(j)] = posted[SendTie(j)]
    BY <1>2, <1>9, <2>1
  <2>4. \A j \in Round : /\ SecondSent(j)' <=> SecondSent(j)
                         /\ \A y \in Side : Matched(Send(j, y), Second(j), y)' <=>
                                              Matched(Send(j, y), Second(j), y)
    BY <2>2 DEF SecondSent, Matched
  <2>5. \A j \in Round \ {i} : \A y : Matched(SendTie(j), First(j), y)' <=>
                                        Matched(SendTie(j), First(j), y)
    BY <2>3 DEF Matched
  <2>6. \A j \in Round : RoundMatched(j)'
    <3> SUFFICES ASSUME NEW j \in Round PROVE RoundMatched(j)'
      OBVIOUS
    <3>1. RoundMatched(j)
      BY DEF LoopInv
    <3>2. CASE j = i
      BY <1>2, <1>4, <1>13, <2>2, <2>4, <3>1, <3>2 DEF RoundMatched
    <3>3. CASE j # i
      BY <2>2, <2>3, <2>4, <2>5, <3>1, <3>3 DEF RoundMatched
    <3> QED BY <3>2, <3>3
  <2>7. SenderInOrder'
    <3> SUFFICES ASSUME NEW j \in Round
                 PROVE  /\ Begun(SendTie(j))' => \A n \in 1 .. j - 1 : SecondSent(n)'
                        /\ \A y \in Side : Begun(Send(j, y))' =>
                             completed'[SendTie(j)]
                             /\ Matched(SendTie(j), First(j), Other(y))'
      BY DEF SenderInOrder
    <3>1. /\ Begun(SendTie(j)) => \A n \in 1 .. j - 1 : SecondSent(n)
          /\ \A y \in Side : Begun(Send(j, y)) =>
               completed[SendTie(j)] /\ Matched(SendTie(j), First(j), Other(y))
      BY DEF LoopInv, SenderInOrder
    <3>2. Begun(SendTie(j))' => \A n \in 1 .. j - 1 : SecondSent(n)'
      BY <1>1, <1>9, <2>4, <3>1
    <3>3. ASSUME NEW y \in Side, Begun(Send(j, y))
          PROVE  completed'[SendTie(j)] /\ Matched(SendTie(j), First(j), Other(y))'
      <4>1. j # i
        BY <1>1, <1>13, <3>1, <3>3
      <4> QED BY <2>3, <2>5, <3>1, <3>3, <4>1
    <3> QED BY <1>1, <3>2, <3>3
  <2> QED BY <1>6, <1>8, <1>10, <1>12, <2>6, <2>7 DEF LoopInv
<1>14. CASE k = Send(i, x) /\ l = Second(i)
  <2>1. \A j \in Round : /\ SendTie(j) # k /\ SendTie(j) # l
                         /\ First(j) # k /\ First(j) # l
                         /\ \A y \in Side : Send(j, y) # l /\ (Send(j, y) = k => j = i /\ y = x)
                         /\ j # i => Second(j) # k /\ Second(j) # l
    BY <1>14, CallNames, Sides DEF First, Second, SendTie
  <2>2. \A j \in Round :
          /\ completed'[First(j)] = completed[First(j)] /\ posted'[First(j)] = posted[First(j)]
          /\ completed'[SendTie(j)] = completed[SendTie(j)]
          /\ posted'[SendTie(j)] = posted[SendTie(j)]
    BY <1>2, <1>9, <2>1
  <2>3. \A j \in Round \ {i} :
          /\ completed'[Second(j)] = completed[Second(j)] /\ posted'[Second(j)] = posted[Second(j)]
          /\ \A y \in Side : completed'[Send(j, y)] = completed[Send(j, y)]
                             /\ posted'[Send(j, y)] = posted[Send(j, y)]
    BY <1>2, <1>9, <2>1
  <2>4. \A j \in Round : \A y : Matched(SendTie(j), First(j), y)' <=>
                                  Matched(SendTie(j), First(j), y)
    BY <2>2 DEF Matched
  <2>5. \A j \in Round \ {i} :
          /\ SecondSent(j)' <=> SecondSent(j)
          /\ \A y \in Side : Matched(Send(j, y), Second(j), y)' <=>
                               Matched(Send(j, y), Second(j), y)
    BY <2>3 DEF SecondSent, Matched
  <2>6. \A y \in Side : completed'[Send(i, y)] => y = x
    <3> SUFFICES ASSUME NEW y \in Side, completed'[Send(i, y)], y # x PROVE FALSE
      OBVIOUS
    <3>1. Send(i, y) # k /\ Send(i, y) # l
      BY <2>1
    <3>2. Begun(Send(i, y)) /\ Begun(Send(i, x))
      BY <1>1, <1>2, <1>9, <1>14, <3>1 DEF LoopInv
    <3> QED BY <3>2, SecondOfOne
  <2>7. SecondSent(i)'
    BY <1>2, <1>14 DEF SecondSent
  <2>8. \A j \in Round : RoundMatched(j)'
    <3> SUFFICES ASSUME NEW j \in Round PROVE RoundMatched(j)'
      OBVIOUS
    <3>1. RoundMatched(j)
      BY DEF LoopInv
    <3>2. CASE j = i
      BY <1>2, <1>4, <1>14, <2>2, <2>4, <2>6, <2>7, <3>1, <3>2 DEF RoundMatched
    <3>3. CASE j # i
      BY <2>2, <2>3, <2>4, <2>5, <3>1, <3>3 DEF RoundMatched
    <3> QED BY <3>2, <3>3
  <2>9. SenderInOrder'
    BY <1>1, <1>7, <1>9, <2>2, <2>4 DEF LoopInv, SenderInOrder
  <2> QED BY <1>6, <1>8, <1>10, <1>12, <2>8, <2>9 DEF LoopInv
<1> QED BY <1>3, <1>13, <1>14

\* A step that callers do not see keeps it.
LEMMA UnseenStep ==
  ASSUME LoopInv, UNCHANGED <<completed, posted, unsubmitted>>,
         (\E c \in Chan : closed'[c]) => SecondSent(Rounds)
  PROVE  LoopInv'
<1>1. \A k : Begun(k)' <=> Begun(k)
  BY DEF Begun
<1>2. /\ \A i : SecondSent(i)' <=> SecondSent(i)
      /\ \A k, l, x : Matched(k, l, x)' <=> Matched(k, l, x)
  BY DEF SecondSent, Matched
<1>3. \A i \in Round : RoundMatched(i)'
  BY <1>2 DEF LoopInv, RoundMatched
<1>4. SenderInOrder' /\ ReceiverInOrder'
  BY <1>1, <1>2 DEF LoopInv, SenderInOrder, ReceiverInOrder
<1>5. LastFails'
  BY DEF LoopInv, LastFails
<1> QED BY <1>1, <1>2, <1>3, <1>4, <1>5 DEF LoopInv

\* The parts of the invariant that a submission cannot disturb.
LEMMA SubmitKeeps ==
  ASSUME LoopInv, NEW o \in IoOp, Submit(o)
  PROVE  /\ \A k \in Call : completed'[k] => Begun(k)'
         /\ \A i \in Round : RoundMatched(i)'
         /\ LastFails'
         /\ (\E c \in Chan : closed'[c]) => SecondSent(Rounds)'
<1>1. /\ UNCHANGED <<closed, completed, posted>>
      /\ \A k : Begun(k)' <=> Begun(k) \/ k = CallOf[o]
  BY SubmitBegins
<1>2. /\ \A i : SecondSent(i)' <=> SecondSent(i)
      /\ \A k, l, x : Matched(k, l, x)' <=> Matched(k, l, x)
  BY <1>1 DEF SecondSent, Matched
<1>3. \A i \in Round : RoundMatched(i)'
  BY <1>1, <1>2 DEF LoopInv, RoundMatched
<1>4. LastFails'
  BY <1>1 DEF LoopInv, LastFails
<1>5. \A k \in Call : completed'[k] => Begun(k)'
  BY <1>1 DEF LoopInv
<1>6. (\E c \in Chan : closed'[c]) => SecondSent(Rounds)'
  BY <1>1, <1>2 DEF LoopInv
<1> QED BY <1>3, <1>4, <1>5, <1>6

\* The sender begins a call when it has ended the one before.
LEMMA SendStep ==
  ASSUME LoopInv, NEW p \in Producer, Reached(CallOf[p]), Submit(p)
  PROVE  LoopInv'
<1> DEFINE k == CallOf[p]
<1>1. /\ UNCHANGED <<closed, completed, posted>>
      /\ \A h : Begun(h)' <=> Begun(h) \/ h = k
  BY SubmitBegins DEF IoOp
<1>2. PICK i \in Round, x \in Side : k = SendTie(i) \/ k = Send(i, x)
  BY ProducerKinds
<1>3. Reached(k)
  OBVIOUS
<1> HIDE DEF k
<1>4. /\ \A j : SecondSent(j)' <=> SecondSent(j)
      /\ \A h, l, y : Matched(h, l, y)' <=> Matched(h, l, y)
  BY <1>1 DEF SecondSent, Matched
<1>5. ReceiverInOrder'
  <2>1. \A j \in 1 .. Last : First(j) # k /\ Second(j) # k
    BY <1>2, CallNames DEF First, Second, SendTie
  <2> QED BY <1>1, <2>1 DEF LoopInv, ReceiverInOrder
<1>6. ASSUME k = SendTie(i), NEW j \in 1 .. i - 1
      PROVE  SecondSent(j)
  <2>1. i - 1 \in Round /\ j \in Round /\ (j = i - 1 \/ j < i - 1) /\ i - 1 > 0
    BY CallKinds DEF Round
  <2>2. SentRound(i - 1)
    BY <1>3, <1>6, ReachedIs DEF SenderReaches, SendTie
  <2>3. PICK y \in Side : completed[Send(i - 1, y)]
    BY <2>1, <2>2 DEF SentRound, Returned
  <2>4. Begun(SendTie(i - 1)) /\ SecondSent(i - 1)
    BY <2>1, <2>3, CallKinds, SenderPast DEF LoopInv, SecondSent
  <2> QED BY <2>1, <2>4, SenderPast
<1>7. ASSUME k = Send(i, x)
      PROVE  completed[SendTie(i)] /\ Matched(SendTie(i), First(i), Other(x))
  <2>1. Returned(SendTie(i)) /\ Took(SendTie(i), Other(x))
    BY <1>3, <1>7, ReachedIs, Sides DEF SenderReaches, SendTie
  <2>2. completed[SendTie(i)]
    BY <2>1 DEF Returned
  <2>3. PICK y \in Side : Matched(SendTie(i), First(i), y)
    BY <2>2 DEF LoopInv, RoundMatched
  <2>4. posted[SendTie(i)] = <<Ok(<<SendTie(i), y>>, NoValue)>>
    BY <2>3 DEF Matched
  <2>5. \A n \in DOMAIN posted[SendTie(i)] :
          posted[SendTie(i)][n].which = <<SendTie(i), y>>
    BY <2>4 DEF Ok
  <2>6. Other(x) = y
    BY <2>1, <2>5, ProducerKinds DEF Took
  <2> QED BY <2>2, <2>3, <2>6
<1>8. SenderInOrder'
  <2> SUFFICES ASSUME NEW j \in Round
               PROVE  /\ Begun(SendTie(j))' => \A n \in 1 .. j - 1 : SecondSent(n)'
                      /\ \A y \in Side : Begun(Send(j, y))' =>
                           completed'[SendTie(j)]
                           /\ Matched(SendTie(j), First(j), Other(y))'
    BY DEF SenderInOrder
  <2>1. /\ k = SendTie(j) => k = SendTie(i) /\ j = i
        /\ \A y \in Side : k = Send(j, y) => k = Send(i, x) /\ j = i /\ y = x
    BY <1>2, CallNames, Sides DEF SendTie
  <2>2. /\ Begun(SendTie(j)) => \A n \in 1 .. j - 1 : SecondSent(n)
        /\ \A y \in Side : Begun(Send(j, y)) =>
             completed[SendTie(j)] /\ Matched(SendTie(j), First(j), Other(y))
    BY DEF LoopInv, SenderInOrder
  <2> QED BY <1>1, <1>4, <1>6, <1>7, <2>1, <2>2
<1> QED BY <1>5, <1>8, SubmitKeeps DEF LoopInv, IoOp

\* So does the receiver.
LEMMA ReceiveStep ==
  ASSUME LoopInv, NEW o \in Consumer, Reached(CallOf[o]), Submit(o)
  PROVE  LoopInv'
<1> DEFINE k == CallOf[o]
<1>1. /\ UNCHANGED <<closed, completed, posted>>
      /\ \A h : Begun(h)' <=> Begun(h) \/ h = k
  BY SubmitBegins DEF IoOp
<1>2. PICK i \in 1 .. Last : k = First(i) \/ k = Second(i)
  BY ConsumerKinds
<1>3. Reached(k)
  OBVIOUS
<1> HIDE DEF k
<1>4. /\ \A j : SecondSent(j)' <=> SecondSent(j)
      /\ \A h, l, y : Matched(h, l, y)' <=> Matched(h, l, y)
  BY <1>1 DEF SecondSent, Matched
<1>5. SenderInOrder'
  <2>1. \A j \in Round : SendTie(j) # k /\ \A x \in Side : Send(j, x) # k
    BY <1>2, CallNames DEF First, Second, SendTie
  <2> QED BY <1>1, <1>4, <2>1 DEF LoopInv, SenderInOrder
<1>6. ASSUME k = First(i), NEW j \in 1 .. i - 1
      PROVE  completed[Second(j)]
  <2>1. i - 1 \in 1 .. Last /\ j \in 1 .. Last /\ (j = i - 1 \/ j < i - 1) /\ i > 1
    BY CallKinds DEF Last, Round
  <2>2. completed[Second(i - 1)]
    BY <1>3, <1>6, <2>1, ReachedIs, Sides DEF ReceiverReaches, First, Second, Returned
  <2>3. Begun(First(i - 1))
    BY <2>1, <2>2, CallKinds, ReceiverPast DEF LoopInv
  <2> QED BY <2>1, <2>2, <2>3, ReceiverPast
<1>7. ASSUME k = Second(i)
      PROVE  completed[First(i)] /\ i # Last
  <2>1. Returned(First(i)) /\ NoError(First(i))
    BY <1>3, <1>7, ReachedIs, Sides DEF ReceiverReaches, First, Second
  <2>2. completed[First(i)]
    BY <2>1 DEF Returned
  <2>3. ASSUME i = Last PROVE FALSE
    <3>1. PICK x \in Side : posted[First(Last)] = <<ChannelClosed(<<First(Last), x>>)>>
      BY <2>2, <2>3 DEF LoopInv, LastFails
    <3>2. 1 \in DOMAIN posted[First(Last)] /\ posted[First(Last)][1].ec = "closed"
      BY <3>1 DEF ChannelClosed
    <3> QED BY <2>1, <2>3, <3>2 DEF NoError
  <2> QED BY <2>2, <2>3
<1>8. ReceiverInOrder'
  <2> SUFFICES ASSUME NEW j \in 1 .. Last
               PROVE  /\ Begun(First(j))' => \A n \in 1 .. j - 1 : completed'[Second(n)]
                      /\ Begun(Second(j))' => completed'[First(j)] /\ j # Last
    BY DEF ReceiverInOrder
  <2>1. /\ k = First(j) => k = First(i) /\ j = i
        /\ k = Second(j) => k = Second(i) /\ j = i
    BY <1>2, CallNames, Sides DEF First, Second
  <2>2. /\ Begun(First(j)) => \A n \in 1 .. j - 1 : completed[Second(n)]
        /\ Begun(Second(j)) => completed[First(j)] /\ j # Last
    BY DEF LoopInv, ReceiverInOrder
  <2> QED BY <1>1, <1>6, <1>7, <2>1, <2>2
<1> QED BY <1>5, <1>8, SubmitKeeps DEF LoopInv, IoOp

\* Every step of the program keeps the invariant.
LEMMA LoopInvStep ==
  ASSUME TypeOK, CallsInv, LoopInv, [LoopNext]_vars
  PROVE  LoopInv'
<1>1. CASE \E t \in Thread, c \in Chan : FlushStep(t, c)
  <2>1. PICK t \in Thread, c \in Chan : FlushStep(t, c)
    BY <1>1
  <2>2. Capacity[c] = 0
    BY LoopAssumption DEF LoopCapacity
  <2>3. Outward(c)
    BY <2>1, <2>2, FlushOutward, LoopIsSafe
  <2>4. CASE UNCHANGED <<completed, posted>>
    BY <2>3, <2>4, UnseenStep DEF Outward, LoopInv
  <2>5. CASE closed[c] /\ \E o \in IoOp : Live(o, c) /\ Ends(o, ChannelClosed(o))
    BY <2>3, <2>5, FailStep DEF Outward
  <2>6. CASE \E p \in Producer, o \in Consumer : Live(p, c) /\ Live(o, c) /\ Meets(p, o)
    BY <2>3, <2>6, MatchStep DEF Outward
  <2> QED BY <2>3, <2>4, <2>5, <2>6 DEF Outward
<1>2. CASE ReceiverSubmits
  BY <1>2, ReceiveStep DEF ReceiverSubmits, SubmitConsume
<1>3. CASE SenderSubmits
  BY <1>3, SendStep DEF SenderSubmits, SubmitProduce
<1>4. CASE SenderCloses
  <2>1. PICK t \in Closer : CloseReached(t) /\ RunClose(t)
    BY <1>4 DEF SenderCloses
  <2>2. SecondSent(Rounds)
    BY <2>1, RoundsAssumption DEF CloseReached, SentRound, SecondSent, Returned
  <2>3. UNCHANGED <<completed, posted, unsubmitted>>
    BY <2>1 DEF RunClose, callVars
  <2> QED BY <2>2, <2>3, UnseenStep
<1>5. CASE UNCHANGED vars
  BY <1>5, UnseenStep DEF vars, LoopInv
<1> QED BY <1>1, <1>2, <1>3, <1>4, <1>5 DEF LoopNext

LEMMA LoopInvInit == Init => LoopInv
<1> SUFFICES ASSUME Init PROVE LoopInv
  OBVIOUS
<1>1. /\ \A k \in Call : ~completed[k]
      /\ \A c \in Chan : ~closed[c]
      /\ \A k : ~Begun(k)
  BY DEF Init, Begun
<1>2. \A i \in Round : ~SecondSent(i)
  BY <1>1, CallKinds DEF SecondSent
<1>3. \A i \in Round : RoundMatched(i)
  BY <1>1, <1>2, CallKinds DEF RoundMatched
<1>4. SenderInOrder /\ ReceiverInOrder
  BY <1>1 DEF SenderInOrder, ReceiverInOrder
<1>5. LastFails
  BY <1>1, CallKinds DEF LastFails
<1> QED BY <1>1, <1>3, <1>4, <1>5 DEF LoopInv

\* The invariant says what the checks of the test ask for.
LEMMA LoopInvMatches ==
  ASSUME TypeOK, CallsInv, LoopInv
  PROVE  RoundsMatch
<1>1. ASSUME NEW k \in Call, NEW j \in DOMAIN posted[k]
      PROVE  completed[k]
  <2>1. posted[k] \in Seq(Outcome) /\ Len(posted[k]) # 0
    BY <1>1 DEF TypeOK
  <2> QED BY <2>1 DEF CallsInv, CompletedOnce
<1>2. ASSUME NEW k, NEW l, NEW x \in Side, Matched(k, l, x)
      PROVE  /\ \A j \in DOMAIN posted[k] : posted[k][j] = Ok(<<k, x>>, NoValue)
             /\ \A j \in DOMAIN posted[l] : posted[l][j] = Ok(<<l, x>>, <<k, x>>)
             /\ 1 \in DOMAIN posted[l] /\ posted[l][1] = Ok(<<l, x>>, <<k, x>>)
  BY <1>2 DEF Matched
<1>3. \A i, x : Send(i, x)[2] = i
  BY DEF Send
<1>4. ASSUME NEW i \in Round, NEW j \in DOMAIN posted[First(i)]
      PROVE  /\ posted[First(i)][j].ec = "ok"
             /\ posted[First(i)][j].val[1][2] = i
  <2>1. PICK x \in Side : Matched(SendTie(i), First(i), x)
    BY <1>1, <1>4, CallKinds DEF LoopInv, RoundMatched
  <2>2. posted[First(i)][j] = Ok(<<First(i), x>>, <<SendTie(i), x>>)
    BY <1>2, <1>4, <2>1
  <2> QED BY <1>3, <2>2 DEF Ok, SendTie
<1>5. ASSUME NEW i \in Round, NEW j \in DOMAIN posted[Second(i)]
      PROVE  /\ posted[Second(i)][j].ec = "ok"
             /\ posted[Second(i)][j].val[1][2] = i
             /\ Took(First(i), Other(ChanOf[posted[Second(i)][j].which]))
  <2>1. SecondSent(i)
    BY <1>1, <1>5, CallKinds DEF LoopInv, RoundMatched
  <2>2. PICK x \in Side : completed[Send(i, x)]
    BY <2>1 DEF SecondSent
  <2>3. Matched(Send(i, x), Second(i), x) /\ Matched(SendTie(i), First(i), Other(x))
    BY <2>2, CallKinds DEF LoopInv, RoundMatched, SenderInOrder
  <2>4. posted[Second(i)][j] = Ok(<<Second(i), x>>, <<Send(i, x), x>>)
    BY <1>2, <1>5, <2>3
  <2>5. /\ 1 \in DOMAIN posted[First(i)]
        /\ posted[First(i)][1] = Ok(<<First(i), Other(x)>>, <<SendTie(i), Other(x)>>)
    BY <1>2, <2>3, Sides
  <2>6. ChanOf[<<Second(i), x>>] = x /\ ChanOf[<<First(i), Other(x)>>] = Other(x)
    BY ConsumerKinds, CallKinds, Sides
  <2>7. posted[Second(i)][j].which = <<Second(i), x>>
        /\ posted[First(i)][1].which = <<First(i), Other(x)>>
    BY <2>4, <2>5 DEF Ok
  <2>8. Took(First(i), Other(x))
    BY <2>5, <2>6, <2>7 DEF Took
  <2> QED BY <1>3, <2>4, <2>6, <2>7, <2>8 DEF Ok
<1>6. ASSUME NEW k \in Call, ~NoError(k)
      PROVE  k = First(Last)
  <2>1. PICK j \in DOMAIN posted[k] : posted[k][j].ec # "ok"
    BY <1>6 DEF NoError
  <2>2. completed[k]
    BY <1>1, <2>1
  <2>3. \A i \in Round : k # First(i) /\ k # Second(i)
    BY <1>4, <1>5, <2>1
  <2>4. \A i \in Round : k # SendTie(i)
    <3> SUFFICES ASSUME NEW i \in Round, k = SendTie(i) PROVE FALSE
      OBVIOUS
    <3>1. PICK x \in Side : Matched(k, First(i), x)
      BY <2>2 DEF LoopInv, RoundMatched
    <3>2. posted[k][j] = Ok(<<k, x>>, NoValue)
      BY <1>2, <2>1, <3>1
    <3> QED BY <2>1, <3>2 DEF Ok
  <2>5. \A i \in Round, x \in Side : k # Send(i, x)
    <3> SUFFICES ASSUME NEW i \in Round, NEW x \in Side, k = Send(i, x) PROVE FALSE
      OBVIOUS
    <3>1. Matched(k, Second(i), x)
      BY <2>2 DEF LoopInv, RoundMatched
    <3>2. posted[k][j] = Ok(<<k, x>>, NoValue)
      BY <1>2, <2>1, <3>1
    <3> QED BY <2>1, <3>2 DEF Ok
  <2>6. k # Second(Last)
    BY <2>2, CallKinds DEF LoopInv, ReceiverInOrder
  <2>7. \A i \in 1 .. Last : i = Last \/ i \in Round
    BY CallKinds DEF Round, Last
  <2> QED BY <2>3, <2>4, <2>5, <2>6, <2>7, CallKinds
<1> QED BY <1>4, <1>5, <1>6 DEF RoundsMatch, First, Second, Last, Round

\* In every run of the test with two producers and two consumers, of any number
\* of rounds: each tie and each second call of the receiver gets the value that
\* was sent for it in that round, on the channel it was sent on, and no call
\* fails but the tie that is told of the close (test_select.cpp:82-161).
THEOREM RoundsAlwaysMatch == LoopSpec => []RoundsMatch
<1>1. LoopSpec => Spec
  BY LoopStep, PTL DEF LoopSpec, Spec
<1>2. LoopSpec => []TypeOK /\ []CallsInv
  BY <1>1, TypeCorrect, CallsInvariant, LoopIsSafe, PTL
<1>3. Init => LoopInv
  BY LoopInvInit
<1>4. TypeOK /\ CallsInv /\ LoopInv /\ [LoopNext]_vars => LoopInv'
  BY LoopInvStep
<1>5. LoopSpec => []LoopInv
  BY <1>2, <1>3, <1>4, PTL DEF LoopSpec
<1>6. TypeOK /\ CallsInv /\ LoopInv => RoundsMatch
  BY LoopInvMatches
<1> QED BY <1>2, <1>5, <1>6, PTL
=============================================================================
