--------------------------- MODULE ExampleProofs ---------------------------
(***************************************************************************)
(* Theorems about the example programs, for any numbers of channels,       *)
(* words and receivers.                                                    *)
(***************************************************************************)
EXTENDS MultiConsumerTie, EventLoop, ChannelValueProofs

-----------------------------------------------------------------------------
(***************************************************************************)
(* examples/multi-consumer-tie.cpp.                                        *)
(*                                                                         *)
(* A sender has one send under way, and among the receives on a channel    *)
(* only the last one begun is live: the others are stale legs.  A match    *)
(* therefore gives the next word of a channel to a receive that comes      *)
(* after all those that got a word from it.                                *)
(***************************************************************************)
\* The operation of a send, and the word that it sends.
SendOp(c, i) == <<Send(c, i), c>>

\* Receive k got word i of channel c.
GotWord(c, i, k) ==
  <<k, c>> \in TieConsumer /\ posted[k] = <<Ok(<<k, c>>, SendOp(c, i))>>

\* Receive k was told that channel c is closed.
ToldOf(c, k) ==
  /\ <<k, c>> \in TieConsumer /\ posted[k] = <<ChannelClosed(<<k, c>>)>>
  /\ closed[c]

\* Each sender makes its calls in order, and closes its channel after them.
SendsInOrder ==
  \A c \in Ch :
    /\ \A i \in 1 .. Words[c] : Begun(Send(c, i)) =>
         \A j \in 1 .. i - 1 : completed[Send(c, j)]
    /\ closed[c] => \A i \in 1 .. Words[c] : completed[Send(c, i)]

\* The receiver goes on to its next tie, or receive from a channel, when the
\* one before got a word, and drains the channels after a tie that failed.
GoodEnd(k) == completed[k] /\ NoError(k)
BadEnd(k) == completed[k] /\ ~NoError(k)

ReceivesInOrder ==
  /\ \A n \in 1 .. Ties : Begun(Tie(n)) => \A m \in 1 .. n - 1 : GoodEnd(Tie(m))
  /\ \A c \in Ch : \A n \in 1 .. Words[c] + 1 : Begun(Drain(c, n)) =>
       /\ \A m \in 1 .. n - 1 : GoodEnd(Drain(c, m))
       /\ \E m \in 1 .. Ties : BadEnd(Tie(m))

\* No send fails, and its word was got by a receive; a receive got a word or
\* was told of the close.
WordsGot ==
  /\ \A c \in Ch : \A i \in 1 .. Words[c] : completed[Send(c, i)] =>
       /\ posted[Send(c, i)] = <<Ok(SendOp(c, i), NoValue)>>
       /\ \E k \in ConsumeCalls : GotWord(c, i, k)
  /\ \A k \in ConsumeCalls : completed[k] =>
       \/ \E c \in Ch : \E i \in 1 .. Words[c] : completed[Send(c, i)] /\ GotWord(c, i, k)
       \/ \E c \in Ch : ToldOf(c, k)

\* The words of a channel are got in order.
GotInOrder ==
  \A c \in Ch : \A i, j \in 1 .. Words[c] : \A k, l \in ConsumeCalls :
    GotWord(c, i, k) /\ GotWord(c, j, l) =>
      /\ i < j => Place(k) < Place(l)
      /\ i = j => k = l

TiesInv ==
  /\ \A o \in IoOp \ unsubmitted : o \in TieProducer \cup TieConsumer
  /\ \A k \in Call : completed[k] => Begun(k)
  /\ SendsInOrder
  /\ ReceivesInOrder
  /\ WordsGot
  /\ GotInOrder

-----------------------------------------------------------------------------
(***************************************************************************)
(* The names of the calls and operations.                                  *)
(***************************************************************************)
LEMMA TieCallNames ==
  /\ \A c, d, i, j : Send(c, i) = Send(d, j) <=> c = d /\ i = j
  /\ \A n, m : Tie(n) = Tie(m) <=> n = m
  /\ \A c, d, n, m : Drain(c, n) = Drain(d, m) <=> c = d /\ n = m
  /\ \A c, d, i, n : Send(c, i) # Tie(n) /\ Send(c, i) # Drain(d, n)
  /\ \A c, n, m : Tie(n) # Drain(c, m)
BY DEF Send, Tie, Drain

LEMMA TieSizes ==
  /\ Channels \in Nat /\ Ties \in Nat
  /\ \A c \in Ch : Words[c] \in Nat /\ Words[c] >= 1 /\ Words[c] \in 1 .. Words[c]
<1> DEFINE wordsOf == [c \in Ch |-> {c} \X (1 .. Words[c])]
           S == {{c} \X (1 .. Words[c]) : c \in Ch}
<1>1. /\ Channels \in Nat
      /\ \A c \in Ch : Words[c] \in Nat /\ Words[c] >= 1 /\ Words[c] \in 1 .. Words[c]
  BY WordsAssumption
<1>2. IsFiniteSet(Ch)
  BY <1>1, FS_Interval DEF Ch
<1>3. IsFiniteSet(S)
  <2>1. wordsOf \in Surjection(Ch, S)
    BY DEF Surjection
  <2> QED BY <1>2, <2>1, FS_Surjection
<1>4. ASSUME NEW c \in Ch PROVE IsFiniteSet({c} \X (1 .. Words[c]))
  <2>1. IsFiniteSet({c})
    BY FS_Singleton
  <2>2. IsFiniteSet(1 .. Words[c])
    BY <1>1, FS_Interval
  <2> QED BY <2>1, <2>2, FS_Product
<1>5. \A T \in S : IsFiniteSet(T)
  BY <1>4
<1>6. IsFiniteSet(UNION S)
  BY ONLY <1>3, <1>5, FS_UNION
<1>7. Cardinality(UNION S) \in Nat
  BY ONLY <1>6, FS_CardinalityType
<1>8. Ties = Cardinality(UNION S) + 1
  BY DEF Ties
<1> HIDE DEF S
<1> QED BY <1>1, <1>7, <1>8

\* A send is a call of one operation.
LEMMA SendOps ==
  /\ \A c \in Ch : \A i \in 1 .. Words[c] :
       /\ Send(c, i) \in TieCall /\ Send(c, i) \in Call
       /\ SendOp(c, i) \in TieProducer /\ SendOp(c, i) \in Producer
       /\ CallOf[SendOp(c, i)] = Send(c, i) /\ ChanOf[SendOp(c, i)] = c
  /\ \A p \in TieProducer : \E c \in Ch : \E i \in 1 .. Words[c] : p = SendOp(c, i)
<1>1. \A p \in TieProducer : CallOf[p] = p[1] /\ ChanOf[p] = p[2]
  BY TiesAssumption DEF TieCallOf, TieChanOf
<1>2. \A c \in Ch : \A i \in 1 .. Words[c] :
        Send(c, i) \in TieCall /\ SendOp(c, i) \in TieProducer
  BY DEF TieCall, TieProducer, SendOp
<1>3. \A c, i : SendOp(c, i)[1] = Send(c, i) /\ SendOp(c, i)[2] = c
  BY DEF SendOp
<1>4. \A p \in TieProducer : \E c \in Ch : \E i \in 1 .. Words[c] : p = SendOp(c, i)
  BY DEF TieProducer, SendOp
<1>5. TieCall \subseteq Call /\ TieProducer \subseteq Producer
  BY TiesAssumption
<1> QED BY <1>1, <1>2, <1>3, <1>4, <1>5

\* A receive is a tie, of operations on all channels, or it drains one channel.
LEMMA ReceiveOps ==
  /\ \A o \in TieConsumer :
       /\ o \in Consumer /\ CallOf[o] \in ConsumeCalls /\ ChanOf[o] \in Ch
       /\ o = <<CallOf[o], ChanOf[o]>>
  /\ \A k, c : <<k, c>> \in TieConsumer =>
       CallOf[<<k, c>>] = k /\ ChanOf[<<k, c>>] = c
  /\ \A k \in ConsumeCalls :
       /\ k \in Call /\ k \in TieCall
       /\ \/ \E n \in 1 .. Ties : k = Tie(n)
          \/ \E c \in Ch : \E n \in 1 .. Words[c] + 1 : k = Drain(c, n)
  /\ \A n \in 1 .. Ties : Tie(n) \in TieCall /\ Tie(n) \in Call
  /\ \A c \in Ch : \A n \in 1 .. Words[c] + 1 : Drain(c, n) \in TieCall /\ Drain(c, n) \in Call
  /\ \A c, d, n : <<Drain(d, n), c>> \in TieConsumer => c = d
<1>1. \A o \in TieConsumer : CallOf[o] = o[1] /\ ChanOf[o] = o[2]
  BY TiesAssumption DEF TieCallOf, TieChanOf
<1>2. \A o \in TieConsumer :
        \/ \E n \in 1 .. Ties, c \in Ch : o = <<Tie(n), c>>
        \/ \E c \in Ch : \E n \in 1 .. Words[c] + 1 : o = <<Drain(c, n), c>>
  BY DEF TieConsumer
<1>3. \A o \in TieConsumer : /\ o \in Consumer
                             /\ ChanOf[o] \in Ch /\ o = <<CallOf[o], ChanOf[o]>>
                             /\ CallOf[o] \in ConsumeCalls
  BY <1>1, <1>2, TiesAssumption DEF ConsumeCalls
<1>4. \A n \in 1 .. Ties : Tie(n) \in TieCall
  BY DEF TieCall
<1>5. \A c \in Ch : \A n \in 1 .. Words[c] + 1 : Drain(c, n) \in TieCall
  BY DEF TieCall
<1>6. \A k \in ConsumeCalls : \/ \E n \in 1 .. Ties : k = Tie(n)
                              \/ \E c \in Ch : \E n \in 1 .. Words[c] + 1 : k = Drain(c, n)
  BY <1>1, <1>2 DEF ConsumeCalls
<1>7. \A c, d, n : <<Drain(d, n), c>> \in TieConsumer => c = d
  BY <1>2, TieCallNames
<1>8. TieCall \subseteq Call
  BY TiesAssumption
<1> QED BY <1>1, <1>3, <1>4, <1>5, <1>6, <1>7, <1>8

\* The places of the receives in the order of consume().
LEMMA PlacesOrder ==
  /\ \A n : Place(Tie(n)) = n
  /\ \A c, n : Place(Drain(c, n)) = Ties + n
  /\ \A k \in ConsumeCalls : Place(k) \in Nat
<1>1. \A n : Tie(n)[1] = "tie" /\ Tie(n)[3] = n
  BY DEF Tie
<1>2. \A c, n : Drain(c, n)[1] = "drain" /\ Drain(c, n)[3] = n
  BY DEF Drain
<1>3. "drain" # "tie"
  OBVIOUS
<1>4. /\ \A n : Place(Tie(n)) = n
      /\ \A c, n : Place(Drain(c, n)) = Ties + n
  BY <1>1, <1>2, <1>3 DEF Place
<1> QED BY <1>4, ReceiveOps, TieSizes

\* The program uses the library safely.
LEMMA TiesAreSafe == SafeUse
BY TiesAssumption DEF SafeUse, PlainPolls

LEMMA TieStep == TieNext => [Next]_vars
<1>1. /\ \A o \in Consumer : SubmitConsume(o) => Next
      /\ \A p \in Producer : SubmitProduce(p) => Next
      /\ \A t \in Closer : RunClose(t) => Next
      /\ \A t \in Thread, c \in Chan : FlushStep(t, c) => Next
  BY DEF Next
<1>2. \A T \in SUBSET Thread : FlushBy(T) => Next
  BY <1>1 DEF FlushBy
<1>3. ConsumeCalls \subseteq Thread
  BY ReceiveOps DEF Thread
<1>4. \A c \in Ch : ProduceCalls(c) \subseteq Thread /\ <<"close", c>> \in Closer
  BY SendOps, TiesAssumption DEF ProduceCalls, Thread, TieCloser
<1>5. TieProducer \subseteq Producer /\ TieConsumer \subseteq Consumer
  BY TiesAssumption
<1>6. Consume => Next
  BY <1>1, <1>2, <1>3, <1>5 DEF Consume
<1>7. \A c \in Ch : Produce(c) => Next
  BY <1>1, <1>2, <1>4, <1>5 DEF Produce
<1> QED BY <1>6, <1>7 DEF TieNext

-----------------------------------------------------------------------------
(***************************************************************************)
(* The calls that are under way.                                           *)
(***************************************************************************)
\* An operation that lives is one of this program.
LEMMA LiveOps ==
  ASSUME TiesInv, NEW c \in Chan, NEW o \in IoOp, Live(o, c)
  PROVE  /\ Begun(CallOf[o]) /\ ~completed[CallOf[o]] /\ ChanOf[o] = c /\ c \in Ch
         /\ o \in Producer => \E i \in 1 .. Words[c] : o = SendOp(c, i)
         /\ o \in Consumer =>
              o \in TieConsumer /\ o = <<CallOf[o], c>> /\ CallOf[o] \in ConsumeCalls
<1>1. Begun(CallOf[o]) /\ ~completed[CallOf[o]] /\ ChanOf[o] = c
  BY DEF Live, Begun
<1>2. o \in TieProducer \cup TieConsumer
  BY DEF Live, TiesInv
<1>3. Producer \cap Consumer = {} /\ TieProducer \subseteq Producer
  BY SetsAssumption, TiesAssumption
<1>4. CASE o \in TieProducer
  <2>1. PICK d \in Ch : \E i \in 1 .. Words[d] : o = SendOp(d, i)
    BY <1>4, SendOps
  <2>2. ChanOf[o] = d
    BY <2>1, SendOps
  <2> QED BY <1>1, <1>3, <1>4, <2>1, <2>2
<1>5. CASE o \in TieConsumer
  BY <1>1, <1>3, <1>5, ReceiveOps
<1> QED BY <1>2, <1>4, <1>5

\* The send that is under way is the first that is not completed, and its
\* channel is open.
LEMMA FirstOpenSend ==
  ASSUME TiesInv, NEW c \in Ch, NEW i \in 1 .. Words[c],
         Begun(Send(c, i)), ~completed[Send(c, i)]
  PROVE  /\ \A j \in 1 .. Words[c] : completed[Send(c, j)] <=> j < i
         /\ ~closed[c]
<1>1. \A j \in 1 .. Words[c] : completed[Send(c, j)] => Begun(Send(c, j))
  BY SendOps DEF TiesInv
<1>2. \A j \in 1 .. Words[c] : Begun(Send(c, j)) =>
        \A n \in 1 .. j - 1 : completed[Send(c, n)]
  BY DEF TiesInv, SendsInOrder
<1>3. \A j \in 1 .. Words[c] : j < i => completed[Send(c, j)]
  BY <1>2, TieSizes
<1>4. \A j \in 1 .. Words[c] : completed[Send(c, j)] => ~(i < j)
  BY <1>1, <1>2, TieSizes
<1>5. ~closed[c]
  BY DEF TiesInv, SendsInOrder
<1> QED BY <1>3, <1>4, <1>5, TieSizes

\* The receive that is under way comes after those that ended.
LEMMA LastOpenReceive ==
  ASSUME TiesInv, NEW c \in Ch, NEW k \in ConsumeCalls, NEW l \in ConsumeCalls,
         <<k, c>> \in TieConsumer, <<l, c>> \in TieConsumer,
         Begun(k), ~completed[k], completed[l]
  PROVE  Place(l) < Place(k)
<1>1. Begun(l)
  BY ReceiveOps DEF TiesInv
<1>2. \A n \in 1 .. Ties : Begun(Tie(n)) => \A m \in 1 .. n - 1 : GoodEnd(Tie(m))
  BY DEF TiesInv, ReceivesInOrder
<1>3. \A n \in 1 .. Words[c] + 1 : Begun(Drain(c, n)) =>
        /\ \A m \in 1 .. n - 1 : GoodEnd(Drain(c, m))
        /\ \E m \in 1 .. Ties : BadEnd(Tie(m))
  BY DEF TiesInv, ReceivesInOrder
<1>4. CASE \E n \in 1 .. Ties : k = Tie(n)
  <2>1. PICK n \in 1 .. Ties : k = Tie(n)
    BY <1>4
  <2>2. \A m \in 1 .. Ties : n < m => ~Begun(Tie(m))
    BY <1>2, <2>1, TieSizes DEF GoodEnd
  <2>3. \A m \in 1 .. Ties : ~BadEnd(Tie(m))
    <3> SUFFICES ASSUME NEW m \in 1 .. Ties, BadEnd(Tie(m)) PROVE FALSE
      OBVIOUS
    <3>1. Begun(Tie(m)) /\ m # n /\ ~GoodEnd(Tie(m))
      BY <2>1, ReceiveOps DEF BadEnd, GoodEnd, TiesInv
    <3>2. ~(m < n)
      BY <1>2, <2>1, <3>1, TieSizes
    <3> QED BY <2>2, <3>1, <3>2, TieSizes
  <2>4. PICK m \in 1 .. Ties : l = Tie(m)
    BY <1>1, <1>3, <2>3, ReceiveOps
  <2>5. m # n /\ ~(n < m)
    BY <1>1, <2>1, <2>2, <2>4
  <2> QED BY <2>1, <2>4, <2>5, PlacesOrder, TieSizes
<1>5. CASE \E d \in Ch : \E n \in 1 .. Words[d] + 1 : k = Drain(d, n)
  <2>1. PICK n \in 1 .. Words[c] + 1 : k = Drain(c, n)
    BY <1>5, ReceiveOps
  <2>2. CASE \E m \in 1 .. Ties : l = Tie(m)
    BY <2>1, <2>2, PlacesOrder, TieSizes
  <2>3. CASE \E d \in Ch : \E m \in 1 .. Words[d] + 1 : l = Drain(d, m)
    <3>1. PICK m \in 1 .. Words[c] + 1 : l = Drain(c, m)
      BY <2>3, ReceiveOps
    <3>2. m # n /\ ~(n < m)
      BY <1>1, <1>3, <2>1, <3>1, TieSizes DEF GoodEnd
    <3> QED BY <2>1, <3>1, <3>2, PlacesOrder, TieSizes
  <2> QED BY <2>2, <2>3, ReceiveOps
<1> QED BY <1>4, <1>5, ReceiveOps

-----------------------------------------------------------------------------
(***************************************************************************)
(* Every step of the ties keeps their invariant.                           *)
(***************************************************************************)
\* A call that has ended stays as it ended.
LEMMA GoodAndBadStay ==
  ASSUME \A k \in Call : completed[k] => completed'[k] /\ posted'[k] = posted[k]
  PROVE  \A k \in Call : /\ GoodEnd(k) => GoodEnd(k)'
                         /\ BadEnd(k) => BadEnd(k)'
BY DEF GoodEnd, BadEnd, NoError

\* A step that ends calls that were under way keeps the order of the loops.
LEMMA EndsKeepOrder ==
  ASSUME TiesInv, UNCHANGED <<closed, unsubmitted>>,
         \A k \in Call : completed[k] => completed'[k] /\ posted'[k] = posted[k],
         \A k \in Call : completed'[k] => Begun(k)
  PROVE  /\ \A o \in IoOp \ unsubmitted' : o \in TieProducer \cup TieConsumer
         /\ \A k \in Call : completed'[k] => Begun(k)'
         /\ SendsInOrder' /\ ReceivesInOrder'
<1>1. \A k : Begun(k)' <=> Begun(k)
  BY DEF Begun
<1>2. \A k \in Call : /\ GoodEnd(k) => GoodEnd(k)'
                      /\ BadEnd(k) => BadEnd(k)'
  BY GoodAndBadStay
<1>3. SendsInOrder'
  <2>1. \A c \in Ch : \A i \in 1 .. Words[c] : completed[Send(c, i)] => completed'[Send(c, i)]
    BY SendOps
  <2>2. \A c \in Ch : \A i \in 1 .. Words[c] : Begun(Send(c, i)) =>
          \A j \in 1 .. i - 1 : completed'[Send(c, j)]
    BY <2>1, TieSizes DEF TiesInv, SendsInOrder
  <2>3. \A c \in Ch : closed[c] => \A i \in 1 .. Words[c] : completed'[Send(c, i)]
    BY <2>1 DEF TiesInv, SendsInOrder
  <2> QED BY <1>1, <2>2, <2>3 DEF SendsInOrder
<1>4. ReceivesInOrder'
  <2>1. \A n \in 1 .. Ties : Begun(Tie(n)) => \A m \in 1 .. n - 1 : GoodEnd(Tie(m))'
    BY <1>2, ReceiveOps, TieSizes DEF TiesInv, ReceivesInOrder
  <2>2. \A c \in Ch : \A n \in 1 .. Words[c] + 1 : Begun(Drain(c, n)) =>
          \A m \in 1 .. n - 1 : GoodEnd(Drain(c, m))'
    BY <1>2, ReceiveOps, TieSizes DEF TiesInv, ReceivesInOrder
  <2>3. \A c \in Ch : \A n \in 1 .. Words[c] + 1 : Begun(Drain(c, n)) =>
          \E m \in 1 .. Ties : BadEnd(Tie(m))'
    BY <1>2, ReceiveOps DEF TiesInv, ReceivesInOrder
  <2> QED BY <1>1, <2>1, <2>2, <2>3 DEF ReceivesInOrder
<1>5. \A o \in IoOp \ unsubmitted' : o \in TieProducer \cup TieConsumer
  BY DEF TiesInv
<1> QED BY <1>1, <1>3, <1>4, <1>5

\* Who got which word.
LEMMA GotWordIs ==
  /\ \A c, d, i, j, k : GotWord(c, i, k) /\ GotWord(d, j, k) => c = d /\ i = j
  /\ \A c, d, i, k : ~(GotWord(c, i, k) /\ ToldOf(d, k))
<1>1. ASSUME NEW c, NEW i, NEW k, GotWord(c, i, k)
      PROVE  posted[k][1].ec = "ok" /\ posted[k][1].val[1] = Send(c, i)
  <2>1. posted[k][1] = Ok(<<k, c>>, SendOp(c, i))
    BY <1>1 DEF GotWord
  <2> QED BY <2>1 DEF Ok, SendOp
<1>2. ASSUME NEW d, NEW k, ToldOf(d, k)
      PROVE  posted[k][1].ec = "closed"
  BY <1>2 DEF ToldOf, ChannelClosed
<1>3. ASSUME NEW c, NEW d, NEW i, NEW j, NEW k, GotWord(c, i, k), GotWord(d, j, k)
      PROVE  c = d /\ i = j
  <2>1. Send(c, i) = Send(d, j)
    BY <1>1, <1>3
  <2> QED BY <2>1, TieCallNames
<1>4. ASSUME NEW c, NEW d, NEW i, NEW k, GotWord(c, i, k), ToldOf(d, k)
      PROVE  FALSE
  BY <1>1, <1>2, <1>4
<1> QED BY <1>3, <1>4

LEMMA GotWordEnded ==
  ASSUME TypeOK, CallsInv, TiesInv, NEW c \in Ch, NEW i \in 1 .. Words[c],
         NEW k \in ConsumeCalls, GotWord(c, i, k)
  PROVE  completed[k] /\ completed[Send(c, i)]
<1>1. completed[k]
  <2>1. k \in Call /\ Len(posted[k]) = 1
    BY ReceiveOps DEF GotWord
  <2> QED BY <2>1 DEF CallsInv, CompletedOnce
<1>2. \/ \E d \in Ch : \E j \in 1 .. Words[d] : completed[Send(d, j)] /\ GotWord(d, j, k)
      \/ \E d \in Ch : ToldOf(d, k)
  BY <1>1 DEF TiesInv, WordsGot
<1> QED BY <1>1, <1>2, GotWordIs

\* A flush that tells a receive of the close.
LEMMA TieFailStep ==
  ASSUME TypeOK, CallsInv, TiesInv, NEW c \in Chan, closed[c], NEW o \in IoOp,
         Live(o, c), Ends(o, ChannelClosed(o)), UNCHANGED <<closed, unsubmitted>>
  PROVE  TiesInv'
<1> DEFINE k == CallOf[o]
<1>1. Begun(k) /\ ~completed[k] /\ c \in Ch
  BY LiveOps
<1>2. o \in TieConsumer /\ o = <<k, c>> /\ k \in ConsumeCalls
  <2>1. o \notin Producer
    BY <1>1, LiveOps, SendOps, FirstOpenSend
  <2> QED BY <2>1, LiveOps DEF IoOp
<1>3. /\ completed'[k] /\ posted'[k] = <<ChannelClosed(o)>>
      /\ \A l \in Call : l # k => completed'[l] = completed[l] /\ posted'[l] = posted[l]
  BY EndsOne
<1> HIDE DEF k
<1>4. /\ \A l \in Call : completed[l] => completed'[l] /\ posted'[l] = posted[l]
      /\ \A l \in Call : completed'[l] => Begun(l)
  BY <1>1, <1>3 DEF TiesInv
<1>5. \A d, i : \A l \in ConsumeCalls : GotWord(d, i, l)' => GotWord(d, i, l) /\ l # k
  <2>1. posted'[k][1].ec = "closed"
    BY <1>3 DEF ChannelClosed
  <2>2. \A d, i : GotWord(d, i, k)' => posted'[k][1].ec = "ok"
    BY DEF GotWord, Ok
  <2> QED BY <1>3, <2>1, <2>2, ReceiveOps DEF GotWord
<1>6. /\ \A d \in Ch : \A i \in 1 .. Words[d] : \A l \in ConsumeCalls :
           GotWord(d, i, l) => GotWord(d, i, l)'
      /\ \A d \in Ch : \A l \in ConsumeCalls \ {k} : ToldOf(d, l) => ToldOf(d, l)'
  <2>1. \A d \in Ch : \A i \in 1 .. Words[d] : ~GotWord(d, i, k)
    BY <1>1, <1>2, GotWordEnded
  <2> QED BY <1>3, <2>1, ReceiveOps DEF GotWord, ToldOf
<1>7. ToldOf(c, k)'
  BY <1>2, <1>3 DEF ToldOf
<1>8. \A d \in Ch : \A i \in 1 .. Words[d] : Send(d, i) # k
  BY <1>2, ReceiveOps, TieCallNames
<1>9. WordsGot'
  <2>1. ASSUME NEW d \in Ch, NEW i \in 1 .. Words[d], completed'[Send(d, i)]
        PROVE  /\ posted'[Send(d, i)] = <<Ok(SendOp(d, i), NoValue)>>
               /\ \E l \in ConsumeCalls : GotWord(d, i, l)'
    <3>1. completed[Send(d, i)] /\ posted'[Send(d, i)] = posted[Send(d, i)]
      BY <1>3, <1>8, <2>1, SendOps
    <3> QED BY <1>6, <3>1 DEF TiesInv, WordsGot
  <2>2. ASSUME NEW l \in ConsumeCalls, completed'[l]
        PROVE  \/ \E d \in Ch : \E i \in 1 .. Words[d] : completed'[Send(d, i)] /\ GotWord(d, i, l)'
               \/ \E d \in Ch : ToldOf(d, l)'
    <3>1. CASE l = k
      BY <1>1, <1>7, <3>1
    <3>2. CASE l # k
      <4>1. completed[l]
        BY <1>3, <2>2, <3>2, ReceiveOps
      <4>2. \/ \E d \in Ch : \E i \in 1 .. Words[d] : completed[Send(d, i)] /\ GotWord(d, i, l)
            \/ \E d \in Ch : ToldOf(d, l)
        BY <4>1 DEF TiesInv, WordsGot
      <4> QED BY <1>4, <1>6, <3>2, <4>2, SendOps
    <3> QED BY <3>1, <3>2
  <2> QED BY <2>1, <2>2 DEF WordsGot
<1>10. GotInOrder'
  BY <1>5 DEF TiesInv, GotInOrder
<1>11. /\ \A h \in IoOp \ unsubmitted' : h \in TieProducer \cup TieConsumer
       /\ \A h \in Call : completed'[h] => Begun(h)'
       /\ SendsInOrder' /\ ReceivesInOrder'
  BY <1>4, EndsKeepOrder
<1> QED BY <1>9, <1>10, <1>11 DEF TiesInv

\* A flush that matches a send and a receive: the next word of the channel goes
\* to a receive that comes after all that got a word from it.
LEMMA TieMatchStep ==
  ASSUME TypeOK, CallsInv, TiesInv, NEW c \in Chan, NEW p \in Producer,
         NEW o \in Consumer, Live(p, c), Live(o, c), Meets(p, o),
         UNCHANGED <<closed, unsubmitted>>
  PROVE  TiesInv'
<1> DEFINE k == CallOf[o]
<1>1. /\ c \in Ch /\ Begun(k) /\ ~completed[k]
      /\ o \in TieConsumer /\ o = <<k, c>> /\ k \in ConsumeCalls /\ k \in Call
  BY LiveOps, ReceiveOps DEF IoOp
<1>2. PICK i \in 1 .. Words[c] : p = SendOp(c, i)
  BY LiveOps DEF IoOp
<1>3. CallOf[p] = Send(c, i) /\ Begun(Send(c, i)) /\ ~completed[Send(c, i)]
      /\ Send(c, i) \in Call
  BY <1>1, <1>2, LiveOps, SendOps DEF IoOp
<1>4. /\ completed'[Send(c, i)] /\ posted'[Send(c, i)] = <<Ok(SendOp(c, i), NoValue)>>
      /\ completed'[k] /\ posted'[k] = <<Ok(<<k, c>>, SendOp(c, i))>>
      /\ \A l \in Call : l # k /\ l # Send(c, i) =>
           completed'[l] = completed[l] /\ posted'[l] = posted[l]
  <2>1. /\ completed'[CallOf[p]] /\ posted'[CallOf[p]] = <<Ok(p, NoValue)>>
        /\ completed'[k] /\ posted'[k] = <<Ok(o, p)>>
        /\ \A l \in Call : l # CallOf[p] /\ l # k =>
             completed'[l] = completed[l] /\ posted'[l] = posted[l]
    BY EndsTwo
  <2>2. <<Ok(o, p)>> = <<Ok(<<k, c>>, SendOp(c, i))>>
    BY <1>1, <1>2
  <2> QED BY <1>2, <1>3, <2>1, <2>2
<1> HIDE DEF k
<1>5. /\ \A l \in Call : completed[l] => completed'[l] /\ posted'[l] = posted[l]
      /\ \A l \in Call : completed'[l] => Begun(l)
  BY <1>1, <1>3, <1>4 DEF TiesInv
<1>6. \A l \in ConsumeCalls : l \in Call /\ \A d, j : l # Send(d, j)
  BY ReceiveOps, TieCallNames
<1>7. GotWord(c, i, k)' /\ \A d, j : GotWord(d, j, k)' => d = c /\ j = i
  <2>1. GotWord(c, i, k)'
    BY <1>1, <1>4 DEF GotWord
  <2>2. \A d, j : GotWord(d, j, k)' => d = c /\ j = i
    <3> SUFFICES ASSUME NEW d, NEW j, GotWord(d, j, k)' PROVE d = c /\ j = i
      OBVIOUS
    <3>1. posted'[k] = <<Ok(<<k, d>>, SendOp(d, j))>>
      BY DEF GotWord
    <3>2. Ok(<<k, d>>, SendOp(d, j)) = Ok(<<k, c>>, SendOp(c, i))
      BY <1>4, <3>1
    <3>3. SendOp(d, j) = SendOp(c, i)
      BY <3>2 DEF Ok
    <3>4. Send(d, j) = Send(c, i)
      BY <3>3 DEF SendOp
    <3> QED BY <3>4, TieCallNames
  <2> QED BY <2>1, <2>2
<1>8. \A l \in ConsumeCalls \ {k} :
        /\ \A d, j : GotWord(d, j, l)' <=> GotWord(d, j, l)
        /\ \A d : ToldOf(d, l)' <=> ToldOf(d, l)
  BY <1>4, <1>6 DEF GotWord, ToldOf
<1>9. \A d \in Ch : \A j \in 1 .. Words[d] : \A l \in ConsumeCalls :
        GotWord(d, j, l) => l # k /\ completed[l] /\ completed[Send(d, j)]
  BY <1>1, GotWordEnded
<1>10. WordsGot'
  <2>1. ASSUME NEW d \in Ch, NEW j \in 1 .. Words[d], completed'[Send(d, j)]
        PROVE  /\ posted'[Send(d, j)] = <<Ok(SendOp(d, j), NoValue)>>
               /\ \E l \in ConsumeCalls : GotWord(d, j, l)'
    <3>1. CASE Send(d, j) = Send(c, i)
      BY <1>1, <1>4, <1>7, <3>1, TieCallNames
    <3>2. CASE Send(d, j) # Send(c, i)
      <4>1. completed[Send(d, j)] /\ posted'[Send(d, j)] = posted[Send(d, j)]
        <5>1. Send(d, j) # k /\ Send(d, j) \in Call
          BY <1>1, <1>6, SendOps
        <5> QED BY <1>4, <2>1, <3>2, <5>1
      <4>2. /\ posted[Send(d, j)] = <<Ok(SendOp(d, j), NoValue)>>
            /\ \E l \in ConsumeCalls : GotWord(d, j, l)
        BY <4>1 DEF TiesInv, WordsGot
      <4> QED BY <1>8, <1>9, <4>1, <4>2
    <3> QED BY <3>1, <3>2
  <2>2. ASSUME NEW l \in ConsumeCalls, completed'[l]
        PROVE  \/ \E d \in Ch : \E j \in 1 .. Words[d] : completed'[Send(d, j)] /\ GotWord(d, j, l)'
               \/ \E d \in Ch : ToldOf(d, l)'
    <3>1. CASE l = k
      BY <1>1, <1>4, <1>7, <3>1
    <3>2. CASE l # k
      <4>1. completed[l]
        BY <1>4, <1>6, <2>2, <3>2
      <4>2. \/ \E d \in Ch : \E j \in 1 .. Words[d] : completed[Send(d, j)] /\ GotWord(d, j, l)
            \/ \E d \in Ch : ToldOf(d, l)
        BY <4>1 DEF TiesInv, WordsGot
      <4> QED BY <1>5, <1>8, <3>2, <4>2, SendOps
    <3> QED BY <3>1, <3>2
  <2> QED BY <2>1, <2>2 DEF WordsGot
<1>11. \A j \in 1 .. Words[c] : completed[Send(c, j)] => j < i
  BY <1>1, <1>3, FirstOpenSend
<1>12. \A j \in 1 .. Words[c] : \A l \in ConsumeCalls :
         GotWord(c, j, l) => j < i /\ Place(l) < Place(k)
  <2> SUFFICES ASSUME NEW j \in 1 .. Words[c], NEW l \in ConsumeCalls, GotWord(c, j, l)
               PROVE  j < i /\ Place(l) < Place(k)
    OBVIOUS
  <2>1. completed[l] /\ completed[Send(c, j)] /\ <<l, c>> \in TieConsumer
    BY <1>1, <1>9 DEF GotWord
  <2> QED BY <1>1, <1>11, <2>1, LastOpenReceive
<1>13. GotInOrder'
  <2> SUFFICES ASSUME NEW d \in Ch, NEW j \in 1 .. Words[d], NEW n \in 1 .. Words[d],
                      NEW l \in ConsumeCalls, NEW h \in ConsumeCalls,
                      GotWord(d, j, l)', GotWord(d, n, h)'
               PROVE  /\ j < n => Place(l) < Place(h)
                      /\ j = n => l = h
    BY DEF GotInOrder
  <2>1. CASE l = k /\ h = k
    BY <1>7, <2>1, TieSizes
  <2>2. CASE l = k /\ h # k
    <3>1. d = c /\ j = i /\ GotWord(c, n, h)
      BY <1>7, <1>8, <2>2
    <3> QED BY <1>12, <3>1, TieSizes
  <2>3. CASE l # k /\ h = k
    <3>1. d = c /\ n = i /\ GotWord(c, j, l)
      BY <1>7, <1>8, <2>3
    <3> QED BY <1>12, <2>3, <3>1, TieSizes
  <2>4. CASE l # k /\ h # k
    BY <1>8, <2>4 DEF TiesInv, GotInOrder
  <2> QED BY <2>1, <2>2, <2>3, <2>4
<1>14. /\ \A h \in IoOp \ unsubmitted' : h \in TieProducer \cup TieConsumer
       /\ \A h \in Call : completed'[h] => Begun(h)'
       /\ SendsInOrder' /\ ReceivesInOrder'
  BY <1>5, EndsKeepOrder
<1> QED BY <1>10, <1>13, <1>14 DEF TiesInv

\* A step that callers do not see keeps it, and so does the close of a channel
\* whose words are all sent.
LEMMA TieUnseenStep ==
  ASSUME TiesInv, UNCHANGED <<completed, posted, unsubmitted>>,
         \A c \in Ch : closed[c] => closed'[c],
         \A c \in Ch : closed'[c] => closed[c] \/ completed[Send(c, Words[c])]
  PROVE  TiesInv'
<1>1. \A k : Begun(k)' <=> Begun(k)
  BY DEF Begun
<1>2. /\ \A k : GoodEnd(k)' <=> GoodEnd(k)
      /\ \A k : BadEnd(k)' <=> BadEnd(k)
      /\ \A c, i, k : GotWord(c, i, k)' <=> GotWord(c, i, k)
      /\ \A c \in Ch : \A k : ToldOf(c, k) => ToldOf(c, k)'
  BY DEF GoodEnd, BadEnd, NoError, GotWord, ToldOf
<1>3. \A c \in Ch : completed[Send(c, Words[c])] =>
        \A i \in 1 .. Words[c] : completed[Send(c, i)]
  <2> SUFFICES ASSUME NEW c \in Ch, completed[Send(c, Words[c])], NEW i \in 1 .. Words[c]
               PROVE  completed[Send(c, i)]
    OBVIOUS
  <2>1. Begun(Send(c, Words[c]))
    BY SendOps, TieSizes DEF TiesInv
  <2>2. i = Words[c] \/ i \in 1 .. Words[c] - 1
    BY TieSizes
  <2> QED BY <2>1, <2>2, TieSizes DEF TiesInv, SendsInOrder
<1>4. SendsInOrder'
  BY <1>1, <1>3 DEF TiesInv, SendsInOrder
<1>5. ReceivesInOrder'
  BY <1>1, <1>2 DEF TiesInv, ReceivesInOrder
<1>6. WordsGot'
  BY <1>2 DEF TiesInv, WordsGot
<1>7. GotInOrder'
  BY <1>2 DEF TiesInv, GotInOrder
<1>8. \A k \in Call : completed'[k] => Begun(k)'
  BY <1>1 DEF TiesInv
<1> QED BY <1>4, <1>5, <1>6, <1>7, <1>8 DEF TiesInv

\* The parts of the invariant that a submission cannot disturb.
LEMMA TieSubmitKeeps ==
  ASSUME TiesInv, NEW o \in TieProducer \cup TieConsumer, Submit(o)
  PROVE  /\ \A h \in IoOp \ unsubmitted' : h \in TieProducer \cup TieConsumer
         /\ \A k \in Call : completed'[k] => Begun(k)'
         /\ WordsGot' /\ GotInOrder'
<1>1. o \in IoOp
  BY TiesAssumption DEF IoOp
<1>2. /\ UNCHANGED <<closed, completed, posted>>
      /\ \A k : Begun(k)' <=> Begun(k) \/ k = CallOf[o]
  BY <1>1, SubmitBegins
<1>3. unsubmitted' = unsubmitted \ {o}
  BY DEF Submit
<1>4. \A c, i, k : GotWord(c, i, k)' <=> GotWord(c, i, k)
  BY <1>2 DEF GotWord
<1>5. \A c, k : ToldOf(c, k)' <=> ToldOf(c, k)
  BY <1>2 DEF ToldOf
<1>6. WordsGot' /\ GotInOrder'
  BY <1>2, <1>4, <1>5 DEF TiesInv, WordsGot, GotInOrder
<1>7. \A k \in Call : completed'[k] => Begun(k)'
  BY <1>2 DEF TiesInv
<1> QED BY <1>3, <1>6, <1>7 DEF TiesInv

\* A sender begins a send when the one before has ended.
LEMMA TieSendStep ==
  ASSUME TiesInv, NEW p \in TieProducer, SendReached(ChanOf[p], CallOf[p][3]), Submit(p)
  PROVE  TiesInv'
<1>0. PICK c \in Ch : \E i \in 1 .. Words[c] : p = SendOp(c, i)
  BY SendOps
<1>1. PICK i \in 1 .. Words[c] : p = SendOp(c, i)
  BY <1>0
<1>2. CallOf[p] = Send(c, i) /\ ChanOf[p] = c /\ CallOf[p][3] = i /\ p \in IoOp
  <2>1. Send(c, i)[3] = i
    BY DEF Send
  <2> QED BY <1>1, <2>1, SendOps DEF IoOp
<1>3. /\ UNCHANGED <<closed, completed, posted>>
      /\ \A k : Begun(k)' <=> Begun(k) \/ k = Send(c, i)
  BY <1>2, SubmitBegins
<1>4. \A j \in 1 .. i - 1 : completed[Send(c, j)]
  <2> SUFFICES ASSUME NEW j \in 1 .. i - 1 PROVE completed[Send(c, j)]
    OBVIOUS
  <2>1. i > 1 /\ i - 1 \in 1 .. Words[c] /\ (j = i - 1 \/ j \in 1 .. (i - 1) - 1)
    BY TieSizes
  <2>2. completed[Send(c, i - 1)]
    BY <1>2, <2>1 DEF SendReached, Succeeds, Resumed
  <2>3. Begun(Send(c, i - 1))
    BY <2>1, <2>2, SendOps DEF TiesInv
  <2> QED BY <2>1, <2>2, <2>3 DEF TiesInv, SendsInOrder
<1>5. SendsInOrder'
  <2> SUFFICES ASSUME NEW d \in Ch
               PROVE  /\ \A j \in 1 .. Words[d] : Begun(Send(d, j))' =>
                           \A n \in 1 .. j - 1 : completed[Send(d, n)]
                      /\ closed[d] => \A j \in 1 .. Words[d] : completed[Send(d, j)]
    BY <1>3 DEF SendsInOrder
  <2>1. \A j : Send(d, j) = Send(c, i) => d = c /\ j = i
    BY TieCallNames
  <2> QED BY <1>3, <1>4, <2>1 DEF TiesInv, SendsInOrder
<1>6. ReceivesInOrder'
  <2>1. /\ \A n : Begun(Tie(n))' <=> Begun(Tie(n))
        /\ \A d, n : Begun(Drain(d, n))' <=> Begun(Drain(d, n))
    BY <1>3, TieCallNames
  <2>2. \A k : (GoodEnd(k)' <=> GoodEnd(k)) /\ (BadEnd(k)' <=> BadEnd(k))
    BY <1>3 DEF GoodEnd, BadEnd, NoError
  <2> QED BY <2>1, <2>2 DEF TiesInv, ReceivesInOrder
<1> QED BY <1>5, <1>6, TieSubmitKeeps DEF TiesInv

\* The receiver begins a receive when the one before got a word.
LEMMA TieReceiveStep ==
  ASSUME TiesInv, NEW o \in TieConsumer, ReceiveReached(CallOf[o]), Submit(o)
  PROVE  TiesInv'
<1> DEFINE k == CallOf[o]
<1>1. k \in ConsumeCalls /\ o \in IoOp /\ ReceiveReached(k)
  BY ReceiveOps DEF IoOp
<1>2. /\ UNCHANGED <<closed, completed, posted>>
      /\ \A l : Begun(l)' <=> Begun(l) \/ l = k
  BY <1>1, SubmitBegins
<1> HIDE DEF k
<1>3. \A l : (GoodEnd(l)' <=> GoodEnd(l)) /\ (BadEnd(l)' <=> BadEnd(l))
  BY <1>2 DEF GoodEnd, BadEnd, NoError
<1>4. SendsInOrder'
  <2>1. \A c, i : Begun(Send(c, i))' <=> Begun(Send(c, i))
    BY <1>1, <1>2, ReceiveOps, TieCallNames
  <2> QED BY <1>2, <2>1 DEF TiesInv, SendsInOrder
<1>5. ASSUME NEW n \in 1 .. Ties, k = Tie(n), NEW m \in 1 .. n - 1
      PROVE  GoodEnd(Tie(m))
  <2>1. n > 1 /\ n - 1 \in 1 .. Ties /\ (m = n - 1 \/ m \in 1 .. (n - 1) - 1)
    BY TieSizes
  <2>2. Tie(n)[1] = "tie" /\ Tie(n)[3] = n
    BY DEF Tie
  <2>3. TieReached(n)
    BY <1>1, <1>5, <2>2 DEF ReceiveReached
  <2>4. GoodEnd(Tie(n - 1))
    BY <2>1, <2>3 DEF TieReached, Succeeds, Resumed, GoodEnd
  <2>5. Begun(Tie(n - 1))
    BY <2>1, <2>4, ReceiveOps DEF TiesInv, GoodEnd
  <2> QED BY <2>1, <2>4, <2>5 DEF TiesInv, ReceivesInOrder
<1>6. ASSUME NEW c \in Ch, NEW n \in 1 .. Words[c] + 1, k = Drain(c, n)
      PROVE  /\ \A m \in 1 .. n - 1 : GoodEnd(Drain(c, m))
             /\ \E m \in 1 .. Ties : BadEnd(Tie(m))
  <2>1. Drain(c, n)[1] = "drain" /\ Drain(c, n)[2] = c /\ Drain(c, n)[3] = n
        /\ "drain" # "tie"
    BY DEF Drain
  <2>2. DrainReached(c, n)
    BY <1>1, <1>6, <2>1 DEF ReceiveReached
  <2>3. \E m \in 1 .. Ties : BadEnd(Tie(m))
    BY <2>2 DEF DrainReached, Resumed, BadEnd
  <2>4. ASSUME NEW m \in 1 .. n - 1
        PROVE  GoodEnd(Drain(c, m))
    <3>1. n > 1 /\ n - 1 \in 1 .. Words[c] + 1 /\ (m = n - 1 \/ m \in 1 .. (n - 1) - 1)
      BY TieSizes
    <3>2. GoodEnd(Drain(c, n - 1))
      BY <2>2, <3>1 DEF DrainReached, Succeeds, Resumed, GoodEnd
    <3>3. Begun(Drain(c, n - 1))
      BY <3>1, <3>2, ReceiveOps DEF TiesInv, GoodEnd
    <3> QED BY <3>1, <3>2, <3>3 DEF TiesInv, ReceivesInOrder
  <2> QED BY <2>3, <2>4
<1>7. \A n \in 1 .. Ties : Begun(Tie(n))' => \A m \in 1 .. n - 1 : GoodEnd(Tie(m))
  BY <1>2, <1>5 DEF TiesInv, ReceivesInOrder
<1>8. \A c \in Ch : \A n \in 1 .. Words[c] + 1 : Begun(Drain(c, n))' =>
        /\ \A m \in 1 .. n - 1 : GoodEnd(Drain(c, m))
        /\ \E m \in 1 .. Ties : BadEnd(Tie(m))
  BY <1>2, <1>6 DEF TiesInv, ReceivesInOrder
<1>9. ReceivesInOrder'
  BY <1>3, <1>7, <1>8 DEF ReceivesInOrder
<1> QED BY <1>4, <1>9, TieSubmitKeeps DEF TiesInv

\* A step of a flush keeps the invariant.
LEMMA TieFlushStep ==
  ASSUME TypeOK, CallsInv, TiesInv, NEW t \in Thread, NEW c \in Chan, FlushStep(t, c)
  PROVE  TiesInv'
<1>1. Outward(c)
  BY FlushOutward, TiesAssumption, TiesAreSafe
<1>2. CASE UNCHANGED <<completed, posted>>
  <2>1. UNCHANGED <<closed, unsubmitted>>
    BY <1>1 DEF Outward
  <2> QED BY <1>2, <2>1, TieUnseenStep
<1>3. CASE closed[c] /\ \E o \in IoOp : Live(o, c) /\ Ends(o, ChannelClosed(o))
  BY <1>1, <1>3, TieFailStep DEF Outward
<1>4. CASE \E p \in Producer, o \in Consumer : Live(p, c) /\ Live(o, c) /\ Meets(p, o)
  BY <1>1, <1>4, TieMatchStep DEF Outward
<1> QED BY <1>1, <1>2, <1>3, <1>4 DEF Outward

\* Every step of the program keeps the invariant.
LEMMA TiesInvStep ==
  ASSUME TypeOK, CallsInv, TiesInv, [TieNext]_vars
  PROVE  TiesInv'
<1>1. \A T \in SUBSET Thread : FlushBy(T) => TiesInv'
  BY TieFlushStep DEF FlushBy
<1>2. CASE Consume
  <2>1. ConsumeCalls \subseteq Thread
    BY ReceiveOps DEF Thread
  <2>2. CASE \E o \in TieConsumer \cap unsubmitted :
               ReceiveReached(CallOf[o]) /\ SubmitConsume(o)
    BY <2>2, TieReceiveStep DEF SubmitConsume
  <2> QED BY <1>1, <1>2, <2>1, <2>2 DEF Consume
<1>3. CASE \E c \in Ch : Produce(c)
  <2>1. PICK c \in Ch : Produce(c)
    BY <1>3
  <2>2. ProduceCalls(c) \subseteq Thread /\ <<"close", c>> \in TieCloser
    BY SendOps, TiesAssumption DEF ProduceCalls, Thread, TieCloser
  <2>3. CASE \E p \in TieProducer \cap unsubmitted :
               ChanOf[p] = c /\ SendReached(c, CallOf[p][3]) /\ SubmitProduce(p)
    BY <2>3, TieSendStep DEF SubmitProduce
  <2>4. CASE CloseReached(c) /\ RunClose(<<"close", c>>)
    <3>1. Target[<<"close", c>>] = c
      BY <2>2, TiesAssumption DEF TieTarget
    <3>2. /\ UNCHANGED <<completed, posted, unsubmitted>>
          /\ closed' = [closed EXCEPT ![c] = TRUE]
      BY <2>4, <3>1 DEF RunClose, callVars
    <3>3. completed[Send(c, Words[c])]
      BY <2>4 DEF CloseReached, Succeeds, Resumed
    <3>4. \A d \in Ch : /\ closed[d] => closed'[d]
                        /\ closed'[d] => closed[d] \/ completed[Send(d, Words[d])]
      BY <3>2, <3>3, TiesAssumption DEF TypeOK
    <3> QED BY <3>2, <3>4, TieUnseenStep
  <2> QED BY <1>1, <2>1, <2>2, <2>3, <2>4 DEF Produce
<1>4. CASE UNCHANGED vars
  BY <1>4, TieUnseenStep DEF vars
<1> QED BY <1>2, <1>3, <1>4 DEF TieNext

LEMMA TiesInvInit == Init => TiesInv
<1> SUFFICES ASSUME Init PROVE TiesInv
  OBVIOUS
<1>1. /\ \A k \in Call : ~completed[k] /\ posted[k] = <<>>
      /\ \A c \in Chan : ~closed[c]
      /\ unsubmitted = IoOp
      /\ \A k : ~Begun(k)
  BY DEF Init, Begun
<1>2. \A c, i : \A k \in ConsumeCalls : ~GotWord(c, i, k)
  BY <1>1, ReceiveOps DEF GotWord
<1>3. WordsGot /\ GotInOrder
  BY <1>1, <1>2, SendOps, ReceiveOps DEF WordsGot, GotInOrder
<1>4. SendsInOrder /\ ReceivesInOrder
  BY <1>1, TiesAssumption DEF SendsInOrder, ReceivesInOrder
<1> QED BY <1>1, <1>3, <1>4 DEF TiesInv

-----------------------------------------------------------------------------
(***************************************************************************)
(* The words of a channel are counted by the receives that got them.       *)
(***************************************************************************)
LEMMA WordCallsAre ==
  ASSUME TypeOK, CallsInv, TiesInv, NEW c \in Ch, NEW k
  PROVE  k \in WordCalls(c) <=>
           k \in ConsumeCalls /\ \E i \in 1 .. Words[c] : GotWord(c, i, k)
<1>1. ASSUME k \in WordCalls(c)
      PROVE  k \in ConsumeCalls /\ \E i \in 1 .. Words[c] : GotWord(c, i, k)
  <2>1. k \in ConsumeCalls /\ k \in Call
    BY <1>1, ReceiveOps DEF WordCalls
  <2>2. PICK n \in DOMAIN posted[k] :
          posted[k][n].ec = "ok" /\ ChanOf[posted[k][n].which] = c
    BY <1>1 DEF WordCalls
  <2>3. posted[k] \in Seq(Outcome) /\ Len(posted[k]) # 0
    BY <2>1, <2>2 DEF TypeOK
  <2>4. completed[k]
    BY <2>1, <2>3 DEF CallsInv, CompletedOnce
  <2>5. CASE \E d \in Ch : ToldOf(d, k)
    <3>1. PICK d \in Ch : posted[k] = <<ChannelClosed(<<k, d>>)>>
      BY <2>5 DEF ToldOf
    <3>2. posted[k][n].ec = "closed"
      BY <2>2, <3>1 DEF ChannelClosed
    <3> QED BY <2>2, <3>2
  <2>6. CASE \E d \in Ch : \E i \in 1 .. Words[d] : GotWord(d, i, k)
    <3>0. PICK d \in Ch : \E i \in 1 .. Words[d] : GotWord(d, i, k)
      BY <2>6
    <3>1. PICK i \in 1 .. Words[d] : GotWord(d, i, k)
      BY <3>0
    <3>2. posted[k] = <<Ok(<<k, d>>, SendOp(d, i))>> /\ <<k, d>> \in TieConsumer
      BY <3>1 DEF GotWord
    <3>3. posted[k][n].which = <<k, d>>
      BY <2>2, <3>2 DEF Ok
    <3>4. d = c
      BY <2>2, <3>2, <3>3, ReceiveOps
    <3> QED BY <2>1, <3>1, <3>4
  <2> QED BY <2>1, <2>4, <2>5, <2>6 DEF TiesInv, WordsGot
<1>2. ASSUME k \in ConsumeCalls, NEW i \in 1 .. Words[c], GotWord(c, i, k)
      PROVE  k \in WordCalls(c)
  <2>1. posted[k] = <<Ok(<<k, c>>, SendOp(c, i))>> /\ ChanOf[<<k, c>>] = c
    BY <1>2, ReceiveOps DEF GotWord
  <2>2. 1 \in DOMAIN posted[k] /\ posted[k][1].ec = "ok" /\ posted[k][1].which = <<k, c>>
    BY <2>1 DEF Ok
  <2> QED BY <1>2, <2>1, <2>2 DEF WordCalls
<1> QED BY <1>1, <1>2

\* As many receives got one of the first m words as there are such words.
LEMMA GotCount ==
  ASSUME TiesInv, NEW c \in Ch, NEW m \in 1 .. Words[c],
         \A i \in 1 .. m : completed[Send(c, i)]
  PROVE  Cardinality({k \in ConsumeCalls : \E i \in 1 .. m : GotWord(c, i, k)}) = m
<1> DEFINE S == {k \in ConsumeCalls : \E i \in 1 .. m : GotWord(c, i, k)}
           f == [i \in 1 .. m |-> CHOOSE k \in ConsumeCalls : GotWord(c, i, k)]
<1>1. m \in Nat /\ 1 .. m \subseteq 1 .. Words[c]
  BY TieSizes
<1>2. \A i \in 1 .. m : f[i] \in ConsumeCalls /\ GotWord(c, i, f[i])
  <2> SUFFICES ASSUME NEW i \in 1 .. m PROVE f[i] \in ConsumeCalls /\ GotWord(c, i, f[i])
    OBVIOUS
  <2>1. \E k \in ConsumeCalls : GotWord(c, i, k)
    BY <1>1 DEF TiesInv, WordsGot
  <2> QED BY <2>1
<1>3. DOMAIN f = 1 .. m
  OBVIOUS
<1> HIDE DEF f
<1>4. \A i, j \in 1 .. m : f[i] = f[j] => i = j
  <2> SUFFICES ASSUME NEW i \in 1 .. m, NEW j \in 1 .. m, f[i] = f[j] PROVE i = j
    OBVIOUS
  <2>1. GotWord(c, i, f[i]) /\ GotWord(c, j, f[i])
    BY <1>2
  <2> QED BY <2>1, GotWordIs
<1>5. \A k \in S : \E i \in 1 .. m : f[i] = k
  <2> SUFFICES ASSUME NEW k \in S PROVE \E i \in 1 .. m : f[i] = k
    OBVIOUS
  <2>1. PICK i \in 1 .. m : GotWord(c, i, k)
    OBVIOUS
  <2>2. f[i] = k
    BY <1>1, <1>2, <2>1 DEF TiesInv, GotInOrder
  <2> QED BY <2>2
<1>6. f \in [1 .. m -> S]
  <2>1. \A i \in 1 .. m : f[i] \in S
    BY <1>2
  <2>2. f = [i \in 1 .. m |-> f[i]]
    BY DEF f
  <2> QED BY <2>1, <2>2
<1> HIDE DEF S
<1>7. f \in Bijection(1 .. m, S)
  BY <1>3, <1>4, <1>5, <1>6 DEF Bijection, Injection, Surjection, IsInjective
<1>8. ExistsBijection(1 .. m, S)
  BY <1>7 DEF ExistsBijection
<1>9. Cardinality(S) = m
  BY <1>1, <1>8, FS_CountingElements
<1> QED BY <1>9 DEF S

\* The invariant says what the program prints.
LEMMA TiesInvInOrder ==
  ASSUME TypeOK, CallsInv, TiesInv
  PROVE  WordsInOrder
<1> SUFFICES ASSUME NEW c \in Ch, NEW k \in WordCalls(c)
             PROVE  WordOf(k) = Cardinality({l \in WordCalls(c) : Place(l) <= Place(k)})
  BY DEF WordsInOrder
<1>1. PICK i \in 1 .. Words[c] : GotWord(c, i, k)
  BY WordCallsAre
<1>2. k \in ConsumeCalls /\ completed[k] /\ completed[Send(c, i)]
  BY <1>1, WordCallsAre, GotWordEnded
<1>3. WordOf(k) = i
  <2>1. posted[k][1].val = SendOp(c, i)
    BY <1>1 DEF GotWord, Ok
  <2>2. SendOp(c, i)[1][3] = i
    BY DEF SendOp, Send
  <2> QED BY <2>1, <2>2 DEF WordOf
<1>4. \A j \in 1 .. i : completed[Send(c, j)] /\ j \in 1 .. Words[c]
  <2> SUFFICES ASSUME NEW j \in 1 .. i PROVE completed[Send(c, j)] /\ j \in 1 .. Words[c]
    OBVIOUS
  <2>1. Begun(Send(c, i))
    BY <1>2, SendOps DEF TiesInv
  <2>2. (j = i \/ j \in 1 .. i - 1) /\ j \in 1 .. Words[c]
    BY TieSizes
  <2> QED BY <1>2, <2>1, <2>2 DEF TiesInv, SendsInOrder
<1>5. ASSUME NEW l \in ConsumeCalls, NEW j \in 1 .. Words[c], GotWord(c, j, l)
      PROVE  Place(l) <= Place(k) <=> j <= i
  <2>1. Place(l) \in Nat /\ Place(k) \in Nat
    BY <1>2, PlacesOrder
  <2>2. /\ j < i => Place(l) < Place(k)
        /\ i < j => Place(k) < Place(l)
        /\ i = j => l = k
    BY <1>1, <1>2, <1>5 DEF TiesInv, GotInOrder
  <2> QED BY <2>1, <2>2
<1>6. {l \in WordCalls(c) : Place(l) <= Place(k)}
        = {l \in ConsumeCalls : \E j \in 1 .. i : GotWord(c, j, l)}
  <2>1. ASSUME NEW l \in WordCalls(c), Place(l) <= Place(k)
        PROVE  l \in ConsumeCalls /\ \E j \in 1 .. i : GotWord(c, j, l)
    <3>1. PICK j \in 1 .. Words[c] : l \in ConsumeCalls /\ GotWord(c, j, l)
      BY WordCallsAre
    <3>2. j \in 1 .. i
      BY <1>5, <2>1, <3>1
    <3> QED BY <3>1, <3>2
  <2>2. ASSUME NEW l \in ConsumeCalls, NEW j \in 1 .. i, GotWord(c, j, l)
        PROVE  l \in WordCalls(c) /\ Place(l) <= Place(k)
    <3>1. j \in 1 .. Words[c] /\ j <= i
      BY <1>4
    <3> QED BY <1>5, <2>2, <3>1, WordCallsAre
  <2> QED BY <2>1, <2>2
<1>7. Cardinality({l \in ConsumeCalls : \E j \in 1 .. i : GotWord(c, j, l)}) = i
  BY <1>4, GotCount
<1> QED BY <1>3, <1>6, <1>7

\* And that the close is the last that a receiver is told.
LEMMA TiesInvClosed ==
  ASSUME TypeOK, CallsInv, TiesInv
  PROVE  ClosedAfterAll
<1>1. ASSUME NEW c \in Ch, NEW k \in ConsumeCalls, EndedOn(k, c), ~NoError(k)
      PROVE  Cardinality(WordCalls(c)) = Words[c]
  <2>1. PICK n \in DOMAIN posted[k] : posted[k][n].ec # "ok"
    BY <1>1 DEF NoError
  <2>2. k \in Call /\ completed[k]
    <3>1. k \in Call
      BY ReceiveOps
    <3>2. posted[k] \in Seq(Outcome) /\ Len(posted[k]) # 0
      BY <2>1, <3>1 DEF TypeOK
    <3> QED BY <3>1, <3>2 DEF CallsInv, CompletedOnce
  <2>3. PICK d \in Ch : ToldOf(d, k)
    <3>1. ASSUME NEW d \in Ch, NEW i \in 1 .. Words[d], GotWord(d, i, k)
          PROVE  FALSE
      <4>1. posted[k][n].ec = "ok"
        BY <2>1, <3>1 DEF GotWord, Ok
      <4> QED BY <2>1, <4>1
    <3> QED BY <2>2, <3>1 DEF TiesInv, WordsGot
  <2>4. d = c
    <3>1. \A m \in DOMAIN posted[k] : posted[k][m].which = <<k, d>>
      BY <2>3 DEF ToldOf, ChannelClosed
    <3>2. ChanOf[<<k, d>>] = d
      BY <2>3, ReceiveOps DEF ToldOf
    <3> QED BY <1>1, <3>1, <3>2 DEF EndedOn
  <2>5. \A i \in 1 .. Words[c] : completed[Send(c, i)]
    BY <2>3, <2>4 DEF ToldOf, TiesInv, SendsInOrder
  <2>6. WordCalls(c) = {l \in ConsumeCalls : \E i \in 1 .. Words[c] : GotWord(c, i, l)}
    BY WordCallsAre
  <2> QED BY <2>5, <2>6, GotCount, TieSizes
<1>2. ASSUME NEW p \in TieProducer
      PROVE  NoError(CallOf[p])
  <2>0. PICK c \in Ch : \E i \in 1 .. Words[c] : p = SendOp(c, i)
    BY SendOps
  <2>1. PICK i \in 1 .. Words[c] : p = SendOp(c, i)
    BY <2>0
  <2>2. CallOf[p] = Send(c, i) /\ Send(c, i) \in Call
    BY <2>1, SendOps
  <2>3. CASE completed[Send(c, i)]
    <3>1. posted[Send(c, i)] = <<Ok(SendOp(c, i), NoValue)>>
      BY <2>3 DEF TiesInv, WordsGot
    <3> QED BY <2>2, <3>1 DEF NoError, Ok
  <2>4. CASE ~completed[Send(c, i)]
    <3>1. posted[Send(c, i)] \in Seq(Outcome) /\ Len(posted[Send(c, i)]) = 0
      BY <2>2, <2>4 DEF TypeOK, CallsInv, CompletedOnce
    <3> QED BY <2>2, <3>1 DEF NoError
  <2> QED BY <2>3, <2>4
<1> QED BY <1>1, <1>2 DEF ClosedAfterAll

LEMMA TiesInvariant ==
  TieSpec => []TypeOK /\ []CallsInv /\ []TiesInv
<1>1. TieSpec => Spec
  BY TieStep, PTL DEF TieSpec, Spec
<1>2. TieSpec => []TypeOK /\ []CallsInv
  BY <1>1, TypeCorrect, CallsInvariant, TiesAreSafe, PTL
<1>3. Init => TiesInv
  BY TiesInvInit
<1>4. TypeOK /\ CallsInv /\ TiesInv /\ [TieNext]_vars => TiesInv'
  BY TiesInvStep
<1> QED BY <1>2, <1>3, <1>4, PTL DEF TieSpec

\* With any numbers of channels and words, the n-th word that the receiver
\* gets from a channel, by ties and by single receives, is the n-th word sent
\* on it (multi-consumer-tie.cpp:65-97).
THEOREM TiedWordsInOrder == TieSpec => []WordsInOrder
<1>1. TypeOK /\ CallsInv /\ TiesInv => WordsInOrder
  BY TiesInvInOrder
<1> QED BY <1>1, TiesInvariant, PTL

\* The receiver is told of the close of a channel only when it has got all of
\* its words, and no send fails (multi-consumer-tie.cpp:27-45 and 65-97).
THEOREM TiesClosedAfterAll == TieSpec => []ClosedAfterAll
<1>1. TypeOK /\ CallsInv /\ TiesInv => ClosedAfterAll
  BY TiesInvClosed
<1> QED BY <1>1, TiesInvariant, PTL

-----------------------------------------------------------------------------
(***************************************************************************)
(* examples/multi-consumer.cpp and examples/intro.cpp.                     *)
(*                                                                         *)
(* The receivers that wait in the channel, followed by those that the      *)
(* event loop is to resume, form one line.  A match sends the first of the *)
(* line to its end, with one word more; resuming a receiver only moves the *)
(* border between the two parts.  So nobody in the line has more words     *)
(* than someone behind, and the words in the event loop are in order.      *)
(***************************************************************************)
\* The words that the sender has begun to send.
SentWords == Cardinality({i \in 1 .. step[Push] : program.script[i] = "send"})

\* The n-th receive of r got word i.
GotNth(r, n, i) == posted[Nth(r, n)] = <<Ok(Nth(r, n), Nth(Push, i))>>

\* The n-th receive of r was told that the channel is closed.
ToldNth(r, n) == posted[Nth(r, n)] = <<ChannelClosed(Nth(r, n))>>

\* The n-th receive of r got a word.
GoodNth(r, n) == posted[Nth(r, n)] # <<>> /\ posted[Nth(r, n)][1].ec = "ok"

\* Receiver r waits for its current receive.
Waits(r) == step[r] > 0 /\ ~completed[Nth(r, step[r])]

\* The words that r has got: all of its receives but perhaps the last.
Gained(r) == IF step[r] > 0 /\ ~GoodNth(r, step[r]) THEN step[r] - 1 ELSE step[r]

\* The receivers in the queue of the channel, and in the event loop.
Line == 1 .. Len(consumers[LoopChan])
InLine(q) == consumers[LoopChan][q][2]
Readies == {q \in DOMAIN ready : ready[q] # Push}

LoopTypes ==
  /\ program \in Programs
  /\ step \in [Coroutine -> Nat]
  /\ ready \in Seq(program.receivers \cup {Push}) /\ IsInjective(ready)
  /\ printed \in Seq(LoopProducer)
  /\ timer \in BOOLEAN

\* The operations that were submitted are those of the calls made so far.
CallsMade ==
  /\ \A o \in IoOp \ unsubmitted : o \in LoopCall
  /\ \A r \in Receivers : \A n \in 1 .. MaxWords + 1 :
       Nth(r, n) \notin unsubmitted <=> n <= step[r]
  /\ \A i \in 1 .. MaxWords : Nth(Push, i) \notin unsubmitted <=> i <= SentWords
  /\ \A k \in LoopCall : completed[k] => k \notin unsubmitted

\* The sender waits for each send, and closes the channel at the end.
SenderRuns ==
  /\ \A i \in 1 .. MaxWords : i < SentWords => completed[Nth(Push, i)]
  /\ Push \in Range(ready) \/ timer \/ closed[LoopChan] =>
       \A i \in 1 .. MaxWords : i <= SentWords => completed[Nth(Push, i)]
  /\ step[Push] < Len(program.script) \/ closed[LoopChan]
  /\ closed[LoopChan] => Push \notin Range(ready) /\ ~timer
  /\ Push \in Range(ready) => ~timer

\* A receiver waits for each receive, in the queue of the channel, and goes on
\* after a word.
ReceiversRun ==
  /\ \A r \in Receivers :
       /\ step[r] <= MaxWords + 1
       /\ \A n \in 1 .. MaxWords + 1 : n < step[r] => GoodNth(r, n)
       /\ \A n \in 1 .. MaxWords + 1 : completed[Nth(r, n)] =>
            \/ \E i \in 1 .. MaxWords : GotNth(r, n, i)
            \/ closed[LoopChan] /\ ToldNth(r, n)
       /\ \A n \in 1 .. MaxWords + 1, i \in 1 .. MaxWords :
            GotNth(r, n, i) => completed[Nth(Push, i)] /\ n <= i
  /\ \A q \in Readies : ~Waits(ready[q])
  /\ \A q \in Line :
       /\ InLine(q) \in program.receivers /\ Waits(InLine(q))
       /\ consumers[LoopChan][q] = Nth(InLine(q), step[InLine(q)])

\* Receiver r is to print word i when it is resumed.
Holds(r, i) == step[r] > 0 /\ GotNth(r, step[r], i)

\* The words in the event loop are those that were sent and not yet printed,
\* in order.
WordsLinedUp ==
  /\ \A i \in DOMAIN printed : printed[i] = Nth(Push, i)
  /\ \A i \in 1 .. MaxWords : completed[Nth(Push, i)] <=>
       i <= Len(printed) \/ \E q \in Readies : Holds(ready[q], i)
  /\ \A q \in Readies, i \in 1 .. MaxWords : Holds(ready[q], i) => Len(printed) < i
  /\ \A p, q \in Readies : p < q =>
       \A i, j \in 1 .. MaxWords : Holds(ready[p], i) /\ Holds(ready[q], j) => i < j

\* While the channel is open, all receivers are in the line, those with fewer
\* words first.
LineOrdered ==
  /\ \A r \in program.receivers :
       (\E q \in Readies : ready[q] = r) \/ \E q \in Line : InLine(q) = r
  /\ \A p, q \in Line : p < q => Gained(InLine(p)) <= Gained(InLine(q))
  /\ \A p \in Line, q \in Readies : Gained(InLine(p)) <= Gained(ready[q])
  /\ \A p, q \in Readies : p < q => Gained(ready[p]) <= Gained(ready[q])

TurnsTaken ==
  /\ \A r, s \in program.receivers : Gained(r) <= Gained(s) + 1
  /\ ~closed[LoopChan] => LineOrdered

EventInv ==
  /\ LoopTypes
  /\ CallsMade
  /\ SenderRuns
  /\ ReceiversRun
  /\ WordsLinedUp
  /\ TurnsTaken

-----------------------------------------------------------------------------
(***************************************************************************)
(* The names of the calls, and the scripts.                                *)
(***************************************************************************)
LEMMA NthNames ==
  /\ \A r, s, n, m : Nth(r, n) = Nth(s, m) <=> r = s /\ n = m
  /\ \A r, n : Nth(r, n)[2] = r
BY DEF Nth

LEMMA LoopOps ==
  /\ MaxWords \in Nat /\ Push \notin Receivers
  /\ \A r \in Receivers, n \in 1 .. MaxWords + 1 :
       /\ Nth(r, n) \in LoopCall /\ Nth(r, n) \in Call /\ Nth(r, n) \in IoOp
       /\ Nth(r, n) \in Consumer
       /\ CallOf[Nth(r, n)] = Nth(r, n) /\ ChanOf[Nth(r, n)] = LoopChan
  /\ \A i \in 1 .. MaxWords :
       /\ Nth(Push, i) \in LoopCall /\ Nth(Push, i) \in Call /\ Nth(Push, i) \in IoOp
       /\ Nth(Push, i) \in Producer /\ Nth(Push, i) \in LoopProducer
       /\ CallOf[Nth(Push, i)] = Nth(Push, i) /\ ChanOf[Nth(Push, i)] = LoopChan
  /\ \A o \in LoopCall :
       /\ CallOf[o] = o /\ ChanOf[o] = LoopChan
       /\ o \in Consumer => \E r \in Receivers, n \in 1 .. MaxWords + 1 : o = Nth(r, n)
       /\ o \in Producer => \E i \in 1 .. MaxWords : o = Nth(Push, i)
<1>1. MaxWords \in Nat /\ Push \notin Receivers
  BY ProgramsAssumption
<1>2. \A o \in LoopCall : CallOf[o] = o /\ ChanOf[o] = LoopChan
  BY EventLoopAssumption DEF LoopCallOf, LoopChanOf
<1>3. /\ \A r \in Receivers, n \in 1 .. MaxWords + 1 : Nth(r, n) \in LoopConsumer
      /\ \A i \in 1 .. MaxWords : Nth(Push, i) \in LoopProducer
  BY DEF LoopConsumer, LoopProducer
<1>4. /\ LoopConsumer \subseteq Consumer /\ LoopProducer \subseteq Producer
      /\ LoopCall = LoopConsumer \cup LoopProducer /\ LoopCall \subseteq Call
      /\ Producer \cap Consumer = {}
  BY EventLoopAssumption, SetsAssumption DEF LoopCall
<1>5. /\ \A o \in LoopConsumer : \E r \in Receivers, n \in 1 .. MaxWords + 1 : o = Nth(r, n)
      /\ \A o \in LoopProducer : \E i \in 1 .. MaxWords : o = Nth(Push, i)
  BY DEF LoopConsumer, LoopProducer
<1>6. \A o \in LoopCall :
        /\ o \in Consumer => \E r \in Receivers, n \in 1 .. MaxWords + 1 : o = Nth(r, n)
        /\ o \in Producer => \E i \in 1 .. MaxWords : o = Nth(Push, i)
  BY <1>4, <1>5
<1>7. \A o \in LoopConsumer \cup LoopProducer : o \in LoopCall /\ o \in Call /\ o \in IoOp
  BY <1>4 DEF IoOp
<1> QED BY <1>1, <1>2, <1>3, <1>4, <1>6, <1>7

\* The number of words is a natural number.
LEMMA LoopSizes == MaxWords \in Nat
BY LoopOps

LEMMA ProgramFacts ==
  ASSUME LoopTypes
  PROVE  /\ program.receivers \subseteq Receivers /\ Push \notin program.receivers
         /\ Push \in Coroutine /\ Receivers \subseteq Coroutine /\ step[Push] \in Nat
         /\ program.script \in Seq({"send", "wait", "close"})
         /\ \A i \in DOMAIN program.script :
              program.script[i] = "close" <=> i = Len(program.script)
         /\ Cardinality({i \in DOMAIN program.script : program.script[i] = "send"})
              <= MaxWords
<1>1. program \in Programs /\ step \in [Coroutine -> Nat]
  BY DEF LoopTypes
<1>2. program.receivers \subseteq Receivers
  BY <1>1 DEF Receivers
<1> QED BY <1>1, <1>2, ProgramsAssumption DEF Coroutine

\* The words of the first n steps of the script.
LEMMA SentCount ==
  ASSUME LoopTypes, NEW n \in Nat
  PROVE  LET S(m) == {i \in 1 .. m : program.script[i] = "send"} IN
           /\ Cardinality(S(n)) \in Nat
           /\ program.script[n + 1] = "send" => Cardinality(S(n + 1)) = Cardinality(S(n)) + 1
           /\ program.script[n + 1] # "send" => S(n + 1) = S(n)
           /\ n <= Len(program.script) => Cardinality(S(n)) <= MaxWords
<1> DEFINE S(m) == {i \in 1 .. m : program.script[i] = "send"}
<1>1. \A m \in Nat : IsFiniteSet(S(m)) /\ Cardinality(S(m)) \in Nat
  <2> SUFFICES ASSUME NEW m \in Nat PROVE IsFiniteSet(S(m)) /\ Cardinality(S(m)) \in Nat
    OBVIOUS
  <2>1. IsFiniteSet(1 .. m) /\ S(m) \in SUBSET (1 .. m)
    BY FS_Interval
  <2>2. IsFiniteSet(S(m))
    BY <2>1, FS_Subset
  <2> QED BY <2>2, FS_CardinalityType
<1>2. ASSUME program.script[n + 1] = "send"
      PROVE  Cardinality(S(n + 1)) = Cardinality(S(n)) + 1
  <2>1. S(n + 1) = S(n) \cup {n + 1} /\ n + 1 \notin S(n)
    BY <1>2
  <2> QED BY <1>1, <2>1, FS_AddElement
<1>3. program.script[n + 1] # "send" => S(n + 1) = S(n)
  OBVIOUS
<1>4. ASSUME n <= Len(program.script)
      PROVE  Cardinality(S(n)) <= MaxWords
  <2> DEFINE A == {i \in DOMAIN program.script : program.script[i] = "send"}
  <2>1. DOMAIN program.script = 1 .. Len(program.script) /\ Len(program.script) \in Nat
    BY ProgramFacts
  <2>2. A = S(Len(program.script)) /\ S(n) \in SUBSET A
    BY <1>4, <2>1
  <2>3. IsFiniteSet(A) /\ Cardinality(A) \in Nat
    BY <1>1, <2>1, <2>2
  <2>4. Cardinality(S(n)) <= Cardinality(A)
    BY <2>2, <2>3, FS_Subset
  <2>5. Cardinality(A) <= MaxWords
    BY ProgramFacts
  <2>6. Cardinality(S(n)) \in Nat /\ MaxWords \in Nat
    BY <1>1, LoopOps
  <2> HIDE DEF A, S
  <2> QED BY <2>3, <2>4, <2>5, <2>6
<1> QED BY <1>1, <1>2, <1>3, <1>4

-----------------------------------------------------------------------------
(***************************************************************************)
(* What the event loop gains and loses.                                    *)
(***************************************************************************)
\* Handlers that are posted go to the back: none, one of a receiver, or those
\* of a sender and a receiver.
LEMMA PostsNone ==
  ASSUME NEW S, ready \in Seq(S), UNCHANGED posted, Posts
  PROVE  ready' = ready
<1>1. NewlyPosted = {}
  BY DEF NewlyPosted
<1>2. ready' = ready \o (<<>> \o <<>>)
  BY <1>1 DEF Posts, ResumedBy
<1> QED BY <1>2

LEMMA PostsReceiver ==
  ASSUME NEW S, ready \in Seq(S), NEW r \in S, NEW n, r # Push,
         NewlyPosted = {Nth(r, n)}, Posts
  PROVE  ready' = Append(ready, r)
<1> DEFINE K == {Nth(r, n)}
<1>1. \A k \in K : k[2] = r
  BY NthNames
<1>2. (CHOOSE k \in K : k[2] # Push) \in K
  BY <1>1
<1>3. ResumedBy(K) = <<>> \o <<r>>
  BY <1>1, <1>2 DEF ResumedBy
<1>4. ready' = ready \o (<<>> \o <<r>>)
  BY <1>3 DEF Posts
<1> QED BY <1>4

LEMMA PostsBoth ==
  ASSUME NEW S, ready \in Seq(S), NEW r \in S, NEW n, NEW i, r # Push, Push \in S,
         NewlyPosted = {Nth(Push, i), Nth(r, n)}, Posts
  PROVE  ready' = Append(Append(ready, Push), r)
<1> DEFINE K == {Nth(Push, i), Nth(r, n)}
<1>1. Nth(Push, i)[2] = Push /\ Nth(r, n)[2] = r
  BY NthNames
<1>2. (CHOOSE k \in K : k[2] # Push) = Nth(r, n)
  BY <1>1
<1>3. ResumedBy(K) = <<Push>> \o <<r>>
  BY <1>1, <1>2 DEF ResumedBy
<1>4. ready' = ready \o (<<Push>> \o <<r>>)
  BY <1>3 DEF Posts
<1> QED BY <1>4

\* A receiver that is posted is behind all that were.
LEMMA ReadyGrows ==
  ASSUME NEW S, ready \in Seq(S), IsInjective(ready), NEW r \in S, r # Push,
         r \notin Range(ready), Push \in S,
         \/ ready' = Append(ready, r)
         \/ Push \notin Range(ready) /\ ready' = Append(Append(ready, Push), r)
  PROVE  /\ ready' \in Seq(S) /\ IsInjective(ready')
         /\ Push \in Range(ready) => Push \in Range(ready')
         /\ ready' = Append(ready, r) => Range(ready') = Range(ready) \cup {r}
         /\ \E e \in Nat :
              /\ e \notin Readies /\ Readies' = Readies \cup {e} /\ ready'[e] = r
              /\ \A q \in Readies : q < e /\ ready'[q] = ready[q] /\ ready[q] # r
<1>1. CASE ready' = Append(ready, r)
  <2> DEFINE e == Len(ready) + 1
  <2>1. /\ Len(ready) \in Nat /\ DOMAIN ready = 1 .. Len(ready)
        /\ DOMAIN ready' = 1 .. e /\ ready'[e] = r /\ ready' \in Seq(S)
        /\ \A q \in 1 .. Len(ready) : ready'[q] = ready[q]
    BY <1>1
  <2>2. IsInjective(ready') /\ Range(ready') = Range(ready) \cup {r}
    BY <1>1, AppendDistinct
  <2>3. Readies' = Readies \cup {e} /\ e \notin Readies
    BY <2>1 DEF Readies
  <2>4. \A q \in Readies : q < e /\ ready'[q] = ready[q] /\ ready[q] # r
    BY <2>1 DEF Readies, Range
  <2> QED BY <2>1, <2>2, <2>3, <2>4
<1>2. CASE Push \notin Range(ready) /\ ready' = Append(Append(ready, Push), r)
  <2> DEFINE e == Len(ready) + 2
             mid == Append(ready, Push)
  <2>1. /\ Len(ready) \in Nat /\ DOMAIN ready = 1 .. Len(ready)
        /\ DOMAIN ready' = 1 .. e /\ ready'[e] = r /\ ready' \in Seq(S)
        /\ ready'[Len(ready) + 1] = Push
        /\ \A q \in 1 .. Len(ready) : ready'[q] = ready[q]
    BY <1>2
  <2>2. mid \in Seq(S) /\ IsInjective(mid) /\ Range(mid) = Range(ready) \cup {Push}
    BY <1>2, AppendDistinct
  <2>3. IsInjective(ready') /\ ready' # Append(ready, r)
    <3>1. IsInjective(Append(mid, r))
      BY <2>2, AppendDistinct
    <3>2. Append(ready, r)[Len(ready) + 1] = r
      BY <2>1
    <3> QED BY <1>2, <2>1, <3>1, <3>2
  <2>4. Readies' = Readies \cup {e} /\ e \notin Readies
    BY <2>1 DEF Readies
  <2>5. \A q \in Readies : q < e /\ ready'[q] = ready[q] /\ ready[q] # r
    BY <2>1 DEF Readies, Range
  <2>6. e \in Nat
    BY <2>1
  <2> HIDE DEF e
  <2> QED BY <1>2, <2>1, <2>3, <2>4, <2>5, <2>6
<1> QED BY <1>1, <1>2

\* The handler at the front is taken, and the others move up.
LEMMA ReadyShrinks ==
  ASSUME NEW S, ready \in Seq(S), IsInjective(ready), NEW r, Resume(r)
  PROVE  /\ ready' \in Seq(S) /\ IsInjective(ready')
         /\ r \in S /\ r \in Range(ready) /\ Range(ready') = Range(ready) \ {r}
         /\ \A q \in Readies' : q \in Nat /\ q + 1 \in Readies /\ 1 < q + 1
                                /\ ready'[q] = ready[q + 1] /\ ready[q + 1] # r
         /\ \A q \in Readies : ready[q] # r => q - 1 \in Readies'
         /\ 1 \in DOMAIN ready /\ ready[1] = r
<1>1. ready # <<>> /\ Head(ready) = r /\ ready' = Tail(ready)
  BY DEF Resume
<1>2. /\ Len(ready) \in Nat /\ DOMAIN ready = 1 .. Len(ready) /\ Len(ready) > 0
      /\ ready[1] = r /\ r \in S
      /\ DOMAIN ready' = 1 .. Len(ready) - 1 /\ ready' \in Seq(S)
      /\ \A q \in 1 .. Len(ready) - 1 : ready'[q] = ready[q + 1]
  BY <1>1
<1>3. IsInjective(ready') /\ r \in Range(ready) /\ Range(ready') = Range(ready) \ {r}
  BY <1>1, TailDistinct
<1>4. \A q \in DOMAIN ready : ready[q] = r => q = 1
  BY <1>2 DEF IsInjective
<1>5. \A q \in Readies' : q \in Nat /\ q + 1 \in Readies /\ 1 < q + 1
                          /\ ready'[q] = ready[q + 1] /\ ready[q + 1] # r
  BY <1>2, <1>4 DEF Readies
<1>6. \A q \in Readies : ready[q] # r => q - 1 \in Readies'
  <2> SUFFICES ASSUME NEW q \in Readies, ready[q] # r PROVE q - 1 \in Readies'
    OBVIOUS
  <2>1. q \in 1 .. Len(ready) /\ q # 1
    BY <1>2 DEF Readies
  <2>2. q - 1 \in 1 .. Len(ready) - 1 /\ ready'[q - 1] = ready[(q - 1) + 1] /\ (q - 1) + 1 = q
    BY <1>2, <2>1
  <2> QED BY <1>2, <2>2 DEF Readies
<1> QED BY <1>2, <1>3, <1>5, <1>6

\* The first receiver of the line, and its receive.
LEMMA FirstInLine ==
  ASSUME TypeOK, CallsInv, EventInv, consumers[LoopChan] # <<>>
  PROVE  LET r == InLine(1)
             o == FrontConsumer(LoopChan)
         IN /\ 1 \in Line
            /\ r \in program.receivers /\ r \in Receivers /\ r # Push /\ Waits(r)
            /\ step[r] \in 1 .. MaxWords + 1 /\ o = Nth(r, step[r])
            /\ o \in LoopCall /\ CallOf[o] = o /\ ~completed[o] /\ posted[o] = <<>>
            /\ r \notin Range(ready)
            /\ \A q \in Line : InLine(q) = r => q = 1
<1> DEFINE r == InLine(1)
           o == FrontConsumer(LoopChan)
<1>0. LoopChan \in Chan
  BY EventLoopAssumption
<1>1. /\ consumers[LoopChan] \in Seq(Consumer) /\ IsInjective(consumers[LoopChan])
      /\ Len(consumers[LoopChan]) \in Nat /\ DOMAIN consumers[LoopChan] = Line
      /\ 1 \in Line /\ o = consumers[LoopChan][1]
  <2>1. consumers[LoopChan] \in Seq(Consumer) /\ IsInjective(consumers[LoopChan])
    BY <1>0 DEF TypeOK, CallsInv, QueuedOnce
  <2> QED BY <2>1 DEF Line, FrontConsumer
<1>2. \A q \in Line : /\ InLine(q) \in program.receivers /\ Waits(InLine(q))
                      /\ consumers[LoopChan][q] = Nth(InLine(q), step[InLine(q)])
  BY DEF EventInv, ReceiversRun
<1>3. LoopTypes
  BY DEF EventInv
<1>4. r \in program.receivers /\ Waits(r) /\ o = Nth(r, step[r])
  BY <1>1, <1>2
<1>5. r \in Receivers /\ r # Push /\ r \in Coroutine
  BY <1>3, <1>4, ProgramFacts, LoopOps
<1>6. step[r] \in Nat /\ step[r] > 0 /\ step[r] <= MaxWords + 1
  BY <1>3, <1>4, <1>5 DEF LoopTypes, Waits, EventInv, ReceiversRun
<1>7. step[r] \in 1 .. MaxWords + 1
  BY <1>6, LoopOps
<1>8. o \in LoopCall /\ CallOf[o] = o /\ o \in Call
  BY <1>4, <1>5, <1>7, LoopOps
<1>9. ~completed[o] /\ posted[o] = <<>>
  BY <1>4, <1>8, NotYetPosted DEF Waits, CallsInv
<1>10. r \notin Range(ready)
  <2> SUFFICES ASSUME r \in Range(ready) PROVE FALSE
    OBVIOUS
  <2>1. PICK q \in DOMAIN ready : ready[q] = r
    BY DEF Range
  <2>2. q \in Readies
    BY <1>5, <2>1 DEF Readies
  <2> QED BY <1>4, <2>1, <2>2 DEF EventInv, ReceiversRun
<1>11. \A q \in Line : InLine(q) = r => q = 1
  BY <1>1, <1>2, <1>4 DEF IsInjective
<1> QED BY <1>1, <1>4, <1>5, <1>7, <1>8, <1>9, <1>10, <1>11

\* Nothing is submitted to another channel, and the sender has no send under
\* way when the channel is closed.
LEMMA LiveLoopOps ==
  ASSUME TypeOK, CallsInv, EventInv, NEW c \in Chan
  PROVE  /\ consumers[c] # <<>> => c = LoopChan
         /\ producers[c] # <<>> =>
              c = LoopChan /\ \E i \in 1 .. MaxWords :
                FrontProducer(c) = Nth(Push, i) /\ Nth(Push, i) \notin unsubmitted
         /\ closed[LoopChan] => \A i \in 1 .. MaxWords :
              Nth(Push, i) \notin unsubmitted => completed[Nth(Push, i)]
<1>1. \A o \in IoOp \ unsubmitted : o \in LoopCall /\ ChanOf[o] = LoopChan
  BY LoopOps DEF EventInv, CallsMade
<1>2. ASSUME consumers[c] # <<>>
      PROVE  c = LoopChan
  <2>1. consumers[c] \in Seq(Consumer) /\ FrontConsumer(c) \in Consumer
    BY <1>2, HeadsType DEF TypeOK
  <2>2. FrontConsumer(c) \in Range(consumers[c])
    BY <1>2, <2>1 DEF Range, FrontConsumer
  <2>3. ChanOf[FrontConsumer(c)] = c /\ FrontConsumer(c) \notin unsubmitted
    BY <2>2 DEF CallsInv, QueuedOnce
  <2> QED BY <1>1, <2>1, <2>3 DEF IoOp
<1>3. ASSUME producers[c] # <<>>
      PROVE  c = LoopChan /\ \E i \in 1 .. MaxWords :
               FrontProducer(c) = Nth(Push, i) /\ Nth(Push, i) \notin unsubmitted
  <2>1. producers[c] \in Seq(Producer) /\ FrontProducer(c) \in Producer
    BY <1>3, HeadsType DEF TypeOK
  <2>2. FrontProducer(c) \in Range(producers[c])
    BY <1>3, <2>1 DEF Range, FrontProducer
  <2>3. ChanOf[FrontProducer(c)] = c /\ FrontProducer(c) \notin unsubmitted
    BY <2>2 DEF CallsInv, QueuedOnce
  <2>4. FrontProducer(c) \in LoopCall /\ c = LoopChan
    BY <1>1, <2>1, <2>3 DEF IoOp
  <2> QED BY <2>1, <2>3, <2>4, LoopOps
<1>4. ASSUME closed[LoopChan], NEW i \in 1 .. MaxWords, Nth(Push, i) \notin unsubmitted
      PROVE  completed[Nth(Push, i)]
  BY <1>4 DEF EventInv, CallsMade, SenderRuns
<1> QED BY <1>2, <1>3, <1>4

\* A flush tells the first receiver of the close.
RefusesFirst ==
  /\ closed[LoopChan] /\ consumers[LoopChan] # <<>> /\ PopConsumer(LoopChan)
  /\ Ends(FrontConsumer(LoopChan), ChannelClosed(FrontConsumer(LoopChan)))

\* A flush gives word i to the first receiver.
GivesFirst(i) ==
  /\ ~closed[LoopChan] /\ consumers[LoopChan] # <<>> /\ PopConsumer(LoopChan)
  /\ Nth(Push, i) \notin unsubmitted /\ ~completed[Nth(Push, i)]
  /\ Meets(Nth(Push, i), FrontConsumer(LoopChan))

LEMMA LoopFlushOutcome ==
  ASSUME TypeOK, CallsInv, EventInv, SafeUse, NEW t \in Thread, NEW c \in Chan,
         FlushStep(t, c)
  PROVE  /\ UNCHANGED <<closed, unsubmitted>>
         /\ \/ UNCHANGED <<completed, posted, consumers>>
            \/ RefusesFirst
            \/ \E i \in 1 .. MaxWords : GivesFirst(i)
<1>1. TypeOK' /\ FlushEffect(c)
  BY FlushStepType, FlushHasEffect
<1>2. UNCHANGED <<closed, unsubmitted>>
  BY <1>1 DEF FlushEffect
<1>3. Len(buffer[c]) = 0 /\ buffer[c] = <<>>
  <2>1. buffer[c] \in Seq(Producer) /\ Len(buffer[c]) <= 0
    BY EventLoopAssumption DEF TypeOK, BufferOK
  <2> QED BY <2>1
<1>4. consumers[c] # <<>> =>
        /\ c = LoopChan /\ FrontConsumer(c) \in Consumer
        /\ CallOf[FrontConsumer(c)] = FrontConsumer(c) /\ ~completed[FrontConsumer(c)]
  BY LiveLoopOps, FirstInLine, HeadsType
<1>5. CASE Dropped(c)
  <2>1. consumers' = consumers
    BY <1>4, <1>5 DEF Dropped
  <2>2. UNCHANGED <<completed, posted>>
    BY <1>1, <1>5, FinishesNoneExcept DEF Dropped
  <2> QED BY <1>2, <2>1, <2>2
<1>6. CASE Cancelled(c)
  <2> DEFINE o == FrontProducer(c)
  <2>1. o \in IoOp /\ ChannelClosed(o).which = o
    BY <1>6, HeadsType DEF Cancelled, IoOp, ChannelClosed
  <2>2. ~completed[CallOf[o]]
    BY <1>1, <1>6, <2>1, FinishesOneExcept DEF Cancelled
  <2> QED BY <1>6, <2>2, LiveLoopOps, LoopOps DEF Cancelled
<1>7. CASE Refused(c)
  <2> DEFINE o == FrontConsumer(c)
  <2>1. o \in IoOp /\ ChannelClosed(o).which = o
    BY <1>4, <1>7 DEF Refused, IoOp, ChannelClosed
  <2>2. Ends(o, ChannelClosed(o))
    BY <1>1, <1>7, <2>1, FinishesOneExcept DEF Refused
  <2> QED BY <1>2, <1>4, <1>7, <2>2 DEF Refused, RefusesFirst
<1>8. CASE Transferred(c)
  <2> DEFINE p == FrontProducer(c)
             o == FrontConsumer(c)
  <2>1. p \in Producer /\ o \in Consumer /\ CallOf[p] # CallOf[o]
    BY <1>8, HeadsType DEF Transferred
  <2>2. ~completed[CallOf[p]] /\ Meets(p, o)
    BY <1>1, <1>8, <2>1, FinishesTwoExcept DEF Transferred
  <2>3. PICK i \in 1 .. MaxWords : p = Nth(Push, i) /\ Nth(Push, i) \notin unsubmitted
    BY <1>8, LiveLoopOps DEF Transferred
  <2>4. GivesFirst(i)
    BY <1>4, <1>8, <2>2, <2>3, LoopOps DEF Transferred, GivesFirst
  <2> QED BY <1>2, <2>4
<1>9. ~Delivered(c) /\ ~Accepted(c)
  <2>1. Capacity[c] = 0
    BY EventLoopAssumption
  <2> QED BY <1>3, <2>1 DEF Delivered, Accepted
<1> QED BY <1>1, <1>5, <1>6, <1>7, <1>8, <1>9 DEF FlushEffect

-----------------------------------------------------------------------------
(***************************************************************************)
(* Every step of the event loop keeps its invariant.                       *)
(***************************************************************************)
\* The first receiver of the line is popped from the queue.
LEMMA LineShrinks ==
  ASSUME TypeOK, CallsInv, EventInv, consumers[LoopChan] # <<>>, PopConsumer(LoopChan)
  PROVE  /\ \A q \in Line' : /\ q \in Nat /\ q + 1 \in Line /\ InLine(q + 1) # InLine(1)
                             /\ consumers'[LoopChan][q] = consumers[LoopChan][q + 1]
                             /\ InLine(q)' = InLine(q + 1)
         /\ \A q \in Line : InLine(q) # InLine(1) =>
              q - 1 \in Line' /\ InLine(q - 1)' = InLine(q)
<1>1. LoopChan \in Chan /\ consumers[LoopChan] \in Seq(Consumer)
      /\ consumers'[LoopChan] = Tail(consumers[LoopChan])
  BY EventLoopAssumption DEF TypeOK, PopConsumer
<1>2. /\ Len(consumers[LoopChan]) \in Nat /\ Line' = 1 .. Len(consumers[LoopChan]) - 1
      /\ Line = 1 .. Len(consumers[LoopChan])
      /\ \A q \in 1 .. Len(consumers[LoopChan]) - 1 :
           consumers'[LoopChan][q] = consumers[LoopChan][q + 1]
  BY <1>1 DEF Line
<1>3. \A q \in Line : InLine(q) = InLine(1) => q = 1
  BY FirstInLine
<1>4. \A q \in Line' : /\ q \in Nat /\ q + 1 \in Line
                       /\ consumers'[LoopChan][q] = consumers[LoopChan][q + 1]
                       /\ InLine(q)' = InLine(q + 1)
  BY <1>2 DEF InLine
<1>5. \A q \in Line' : InLine(q + 1) # InLine(1)
  <2> SUFFICES ASSUME NEW q \in Line', InLine(q + 1) = InLine(1) PROVE FALSE
    OBVIOUS
  <2>1. q \in 1 .. Len(consumers[LoopChan]) - 1 /\ q + 1 = 1
    BY <1>2, <1>3, <1>4
  <2> QED BY <1>2, <2>1
<1>6. ASSUME NEW q \in Line, InLine(q) # InLine(1)
      PROVE  q - 1 \in Line' /\ InLine(q - 1)' = InLine(q)
  <2>1. q \in Nat /\ q # 1 /\ q - 1 \in Line' /\ (q - 1) + 1 = q
    BY <1>2, <1>6
  <2> QED BY <1>4, <2>1
<1> QED BY <1>4, <1>5, <1>6

\* What is said of a receiver depends on its current receive only.
LEMMA StandsStill ==
  ASSUME NEW s, step'[s] = step[s],
         step[s] > 0 => /\ completed'[Nth(s, step[s])] = completed[Nth(s, step[s])]
                        /\ posted'[Nth(s, step[s])] = posted[Nth(s, step[s])]
  PROVE  /\ Gained(s)' = Gained(s) /\ (Waits(s)' <=> Waits(s))
         /\ \A j : Holds(s, j)' <=> Holds(s, j)
BY DEF Gained, Waits, Holds, GoodNth, GotNth

\* The current receive of a receiver is one of the operations.
LEMMA CurrentReceive ==
  ASSUME EventInv, NEW s \in Receivers
  PROVE  /\ step[s] \in Nat /\ step[s] <= MaxWords + 1
         /\ step[s] > 0 => step[s] \in 1 .. MaxWords + 1
<1>1. step[s] \in Nat /\ step[s] <= MaxWords + 1
  BY DEF EventInv, LoopTypes, ReceiversRun, Coroutine
<1> QED BY <1>1, LoopOps

LEMMA GainedType ==
  ASSUME EventInv, NEW s \in Receivers
  PROVE  Gained(s) \in Nat
BY CurrentReceive DEF Gained

\* The send that is under way is that of the next word.
LEMMA NextSend ==
  ASSUME EventInv, NEW i \in 1 .. MaxWords,
         Nth(Push, i) \notin unsubmitted, ~completed[Nth(Push, i)]
  PROVE  /\ \A j \in 1 .. MaxWords : completed[Nth(Push, j)] <=> j < i
         /\ i = SentWords
         /\ Push \notin Range(ready) /\ ~timer /\ ~closed[LoopChan]
<1>1. SentWords \in Nat
  BY SentCount, ProgramFacts DEF EventInv, SentWords
<1>2. /\ \A j \in 1 .. MaxWords : Nth(Push, j) \notin unsubmitted <=> j <= SentWords
      /\ \A j \in 1 .. MaxWords : completed[Nth(Push, j)] => Nth(Push, j) \notin unsubmitted
  BY LoopOps DEF EventInv, CallsMade
<1>3. \A j \in 1 .. MaxWords : j < SentWords => completed[Nth(Push, j)]
  BY DEF EventInv, SenderRuns
<1>4. i = SentWords
  BY <1>1, <1>2, <1>3
<1>5. Push \notin Range(ready) /\ ~timer /\ ~closed[LoopChan]
  BY <1>2 DEF EventInv, SenderRuns
<1>6. \A j \in 1 .. MaxWords : completed[Nth(Push, j)] <=> j < i
  BY <1>1, <1>2, <1>3, <1>4, LoopOps
<1> QED BY <1>4, <1>5, <1>6

\* A step that neither the coroutines nor the event loop notice.
LEMMA LoopUnseenStep ==
  ASSUME EventInv, UNCHANGED <<completed, posted, consumers, closed, unsubmitted>>,
         UNCHANGED <<program, step, ready, printed, timer>>
  PROVE  EventInv'
<1>1. SentWords' = SentWords /\ Line' = Line /\ Readies' = Readies
      /\ \A q : InLine(q)' = InLine(q)
  BY DEF SentWords, Line, Readies, InLine
<1>2. \A s : /\ Gained(s)' = Gained(s) /\ (Waits(s)' <=> Waits(s))
             /\ \A j : Holds(s, j)' <=> Holds(s, j)
  BY StandsStill
<1>3. /\ \A s, n, i : GotNth(s, n, i)' <=> GotNth(s, n, i)
      /\ \A s, n : (GoodNth(s, n)' <=> GoodNth(s, n)) /\ (ToldNth(s, n)' <=> ToldNth(s, n))
  BY DEF GotNth, GoodNth, ToldNth
<1>4. LoopTypes' /\ CallsMade' /\ SenderRuns'
  BY <1>1 DEF EventInv, LoopTypes, CallsMade, SenderRuns
<1>5. ReceiversRun'
  BY <1>1, <1>2, <1>3 DEF EventInv, ReceiversRun
<1>6. WordsLinedUp'
  <2>1. /\ \A i \in DOMAIN printed : printed[i] = Nth(Push, i)
        /\ \A i \in 1 .. MaxWords : completed[Nth(Push, i)] <=>
             i <= Len(printed) \/ \E q \in Readies : Holds(ready[q], i)
        /\ \A q \in Readies, i \in 1 .. MaxWords : Holds(ready[q], i) => Len(printed) < i
        /\ \A p, q \in Readies : p < q =>
             \A i, j \in 1 .. MaxWords : Holds(ready[p], i) /\ Holds(ready[q], j) => i < j
    BY DEF EventInv, WordsLinedUp
  <2>2. \A q, j : Holds(ready[q], j)' <=> Holds(ready[q], j)
    BY <1>2
  <2>3. \A i \in DOMAIN printed' : printed'[i] = Nth(Push, i)
    BY <2>1
  <2>4. \A i \in 1 .. MaxWords : completed'[Nth(Push, i)] <=>
          i <= Len(printed') \/ \E q \in Readies' : Holds(ready[q], i)'
    BY <1>1, <2>1, <2>2
  <2>5. \A q \in Readies', i \in 1 .. MaxWords : Holds(ready[q], i)' => Len(printed') < i
    BY <1>1, <2>1, <2>2
  <2>6. \A p, q \in Readies' : p < q =>
          \A i, j \in 1 .. MaxWords : Holds(ready[p], i)' /\ Holds(ready[q], j)' => i < j
    BY <1>1, <2>1, <2>2
  <2> QED BY <2>3, <2>4, <2>5, <2>6 DEF WordsLinedUp
<1>7. TurnsTaken'
  BY <1>1, <1>2 DEF EventInv, TurnsTaken, LineOrdered
<1> QED BY <1>4, <1>5, <1>6, <1>7 DEF EventInv

\* A match: the first of the line gets the next word, and goes to its end.
LEMMA LoopMatchStep ==
  ASSUME TypeOK, CallsInv, EventInv, NEW i \in 1 .. MaxWords, GivesFirst(i), Posts,
         UNCHANGED <<closed, unsubmitted, program, step, timer, printed>>
  PROVE  EventInv'
<1>1. PICK r \in Receivers, n \in 1 .. MaxWords + 1 :
         /\ r = InLine(1) /\ n = step[r] /\ 1 \in Line
         /\ r \in program.receivers /\ r # Push /\ Waits(r)
         /\ Nth(r, n) = FrontConsumer(LoopChan)
         /\ ~completed[Nth(r, n)] /\ posted[Nth(r, n)] = <<>>
         /\ r \notin Range(ready) /\ \A q \in Line : InLine(q) = r => q = 1
  BY FirstInLine DEF GivesFirst
<1> DEFINE o == Nth(r, n)
           p == Nth(Push, i)
           S == program.receivers \cup {Push}
<1>2. /\ o \in Call /\ o \in Consumer /\ o \in LoopCall /\ CallOf[o] = o
      /\ p \in Call /\ p \in Producer /\ p \in LoopCall /\ CallOf[p] = p /\ p # o
  BY <1>1, LoopOps, NthNames
<1>3. p \notin unsubmitted /\ ~completed[p] /\ posted[p] = <<>>
  BY <1>2, NotYetPosted DEF GivesFirst, CallsInv
<1>4. /\ completed'[p] /\ posted'[p] = <<Ok(p, NoValue)>>
      /\ completed'[o] /\ posted'[o] = <<Ok(o, p)>>
      /\ \A k \in Call : k # p /\ k # o =>
           completed'[k] = completed[k] /\ posted'[k] = posted[k]
  <2>1. Meets(p, o)
    BY <1>1 DEF GivesFirst
  <2> QED BY <1>2, <2>1, EndsTwo
<1>5. /\ \A j \in 1 .. MaxWords : completed[Nth(Push, j)] <=> j < i
      /\ i = SentWords /\ Push \notin Range(ready) /\ ~timer /\ ~closed[LoopChan]
  BY <1>3, NextSend
<1>6. LoopTypes /\ ready \in Seq(S) /\ IsInjective(ready) /\ r \in S /\ Push \in S
  BY <1>1 DEF EventInv, LoopTypes
<1>7. NewlyPosted = {p, o}
  <2>1. \A k \in LoopCall : k \in Call
    BY EventLoopAssumption
  <2>2. Len(posted'[p]) = 1 /\ Len(posted'[o]) = 1
    BY <1>4
  <2>3. Len(posted[p]) = 0 /\ Len(posted[o]) = 0
    BY <1>1, <1>3
  <2>4. posted'[p] # posted[p] /\ posted'[o] # posted[o]
    <3> HIDE DEF p, o
    <3>1. ASSUME posted'[p] = posted[p] \/ posted'[o] = posted[o] PROVE FALSE
      <4>1. 1 = 0
        BY <2>2, <2>3, <3>1, Zenon
      <4> QED BY <4>1
    <3> QED BY <3>1
  <2>5. \A k \in LoopCall : k # p /\ k # o => posted'[k] = posted[k]
    BY <1>4, <2>1
  <2> HIDE DEF p, o
  <2> QED BY <1>2, <2>4, <2>5 DEF NewlyPosted
<1> HIDE DEF S
<1>8. ready' = Append(Append(ready, Push), r)
  BY <1>1, <1>6, <1>7, PostsBoth
<1>9. /\ ready' \in Seq(S) /\ IsInjective(ready')
      /\ \E e \in Nat :
           /\ e \notin Readies /\ Readies' = Readies \cup {e} /\ ready'[e] = r
           /\ \A q \in Readies : q < e /\ ready'[q] = ready[q] /\ ready[q] # r
  <2>1. \/ ready' = Append(ready, r)
        \/ Push \notin Range(ready) /\ ready' = Append(Append(ready, Push), r)
    BY <1>5, <1>8
  <2>2. r # Push /\ r \notin Range(ready)
    BY <1>1
  <2> QED BY ONLY <1>6, <2>1, <2>2, ReadyGrows
<1>10. PICK e \in Nat :
         /\ e \notin Readies /\ Readies' = Readies \cup {e} /\ ready'[e] = r
         /\ \A q \in Readies : q < e /\ ready'[q] = ready[q] /\ ready[q] # r
  BY <1>9
<1>11. /\ \A q \in Line' : /\ q \in Nat /\ q + 1 \in Line /\ InLine(q + 1) # r
                           /\ consumers'[LoopChan][q] = consumers[LoopChan][q + 1]
                           /\ InLine(q)' = InLine(q + 1)
       /\ \A q \in Line : InLine(q) # r => q - 1 \in Line' /\ InLine(q - 1)' = InLine(q)
  BY <1>1, LineShrinks DEF GivesFirst
<1>12. \A s \in Receivers : \A m \in 1 .. MaxWords + 1 :
         (s # r \/ m # n) => /\ completed'[Nth(s, m)] = completed[Nth(s, m)]
                             /\ posted'[Nth(s, m)] = posted[Nth(s, m)]
  BY <1>4, LoopOps, NthNames
<1>13. \A s \in Receivers \ {r} :
         /\ Gained(s)' = Gained(s) /\ (Waits(s)' <=> Waits(s))
         /\ \A j : Holds(s, j)' <=> Holds(s, j)
  <2> SUFFICES ASSUME NEW s \in Receivers \ {r}
               PROVE  /\ Gained(s)' = Gained(s) /\ (Waits(s)' <=> Waits(s))
                      /\ \A j : Holds(s, j)' <=> Holds(s, j)
    OBVIOUS
  <2> QED BY <1>12, CurrentReceive, StandsStill
<1>14. posted'[o] # <<>> /\ posted'[o][1].ec = "ok" /\ posted'[o][1].val = p
  BY <1>4 DEF Ok
<1>15. n \in Nat /\ n > 0 /\ step'[r] = n
  <2>1. MaxWords \in Nat
    BY LoopOps
  <2>2. n \in Nat /\ n > 0
    BY <2>1
  <2> QED BY <1>1, <2>2
<1>16. GoodNth(r, n)' /\ ~GoodNth(r, n) /\ \A j : GotNth(r, n, j)' <=> j = i
  <2>1. GoodNth(r, n)' /\ ~GoodNth(r, n)
    BY <1>1, <1>14 DEF GoodNth
  <2>2. GotNth(r, n, i)'
    BY <1>4 DEF GotNth
  <2>3. ASSUME NEW j, GotNth(r, n, j)' PROVE j = i
    <3>1. posted'[o] = <<Ok(o, Nth(Push, j))>>
      BY <2>3 DEF GotNth
    <3>2. posted'[o][1].val = Nth(Push, j)
      BY <3>1 DEF Ok
    <3>3. Nth(Push, i) = Nth(Push, j)
      BY <1>14, <3>2
    <3> QED BY <3>3, NthNames
  <2> QED BY <2>1, <2>2, <2>3
<1>17. /\ ~Waits(r)' /\ Gained(r)' = n /\ Gained(r) = n - 1
       /\ \A j : Holds(r, j)' <=> j = i
  <2>1. ~Waits(r)'
    BY <1>4, <1>15 DEF Waits
  <2>2. Gained(r)' = n /\ Gained(r) = n - 1
    BY <1>1, <1>15, <1>16 DEF Gained
  <2>3. \A j : Holds(r, j)' <=> j = i
    BY <1>15, <1>16 DEF Holds
  <2> QED BY <2>1, <2>2, <2>3
<1>18. /\ \A q \in Readies : ready[q] \in Receivers /\ ready[q] \in program.receivers
       /\ \A q \in Line : InLine(q) \in Receivers /\ InLine(q) \in program.receivers
  BY <1>6, ProgramFacts DEF Readies, EventInv, ReceiversRun, S
<1>19. /\ SentWords' = SentWords /\ \A k \in LoopCall : k \in Call
       /\ o \notin unsubmitted /\ ~closed'[LoopChan] /\ ~timer'
  <2>1. SentWords' = SentWords
    BY DEF SentWords
  <2>2. o \notin unsubmitted
    BY <1>1, <1>15 DEF EventInv, CallsMade
  <2> QED BY <1>5, <2>1, <2>2, EventLoopAssumption
<1> HIDE DEF o, p
<1>20. \A j \in 1 .. MaxWords : completed'[Nth(Push, j)] <=> j <= i
  <2>1. \A j \in 1 .. MaxWords : j # i =>
          completed'[Nth(Push, j)] = completed[Nth(Push, j)]
    BY <1>1, <1>4, LoopOps, NthNames DEF o, p
  <2> SUFFICES ASSUME NEW j \in 1 .. MaxWords
               PROVE  completed'[Nth(Push, j)] <=> j <= i
    OBVIOUS
  <2>2. MaxWords \in Nat
    BY LoopOps
  <2>3. CASE j = i
    BY <1>4, <2>2, <2>3 DEF p
  <2>4. CASE j # i
    BY <1>5, <2>1, <2>2, <2>4
  <2> QED BY <2>3, <2>4
<1>21. LoopTypes'
  BY <1>6, <1>9 DEF LoopTypes, S
<1>22. CallsMade'
  <2>1. \A k \in LoopCall : completed'[k] => k \notin unsubmitted'
    BY <1>3, <1>4, <1>19 DEF EventInv, CallsMade, p
  <2> QED BY <1>19, <2>1 DEF EventInv, CallsMade
<1>23. SenderRuns'
  <2>1. \A j \in 1 .. MaxWords : j <= SentWords' => completed'[Nth(Push, j)]
    BY <1>5, <1>19, <1>20
  <2>2. \A j \in 1 .. MaxWords : j < SentWords' => completed'[Nth(Push, j)]
    BY <1>5, <1>19, <1>20, LoopOps
  <2> QED BY <1>19, <2>1, <2>2 DEF EventInv, SenderRuns
<1>24. n <= i
  <2>1. CASE n = 1
    BY <2>1, LoopOps
  <2>2. CASE n # 1
    <3>1. n - 1 \in 1 .. MaxWords + 1 /\ n - 1 < step[r]
      BY <1>1, <1>15, <2>2, LoopSizes
    <3>2. GoodNth(r, n - 1) /\ Nth(r, n - 1) \in Call
      BY <3>1, LoopOps DEF EventInv, ReceiversRun
    <3>3. completed[Nth(r, n - 1)]
      BY <3>2, NotYetPosted DEF GoodNth, CallsInv
    <3>4. PICK j \in 1 .. MaxWords : GotNth(r, n - 1, j)
      BY <1>5, <3>1, <3>3 DEF EventInv, ReceiversRun
    <3>5. j < i /\ n - 1 <= j
      BY <1>5, <3>1, <3>4 DEF EventInv, ReceiversRun
    <3> QED BY <1>15, <3>5, LoopOps
  <2> QED BY <2>1, <2>2
<1>25. ReceiversRun'
  <2>1. ASSUME NEW s \in Receivers
        PROVE  step'[s] <= MaxWords + 1
    BY CurrentReceive
  <2>2. ASSUME NEW s \in Receivers, NEW m \in 1 .. MaxWords + 1, m < step'[s]
        PROVE  GoodNth(s, m)'
    <3>1. s # r \/ m # n
      BY <1>15, <2>2, LoopOps
    <3>2. GoodNth(s, m)
      BY <2>2 DEF EventInv, ReceiversRun
    <3> QED BY <1>12, <3>1, <3>2 DEF GoodNth
  <2>3. ASSUME NEW s \in Receivers, NEW m \in 1 .. MaxWords + 1, completed'[Nth(s, m)]
        PROVE  \/ \E j \in 1 .. MaxWords : GotNth(s, m, j)'
               \/ closed'[LoopChan] /\ ToldNth(s, m)'
    <3>1. CASE s = r /\ m = n
      BY <1>16, <3>1
    <3>2. CASE s # r \/ m # n
      BY <1>12, <2>3, <3>2 DEF EventInv, ReceiversRun, GotNth, ToldNth
    <3> QED BY <3>1, <3>2
  <2>4. ASSUME NEW s \in Receivers, NEW m \in 1 .. MaxWords + 1, NEW j \in 1 .. MaxWords,
               GotNth(s, m, j)'
        PROVE  completed'[Nth(Push, j)] /\ m <= j
    <3>1. CASE s = r /\ m = n
      BY <1>16, <1>20, <1>24, <2>4, <3>1
    <3>2. CASE s # r \/ m # n
      <4>1. GotNth(s, m, j)
        BY <1>12, <2>4, <3>2 DEF GotNth
      <4>2. completed[Nth(Push, j)] /\ m <= j
        BY <4>1 DEF EventInv, ReceiversRun
      <4>3. j < i
        BY <1>5, <4>2
      <4>4. completed'[Nth(Push, j)]
        BY <1>20, <4>3, LoopSizes
      <4> QED BY <4>2, <4>4
    <3> QED BY <3>1, <3>2
  <2>5. ASSUME NEW q \in Readies'
        PROVE  ~Waits(ready[q])'
    <3>1. CASE q = e
      BY <1>10, <1>17, <3>1
    <3>2. CASE q \in Readies
      BY <1>10, <1>13, <1>18, <3>2 DEF EventInv, ReceiversRun
    <3> QED BY <1>10, <3>1, <3>2
  <2>6. ASSUME NEW q \in Line'
        PROVE  /\ InLine(q)' \in program.receivers /\ Waits(InLine(q))'
               /\ consumers'[LoopChan][q] = Nth(InLine(q)', step'[InLine(q)'])
    <3> DEFINE s == InLine(q + 1)
    <3>1. s \in program.receivers /\ Waits(s) /\ s \in Receivers
          /\ consumers[LoopChan][q + 1] = Nth(s, step[s])
      BY <1>11, <1>18 DEF EventInv, ReceiversRun
    <3>2. PICK u \in Receivers \ {r} : u = s
      BY <1>11, <3>1
    <3>3. Waits(u)'
      BY <1>13, <3>1, <3>2
    <3> QED BY <1>11, <3>1, <3>2, <3>3
  <2> QED BY <2>1, <2>2, <2>3, <2>4, <2>5, <2>6 DEF ReceiversRun
<1>26. WordsLinedUp'
  <2>1. \A q \in Readies : /\ q # e /\ ready'[q] = ready[q]
                           /\ \A j : Holds(ready[q], j)' <=> Holds(ready[q], j)
    <3> SUFFICES ASSUME NEW q \in Readies
                 PROVE  /\ q # e /\ ready'[q] = ready[q]
                        /\ \A j : Holds(ready[q], j)' <=> Holds(ready[q], j)
      OBVIOUS
    <3>1. PICK u \in Receivers \ {r} : u = ready[q] /\ u = ready'[q]
      BY <1>10, <1>18
    <3> QED BY <1>10, <1>13, <3>1
  <2>2. \A j : Holds(ready[e], j)' <=> j = i
    BY <1>10, <1>17
  <2>3. \A j \in DOMAIN printed' : printed'[j] = Nth(Push, j)
    BY DEF EventInv, WordsLinedUp
  <2>4. Len(printed) < i /\ Len(printed) \in Nat
    <3>1. Len(printed) \in Nat
      BY <1>6 DEF LoopTypes
    <3>2. completed[Nth(Push, i)] <=>
            i <= Len(printed) \/ \E q \in Readies : Holds(ready[q], i)
      BY DEF EventInv, WordsLinedUp
    <3>3. ~(i <= Len(printed))
      BY <1>3, <3>2 DEF p
    <3> QED BY <3>1, <3>3, LoopSizes
  <2>5. ASSUME NEW j \in 1 .. MaxWords
        PROVE  completed'[Nth(Push, j)] <=>
                 j <= Len(printed') \/ \E q \in Readies' : Holds(ready[q], j)'
    <3>1. completed[Nth(Push, j)] <=>
            j <= Len(printed) \/ \E q \in Readies : Holds(ready[q], j)
      BY DEF EventInv, WordsLinedUp
    <3>2. completed'[Nth(Push, j)] <=> completed[Nth(Push, j)] \/ j = i
      BY <1>5, <1>20, LoopSizes
    <3>3. (\E q \in Readies' : Holds(ready[q], j)')
            <=> (\E q \in Readies : Holds(ready[q], j)) \/ j = i
      BY <1>10, <2>1, <2>2
    <3> QED BY <3>1, <3>2, <3>3
  <2>6. ASSUME NEW q \in Readies', NEW j \in 1 .. MaxWords, Holds(ready[q], j)'
        PROVE  Len(printed') < j
    <3>1. CASE q = e
      BY <2>2, <2>4, <2>6, <3>1
    <3>2. CASE q \in Readies
      BY <2>1, <2>6, <3>2 DEF EventInv, WordsLinedUp
    <3> QED BY <1>10, <3>1, <3>2
  <2>7. ASSUME NEW x \in Readies', NEW y \in Readies', x < y,
               NEW a \in 1 .. MaxWords, NEW b \in 1 .. MaxWords,
               Holds(ready[x], a)', Holds(ready[y], b)'
        PROVE  a < b
    <3>1. x \in Readies
      <4>1. \A q \in Readies : q \in Nat
        BY <1>6 DEF Readies
      <4>2. x # e
        BY <1>10, <2>7, <4>1
      <4> QED BY <1>10, <4>2
    <3>2. Holds(ready[x], a)
      BY <2>1, <2>7, <3>1
    <3>3. CASE y = e
      <4>1. completed[Nth(Push, a)]
        BY <3>1, <3>2 DEF EventInv, WordsLinedUp
      <4> QED BY <1>5, <2>2, <2>7, <3>3, <4>1
    <3>4. CASE y \in Readies
      BY <2>1, <2>7, <3>1, <3>2, <3>4 DEF EventInv, WordsLinedUp
    <3> QED BY <1>10, <3>3, <3>4
  <2> QED BY <2>3, <2>5, <2>6, <2>7 DEF WordsLinedUp
<1>27. TurnsTaken'
  <2>1. \A s \in Receivers : Gained(s) \in Int
    BY GainedType
  <2>2. \A q \in Readies : /\ q # e /\ ready'[q] = ready[q]
                           /\ Gained(ready[q])' = Gained(ready[q])
    <3> SUFFICES ASSUME NEW q \in Readies
                 PROVE  /\ q # e /\ ready'[q] = ready[q]
                        /\ Gained(ready[q])' = Gained(ready[q])
      OBVIOUS
    <3>1. PICK u \in Receivers \ {r} : u = ready[q] /\ u = ready'[q]
      BY <1>10, <1>18
    <3> QED BY <1>10, <1>13, <3>1
  <2>3. \A q \in Line' : /\ q + 1 \in Line /\ InLine(q)' = InLine(q + 1)
                         /\ Gained(InLine(q))' = Gained(InLine(q + 1))
    <3> SUFFICES ASSUME NEW q \in Line'
                 PROVE  /\ q + 1 \in Line /\ InLine(q)' = InLine(q + 1)
                        /\ Gained(InLine(q))' = Gained(InLine(q + 1))
      OBVIOUS
    <3>1. PICK u \in Receivers \ {r} : u = InLine(q + 1) /\ u = InLine(q)'
      BY <1>11, <1>18
    <3> QED BY <1>11, <1>13, <3>1
  <2>4. Gained(ready[e])' = Gained(r) + 1 /\ Gained(r)' = Gained(r) + 1
    BY <1>10, <1>15, <1>17
  <2>5. LineOrdered /\ \A a, b \in program.receivers : Gained(a) <= Gained(b) + 1
    BY <1>5 DEF EventInv, TurnsTaken
  <2>6. ASSUME NEW b \in program.receivers
        PROVE  Gained(r) <= Gained(b) /\ b \in Receivers
    <3>1. b \in Receivers
      BY <1>6, ProgramFacts
    <3>2. CASE \E q \in Readies : ready[q] = b
      BY <1>1, <2>5, <3>1, <3>2 DEF LineOrdered
    <3>3. CASE \E q \in Line : InLine(q) = b
      <4>1. PICK q \in Line : InLine(q) = b
        BY <3>3
      <4>2. q = 1 \/ 1 < q
        BY <4>1 DEF Line
      <4>3. CASE q = 1
        BY <1>1, <2>1, <3>1, <4>1, <4>3
      <4>4. CASE 1 < q
        BY <1>1, <2>5, <3>1, <4>1, <4>4 DEF LineOrdered
      <4> QED BY <4>2, <4>3, <4>4
    <3> QED BY <2>5, <3>1, <3>2, <3>3, <2>1 DEF LineOrdered
  <2>7. ASSUME NEW a \in program.receivers', NEW b \in program.receivers'
        PROVE  Gained(a)' <= Gained(b)' + 1
    <3>1. /\ a \in program.receivers /\ b \in program.receivers
          /\ a \in Receivers /\ b \in Receivers
      BY <2>6
    <3>2. Gained(a) \in Int /\ Gained(b) \in Int /\ Gained(r) \in Int
      BY <2>1, <3>1
    <3>3. Gained(a) <= Gained(b) + 1 /\ Gained(r) <= Gained(b)
      BY <2>5, <2>6, <3>1
    <3>4. Gained(b)' = Gained(b) \/ Gained(b)' = Gained(b) + 1
      BY <1>13, <2>4, <3>1
    <3>5. Gained(a)' = Gained(a) \/ Gained(a)' = Gained(r) + 1
      BY <1>13, <2>4, <3>1
    <3> QED BY <3>2, <3>3, <3>4, <3>5
  <2>8. ASSUME NEW s \in program.receivers'
        PROVE  (\E q \in Readies' : ready'[q] = s) \/ \E q \in Line' : InLine(q)' = s
    <3>1. CASE s = r
      BY <1>10, <3>1
    <3>2. CASE s # r /\ \E q \in Readies : ready[q] = s
      BY <1>10, <2>2, <3>2
    <3>3. CASE s # r /\ \E q \in Line : InLine(q) = s
      BY <1>11, <3>3
    <3> QED BY <2>5, <3>1, <3>2, <3>3 DEF LineOrdered
  <2>9. ASSUME NEW x \in Line', NEW y \in Line', x < y
        PROVE  Gained(InLine(x))' <= Gained(InLine(y))'
    <3>1. x + 1 < y + 1
      BY <1>11, <2>9
    <3> QED BY <2>3, <2>5, <3>1 DEF LineOrdered
  <2>10. ASSUME NEW x \in Line', NEW y \in Readies'
         PROVE  Gained(InLine(x))' <= Gained(ready[y])'
    <3>1. CASE y = e
      BY <1>1, <1>18, <2>3, <2>4, <2>5, <3>1
    <3>2. CASE y \in Readies
      BY <2>2, <2>3, <2>5, <3>2 DEF LineOrdered
    <3> QED BY <1>10, <3>1, <3>2
  <2>11. ASSUME NEW x \in Readies', NEW y \in Readies', x < y
         PROVE  Gained(ready[x])' <= Gained(ready[y])'
    <3>1. \A q \in Readies : q \in Nat
      BY <1>6 DEF Readies
    <3>2. x \in Readies
      BY <1>10, <2>11, <3>1
    <3>3. CASE y = e
      BY <1>1, <1>18, <2>2, <2>4, <2>5, <3>2, <3>3
    <3>4. CASE y \in Readies
      BY <2>2, <2>5, <2>11, <3>2, <3>4 DEF LineOrdered
    <3> QED BY <1>10, <3>3, <3>4
  <2>12. LineOrdered'
    BY <2>8, <2>9, <2>10, <2>11 DEF LineOrdered
  <2> QED BY <2>7, <2>12 DEF TurnsTaken
<1> QED BY <1>21, <1>22, <1>23, <1>25, <1>26, <1>27 DEF EventInv

\* The first of the line is told of the close.
LEMMA LoopRefuseStep ==
  ASSUME TypeOK, CallsInv, EventInv, RefusesFirst, Posts,
         UNCHANGED <<closed, unsubmitted, program, step, timer, printed>>
  PROVE  EventInv'
<1>1. PICK r \in Receivers, n \in 1 .. MaxWords + 1 :
         /\ r = InLine(1) /\ n = step[r] /\ 1 \in Line
         /\ r \in program.receivers /\ r # Push /\ Waits(r)
         /\ Nth(r, n) = FrontConsumer(LoopChan)
         /\ ~completed[Nth(r, n)] /\ posted[Nth(r, n)] = <<>>
         /\ r \notin Range(ready) /\ \A q \in Line : InLine(q) = r => q = 1
  BY FirstInLine DEF RefusesFirst
<1> DEFINE o == Nth(r, n)
           S == program.receivers \cup {Push}
<1>2. o \in Call /\ o \in Consumer /\ o \in IoOp /\ o \in LoopCall /\ CallOf[o] = o
  BY <1>1, LoopOps
<1>3. /\ completed'[o] /\ posted'[o] = <<ChannelClosed(o)>>
      /\ \A k \in Call : k # o => completed'[k] = completed[k] /\ posted'[k] = posted[k]
  <2>1. Ends(o, ChannelClosed(o))
    BY <1>1 DEF RefusesFirst
  <2> QED BY <1>2, <2>1, EndsOne
<1>4. closed[LoopChan] /\ closed'[LoopChan]
  BY DEF RefusesFirst
<1>5. LoopTypes /\ ready \in Seq(S) /\ IsInjective(ready) /\ r \in S /\ Push \in S
  BY <1>1 DEF EventInv, LoopTypes
<1>6. NewlyPosted = {o}
  <2>1. \A k \in LoopCall : k \in Call
    BY EventLoopAssumption
  <2>2. Len(posted'[o]) = 1 /\ Len(posted[o]) = 0
    BY <1>1, <1>3
  <2>3. posted'[o] # posted[o]
    <3> HIDE DEF o
    <3>1. ASSUME posted'[o] = posted[o] PROVE FALSE
      <4>1. 1 = 0
        BY <2>2, <3>1, Zenon
      <4> QED BY <4>1
    <3> QED BY <3>1
  <2>4. \A k \in LoopCall : k # o => posted'[k] = posted[k]
    BY <1>3, <2>1
  <2> HIDE DEF o
  <2> QED BY <1>2, <2>3, <2>4 DEF NewlyPosted
<1> HIDE DEF S
<1>7. ready' = Append(ready, r)
  BY <1>1, <1>5, <1>6, PostsReceiver
<1>8. /\ ready' \in Seq(S) /\ IsInjective(ready') /\ Range(ready') = Range(ready) \cup {r}
      /\ \E e \in Nat :
           /\ e \notin Readies /\ Readies' = Readies \cup {e} /\ ready'[e] = r
           /\ \A q \in Readies : q < e /\ ready'[q] = ready[q] /\ ready[q] # r
  <2>1. \/ ready' = Append(ready, r)
        \/ Push \notin Range(ready) /\ ready' = Append(Append(ready, Push), r)
    BY <1>7
  <2>2. r # Push /\ r \notin Range(ready)
    BY <1>1
  <2> QED BY ONLY <1>5, <1>7, <2>1, <2>2, ReadyGrows
<1>9. PICK e \in Nat :
        /\ e \notin Readies /\ Readies' = Readies \cup {e} /\ ready'[e] = r
        /\ \A q \in Readies : q < e /\ ready'[q] = ready[q] /\ ready[q] # r
  BY <1>8
<1>10. /\ \A q \in Line' : /\ q \in Nat /\ q + 1 \in Line /\ InLine(q + 1) # r
                           /\ consumers'[LoopChan][q] = consumers[LoopChan][q + 1]
                           /\ InLine(q)' = InLine(q + 1)
       /\ \A q \in Line : InLine(q) # r => q - 1 \in Line' /\ InLine(q - 1)' = InLine(q)
  BY <1>1, LineShrinks DEF RefusesFirst
<1>11. \A s \in Receivers : \A m \in 1 .. MaxWords + 1 :
         (s # r \/ m # n) => /\ completed'[Nth(s, m)] = completed[Nth(s, m)]
                             /\ posted'[Nth(s, m)] = posted[Nth(s, m)]
  BY <1>3, LoopOps, NthNames
<1>12. \A s \in Receivers \ {r} :
         /\ Gained(s)' = Gained(s) /\ (Waits(s)' <=> Waits(s))
         /\ \A j : Holds(s, j)' <=> Holds(s, j)
  <2> SUFFICES ASSUME NEW s \in Receivers \ {r}
               PROVE  /\ Gained(s)' = Gained(s) /\ (Waits(s)' <=> Waits(s))
                      /\ \A j : Holds(s, j)' <=> Holds(s, j)
    OBVIOUS
  <2> QED BY <1>11, CurrentReceive, StandsStill
<1>13. posted'[o][1].ec = "closed" /\ \A j : posted'[o] # <<Ok(o, Nth(Push, j))>>
  <2>1. posted'[o][1].ec = "closed"
    BY <1>3 DEF ChannelClosed
  <2>2. ASSUME NEW j, posted'[o] = <<Ok(o, Nth(Push, j))>> PROVE FALSE
    <3>1. posted'[o][1].ec = "ok"
      BY <2>2 DEF Ok
    <3> QED BY <2>1, <3>1
  <2> QED BY <2>1, <2>2
<1>14. n \in Nat /\ n > 0 /\ step'[r] = n
  <2>1. n \in Nat /\ n > 0
    BY LoopSizes
  <2> QED BY <1>1, <2>1
<1>15. ~GoodNth(r, n)' /\ ~GoodNth(r, n) /\ ToldNth(r, n)'
       /\ \A j : ~GotNth(r, n, j)' /\ ~GotNth(r, n, j)
  <2>1. ~GoodNth(r, n)' /\ ~GoodNth(r, n) /\ ToldNth(r, n)'
    BY <1>1, <1>3, <1>13 DEF GoodNth, ToldNth
  <2>2. \A j : ~GotNth(r, n, j)'
    BY <1>13 DEF GotNth
  <2>3. ASSUME NEW j, GotNth(r, n, j) PROVE FALSE
    <3>1. Len(posted[o]) = 0 /\ Len(posted[o]) = 1
      BY <1>1, <2>3 DEF GotNth
    <3> QED BY <3>1
  <2> QED BY <2>1, <2>2, <2>3
<1>16. /\ ~Waits(r)' /\ Gained(r)' = Gained(r)
       /\ \A j : ~Holds(r, j)' /\ ~Holds(r, j)
  <2>1. ~Waits(r)'
    BY <1>3, <1>14 DEF Waits
  <2>2. Gained(r)' = Gained(r)
    BY <1>1, <1>14, <1>15 DEF Gained
  <2>3. \A j : ~Holds(r, j)' /\ ~Holds(r, j)
    BY <1>1, <1>14, <1>15 DEF Holds
  <2> QED BY <2>1, <2>2, <2>3
<1>17. /\ \A q \in Readies : ready[q] \in Receivers /\ ready[q] \in program.receivers
       /\ \A q \in Line : InLine(q) \in Receivers /\ InLine(q) \in program.receivers
  BY <1>5, ProgramFacts DEF Readies, EventInv, ReceiversRun, S
<1>18. /\ SentWords' = SentWords /\ o \notin unsubmitted
       /\ \A k \in LoopCall : k \in Call
       /\ \A j \in 1 .. MaxWords : completed'[Nth(Push, j)] = completed[Nth(Push, j)]
  <2>1. SentWords' = SentWords
    BY DEF SentWords
  <2>2. o \notin unsubmitted
    BY <1>1, <1>14 DEF EventInv, CallsMade
  <2>3. \A j \in 1 .. MaxWords : completed'[Nth(Push, j)] = completed[Nth(Push, j)]
    BY <1>1, <1>3, LoopOps, NthNames
  <2> QED BY <2>1, <2>2, <2>3, EventLoopAssumption
<1> HIDE DEF o
<1>19. LoopTypes'
  BY <1>5, <1>8 DEF LoopTypes, S
<1>20. CallsMade'
  <2>1. \A k \in LoopCall : completed'[k] => k \notin unsubmitted'
    BY <1>3, <1>18 DEF EventInv, CallsMade
  <2> QED BY <1>18, <2>1 DEF EventInv, CallsMade
<1>21. SenderRuns'
  <2>1. Push \notin Range(ready) /\ ~timer
    BY <1>4 DEF EventInv, SenderRuns
  <2>2. Push \notin Range(ready') /\ ~timer'
    BY <1>1, <1>8, <2>1
  <2> QED BY <1>4, <1>18, <2>2 DEF EventInv, SenderRuns
<1>22. ReceiversRun'
  <2>1. ASSUME NEW s \in Receivers
        PROVE  step'[s] <= MaxWords + 1
    BY CurrentReceive
  <2>2. ASSUME NEW s \in Receivers, NEW m \in 1 .. MaxWords + 1, m < step'[s]
        PROVE  GoodNth(s, m)'
    <3>1. s # r \/ m # n
      BY <1>14, <2>2
    <3>2. GoodNth(s, m)
      BY <2>2 DEF EventInv, ReceiversRun
    <3> QED BY <1>11, <3>1, <3>2 DEF GoodNth
  <2>3. ASSUME NEW s \in Receivers, NEW m \in 1 .. MaxWords + 1, completed'[Nth(s, m)]
        PROVE  \/ \E j \in 1 .. MaxWords : GotNth(s, m, j)'
               \/ closed'[LoopChan] /\ ToldNth(s, m)'
    <3>1. CASE s = r /\ m = n
      BY <1>4, <1>15, <3>1
    <3>2. CASE s # r \/ m # n
      BY <1>11, <2>3, <3>2 DEF EventInv, ReceiversRun, GotNth, ToldNth
    <3> QED BY <3>1, <3>2
  <2>4. ASSUME NEW s \in Receivers, NEW m \in 1 .. MaxWords + 1, NEW j \in 1 .. MaxWords,
               GotNth(s, m, j)'
        PROVE  completed'[Nth(Push, j)] /\ m <= j
    <3>1. s # r \/ m # n
      BY <1>15, <2>4
    <3>2. GotNth(s, m, j)
      BY <1>11, <2>4, <3>1 DEF GotNth
    <3>3. completed[Nth(Push, j)] /\ m <= j
      BY <3>2 DEF EventInv, ReceiversRun
    <3> QED BY <1>18, <3>3
  <2>5. ASSUME NEW q \in Readies'
        PROVE  ~Waits(ready[q])'
    <3>1. CASE q = e
      BY <1>9, <1>16, <3>1
    <3>2. CASE q \in Readies
      BY <1>9, <1>12, <1>17, <3>2 DEF EventInv, ReceiversRun
    <3> QED BY <1>9, <3>1, <3>2
  <2>6. ASSUME NEW q \in Line'
        PROVE  /\ InLine(q)' \in program.receivers /\ Waits(InLine(q))'
               /\ consumers'[LoopChan][q] = Nth(InLine(q)', step'[InLine(q)'])
    <3> DEFINE s == InLine(q + 1)
    <3>1. s \in program.receivers /\ Waits(s) /\ s \in Receivers
          /\ consumers[LoopChan][q + 1] = Nth(s, step[s])
      BY <1>10, <1>17 DEF EventInv, ReceiversRun
    <3>2. PICK u \in Receivers \ {r} : u = s
      BY <1>10, <3>1
    <3>3. Waits(u)'
      BY <1>12, <3>1, <3>2
    <3> QED BY <1>10, <3>1, <3>2, <3>3
  <2> QED BY <2>1, <2>2, <2>3, <2>4, <2>5, <2>6 DEF ReceiversRun
<1>23. WordsLinedUp'
  <2>1. \A q \in Readies : /\ q # e /\ ready'[q] = ready[q]
                           /\ \A j : Holds(ready[q], j)' <=> Holds(ready[q], j)
    <3> SUFFICES ASSUME NEW q \in Readies
                 PROVE  /\ q # e /\ ready'[q] = ready[q]
                        /\ \A j : Holds(ready[q], j)' <=> Holds(ready[q], j)
      OBVIOUS
    <3>1. PICK u \in Receivers \ {r} : u = ready[q] /\ u = ready'[q]
      BY <1>9, <1>17
    <3> QED BY <1>9, <1>12, <3>1
  <2>2. \A j : ~Holds(ready[e], j)'
    BY <1>9, <1>16
  <2>3. \A j \in DOMAIN printed' : printed'[j] = Nth(Push, j)
    BY DEF EventInv, WordsLinedUp
  <2>4. ASSUME NEW j \in 1 .. MaxWords
        PROVE  completed'[Nth(Push, j)] <=>
                 j <= Len(printed') \/ \E q \in Readies' : Holds(ready[q], j)'
    <3>1. completed[Nth(Push, j)] <=>
            j <= Len(printed) \/ \E q \in Readies : Holds(ready[q], j)
      BY DEF EventInv, WordsLinedUp
    <3>2. (\E q \in Readies' : Holds(ready[q], j)')
            <=> (\E q \in Readies : Holds(ready[q], j))
      BY <1>9, <2>1, <2>2
    <3> QED BY <1>18, <3>1, <3>2
  <2>5. ASSUME NEW q \in Readies', NEW j \in 1 .. MaxWords, Holds(ready[q], j)'
        PROVE  Len(printed') < j
    <3>1. q \in Readies
      BY <1>9, <2>2, <2>5
    <3> QED BY <2>1, <2>5, <3>1 DEF EventInv, WordsLinedUp
  <2>6. ASSUME NEW x \in Readies', NEW y \in Readies', x < y,
               NEW a \in 1 .. MaxWords, NEW b \in 1 .. MaxWords,
               Holds(ready[x], a)', Holds(ready[y], b)'
        PROVE  a < b
    <3>1. x \in Readies /\ y \in Readies
      BY <1>9, <2>2, <2>6
    <3>2. Holds(ready[x], a) /\ Holds(ready[y], b)
      BY <2>1, <2>6, <3>1
    <3> QED BY <2>6, <3>1, <3>2 DEF EventInv, WordsLinedUp
  <2> QED BY <2>3, <2>4, <2>5, <2>6 DEF WordsLinedUp
<1>24. TurnsTaken'
  <2>1. \A s \in program.receivers : s \in Receivers
    BY <1>5, ProgramFacts
  <2>2. \A s \in Receivers : Gained(s)' = Gained(s)
    BY <1>12, <1>16
  <2> QED BY <1>4, <2>1, <2>2 DEF EventInv, TurnsTaken
<1> QED BY <1>19, <1>20, <1>21, <1>22, <1>23, <1>24 DEF EventInv

\* What the receiver that is resumed has got: nothing before its first receive,
\* and otherwise the first word that is not printed, unless it leaves.
LEMMA ResumedReceiver ==
  ASSUME TypeOK, CallsInv, EventInv, NEW r \in Receivers, Resume(r)
  PROVE  /\ 1 \in Readies /\ ready[1] = r /\ ~Waits(r) /\ r \in program.receivers
         /\ \A i, j : Holds(r, i) /\ Holds(r, j) => i = j
         /\ step[r] > 0 => /\ Got(r) = posted[Nth(r, step[r])] /\ Got(r) # <<>>
                           /\ Got(r)[1].ec = "ok" => \E i \in 1 .. MaxWords :
                                /\ Holds(r, i) /\ Got(r)[1].val = Nth(Push, i)
                                /\ step[r] <= i /\ i = Len(printed) + 1
                           /\ Got(r)[1].ec # "ok" => closed[LoopChan]
<1> DEFINE n == step[r]
           S == program.receivers \cup {Push}
<1>1. LoopTypes /\ ready \in Seq(S) /\ IsInjective(ready) /\ Len(printed) \in Nat
  BY DEF EventInv, LoopTypes
<1>2. r \in S /\ 1 \in DOMAIN ready /\ ready[1] = r
  BY <1>1, ReadyShrinks
<1>3. r # Push /\ r \in program.receivers /\ 1 \in Readies
  BY <1>2, LoopOps DEF Readies
<1>4. ~Waits(r)
  BY <1>2, <1>3 DEF EventInv, ReceiversRun
<1>5. ASSUME NEW i, NEW j, Holds(r, i), Holds(r, j)
      PROVE  i = j
  <2>1. <<Ok(Nth(r, n), Nth(Push, i))>> = <<Ok(Nth(r, n), Nth(Push, j))>>
    BY <1>5 DEF Holds, GotNth
  <2>2. Ok(Nth(r, n), Nth(Push, i)) = Ok(Nth(r, n), Nth(Push, j))
    BY <2>1
  <2>3. Ok(Nth(r, n), Nth(Push, i)).val = Ok(Nth(r, n), Nth(Push, j)).val
    BY <2>2
  <2>4. Nth(Push, i) = Nth(Push, j)
    BY <2>3 DEF Ok
  <2> QED BY <2>4, NthNames
<1>6. ASSUME n > 0
      PROVE  /\ Got(r) = posted[Nth(r, n)] /\ Got(r) # <<>>
             /\ Got(r)[1].ec = "ok" => \E i \in 1 .. MaxWords :
                  /\ Holds(r, i) /\ Got(r)[1].val = Nth(Push, i)
                  /\ n <= i /\ i = Len(printed) + 1
             /\ Got(r)[1].ec # "ok" => closed[LoopChan]
  <2>1. n \in 1 .. MaxWords + 1
    BY <1>6, CurrentReceive
  <2>2. completed[Nth(r, n)]
    BY <1>4, <1>6 DEF Waits
  <2>3. Got(r) = posted[Nth(r, n)]
    BY <1>6, <2>1, LoopSizes DEF Got
  <2>4. CASE \E i \in 1 .. MaxWords : GotNth(r, n, i)
    <3>1. PICK i \in 1 .. MaxWords : GotNth(r, n, i)
      BY <2>4
    <3>2. Got(r) = <<Ok(Nth(r, n), Nth(Push, i))>>
      BY <2>3, <3>1 DEF GotNth
    <3>3. Got(r) # <<>> /\ Got(r)[1].ec = "ok" /\ Got(r)[1].val = Nth(Push, i)
      BY <3>2 DEF Ok
    <3>4. Holds(r, i) /\ completed[Nth(Push, i)] /\ n <= i
      BY <1>6, <2>1, <3>1 DEF Holds, EventInv, ReceiversRun
    <3>5. Len(printed) < i
      BY <1>2, <1>3, <3>4 DEF EventInv, WordsLinedUp
    <3>6. ASSUME Len(printed) + 1 < i PROVE FALSE
      <4> DEFINE j == Len(printed) + 1
      <4>1. j \in 1 .. MaxWords /\ ~(j <= Len(printed)) /\ j < i
        BY <1>1, <3>6, LoopSizes
      <4>2. i <= SentWords /\ SentWords \in Nat
        <5>1. Nth(Push, i) \notin unsubmitted
          BY <3>4, LoopOps DEF EventInv, CallsMade
        <5>2. SentWords \in Nat
          BY <1>1, SentCount, ProgramFacts DEF SentWords
        <5> QED BY <5>1, <5>2 DEF EventInv, CallsMade
      <4>3. j < SentWords
        BY <1>1, <3>6, <4>2, LoopSizes
      <4>4. completed[Nth(Push, j)]
        BY <4>1, <4>3 DEF EventInv, SenderRuns
      <4> HIDE DEF j
      <4>5. PICK q \in Readies : Holds(ready[q], j)
        BY <4>1, <4>4 DEF EventInv, WordsLinedUp
      <4>6. CASE q = 1
        <5>1. i = j
          BY <1>2, <1>5, <3>4, <4>5, <4>6
        <5> QED BY <4>1, <5>1, LoopSizes
      <4>7. CASE q # 1
        <5>1. 1 < q
          BY <1>1, <4>7 DEF Readies
        <5>2. i < j
          BY <1>2, <1>3, <3>4, <4>1, <4>5, <5>1 DEF EventInv, WordsLinedUp
        <5> QED BY <4>1, <5>2, LoopSizes
      <4> QED BY <4>6, <4>7
    <3>7. i = Len(printed) + 1
      BY <1>1, <3>5, <3>6, LoopSizes
    <3> QED BY <2>3, <3>3, <3>4, <3>7
  <2>5. CASE closed[LoopChan] /\ ToldNth(r, n)
    <3>1. Got(r) = <<ChannelClosed(Nth(r, n))>>
      BY <2>3, <2>5 DEF ToldNth
    <3>2. Got(r) # <<>> /\ Got(r)[1].ec = "closed"
      BY <3>1 DEF ChannelClosed
    <3> QED BY <2>3, <2>5, <3>2
  <2> QED BY <2>1, <2>2, <2>4, <2>5 DEF EventInv, ReceiversRun
<1> QED BY <1>2, <1>3, <1>4, <1>5, <1>6

\* A receiver is resumed, and receives again: the first of those in the event
\* loop becomes the last of those in the channel.
LEMMA LoopReceiveStep ==
  ASSUME TypeOK, CallsInv, EventInv, NEW r \in Receivers, Receive(r)
  PROVE  EventInv' /\ Nth(r, step[r] + 1) \in Consumer
<1> DEFINE S == program.receivers \cup {Push}
<1>1. PICK n \in Nat, m \in Nat : n = step[r] /\ m = n + 1
  BY CurrentReceive
<1> DEFINE o == Nth(r, m)
<1>2. /\ Resume(r) /\ Prints(r) /\ Calls(r) /\ SubmitConsume(o)
      /\ Got(r) # <<>> => Got(r)[1].ec = "ok"
      /\ UNCHANGED <<program, timer>>
  BY <1>1 DEF Receive, Resume
<1>3. /\ 1 \in Readies /\ ready[1] = r /\ ~Waits(r) /\ r \in program.receivers
      /\ \A i, j : Holds(r, i) /\ Holds(r, j) => i = j
      /\ n > 0 => /\ Got(r) = posted[Nth(r, n)] /\ Got(r) # <<>> /\ Got(r)[1].ec = "ok"
                  /\ \E i \in 1 .. MaxWords :
                       /\ Holds(r, i) /\ Got(r)[1].val = Nth(Push, i)
                       /\ n <= i /\ i = Len(printed) + 1
  BY <1>1, <1>2, ResumedReceiver
<1>4. m \in 1 .. MaxWords + 1 /\ r # Push /\ r \in Coroutine
  <2>1. m \in 1 .. MaxWords + 1
    BY <1>1, <1>3, LoopSizes
  <2> QED BY <2>1, LoopOps DEF Coroutine
<1>5. o \in Consumer /\ o \in Call /\ o \in LoopCall /\ CallOf[o] = o /\ ChanOf[o] = LoopChan
      /\ LoopChan \in Chan
  BY <1>4, LoopOps, EventLoopAssumption
<1>6. /\ UNCHANGED <<closed, completed, posted>>
      /\ unsubmitted' = unsubmitted \ {o} /\ o \in unsubmitted
      /\ consumers'[LoopChan] = Append(consumers[LoopChan], o)
  BY <1>2, <1>5 DEF SubmitConsume, Submit, PushConsumer, callVars, TypeOK
<1>7. LoopTypes /\ ready \in Seq(S) /\ IsInjective(ready) /\ Len(printed) \in Nat
      /\ consumers[LoopChan] \in Seq(Consumer)
  BY <1>5 DEF EventInv, LoopTypes, TypeOK
<1>8. step'[r] = m /\ \A s \in Coroutine \ {r} : step'[s] = step[s]
  BY <1>1, <1>2, <1>4, <1>7 DEF Calls, LoopTypes
<1> HIDE DEF S
<1>9. /\ ready' \in Seq(S) /\ IsInjective(ready') /\ Range(ready') = Range(ready) \ {r}
      /\ \A q \in Readies' : q \in Nat /\ q + 1 \in Readies /\ 1 < q + 1
                             /\ ready'[q] = ready[q + 1] /\ ready[q + 1] # r
      /\ \A q \in Readies : ready[q] # r => q - 1 \in Readies'
  BY ONLY <1>2, <1>7, ReadyShrinks
<1>10. PICK e \in Nat :
         /\ Line' = Line \cup {e} /\ e \notin Line /\ InLine(e)' = r
         /\ consumers'[LoopChan][e] = o
         /\ \A q \in Line : /\ q \in Nat /\ q < e /\ InLine(q)' = InLine(q)
                            /\ consumers'[LoopChan][q] = consumers[LoopChan][q]
  <2>1. PICK len \in Nat, e \in Nat : len = Len(consumers[LoopChan]) /\ e = len + 1
    BY <1>7
  <2>2. Line = 1 .. len /\ Line' = 1 .. e
    BY <1>6, <1>7, <2>1 DEF Line
  <2>3. consumers'[LoopChan][e] = o
    BY <1>6, <1>7, <2>1
  <2>4. \A q \in 1 .. len : consumers'[LoopChan][q] = consumers[LoopChan][q]
    BY <1>6, <1>7, <2>1
  <2>5. InLine(e)' = r /\ \A q \in Line : InLine(q)' = InLine(q)
    BY <2>2, <2>3, <2>4, NthNames DEF InLine
  <2>6. Line' = Line \cup {e} /\ e \notin Line /\ \A q \in Line : q \in Nat /\ q < e
    BY <2>1, <2>2
  <2> QED BY <2>2, <2>3, <2>4, <2>5, <2>6
<1>11. /\ \A q \in Readies : ready[q] \in Receivers /\ ready[q] \in program.receivers
       /\ \A q \in Line : InLine(q) \in Receivers /\ InLine(q) \in program.receivers
                          /\ InLine(q) # r
  BY <1>3, <1>7, ProgramFacts DEF Readies, EventInv, ReceiversRun, S
<1>12. \A s \in Receivers \ {r} :
         /\ Gained(s)' = Gained(s) /\ (Waits(s)' <=> Waits(s))
         /\ \A j : Holds(s, j)' <=> Holds(s, j)
  <2> SUFFICES ASSUME NEW s \in Receivers \ {r}
               PROVE  /\ Gained(s)' = Gained(s) /\ (Waits(s)' <=> Waits(s))
                      /\ \A j : Holds(s, j)' <=> Holds(s, j)
    OBVIOUS
  <2>1. step'[s] = step[s]
    BY <1>8 DEF Coroutine
  <2> QED BY <1>6, <2>1, StandsStill
<1>13. ~completed[o] /\ posted[o] = <<>>
  <2>1. ~completed[o]
    BY <1>5, <1>6 DEF EventInv, CallsMade
  <2> QED BY <1>5, <2>1, NotYetPosted DEF CallsInv
<1>14. n > 0 => GoodNth(r, n)
  BY <1>3 DEF GoodNth
<1>15. Gained(r)' = Gained(r) /\ Waits(r)' /\ \A j : ~Holds(r, j)'
  <2>1. ~GoodNth(r, m)' /\ \A j : ~GotNth(r, m, j)'
    <3>1. ASSUME NEW j, GotNth(r, m, j)' PROVE FALSE
      <4>1. posted'[o] = <<Ok(o, Nth(Push, j))>>
        BY <3>1 DEF GotNth
      <4> HIDE DEF o
      <4>2. Len(posted'[o]) = 1
        BY <4>1
      <4>3. Len(posted'[o]) = 0
        BY <1>6, <1>13
      <4> QED BY <4>2, <4>3
    <3>2. posted'[o] = <<>>
      BY <1>6, <1>13
    <3> QED BY <3>1, <3>2 DEF GoodNth
  <2>2. Gained(r)' = m - 1 /\ Gained(r) = n
    BY <1>1, <1>8, <1>14, <2>1 DEF Gained
  <2>3. step'[r] = m /\ m > 0 /\ ~completed'[o]
    BY <1>1, <1>6, <1>8, <1>13
  <2>4. Waits(r)'
    BY <2>3 DEF Waits
  <2>5. \A j : ~Holds(r, j)'
    BY <2>1, <2>3 DEF Holds
  <2> QED BY <1>1, <2>2, <2>4, <2>5
<1>16. Len(printed') \in Nat /\ printed' \in Seq(LoopProducer)
       /\ (\A i \in DOMAIN printed' : printed'[i] = Nth(Push, i))
       /\ \A j \in 1 .. MaxWords : j <= Len(printed') <=> j <= Len(printed) \/ Holds(r, j)
  <2>1. printed \in Seq(LoopProducer) /\ \A i \in 1 .. Len(printed) : printed[i] = Nth(Push, i)
    BY <1>7 DEF EventInv, LoopTypes, WordsLinedUp
  <2>2. CASE n = 0
    <3>1. printed' = printed
      BY <1>1, <1>2, <2>2 DEF Prints, Got
    <3>2. \A j : ~Holds(r, j)
      BY <1>1, <2>2 DEF Holds
    <3> QED BY <1>7, <2>1, <3>1, <3>2
  <2>3. CASE n > 0
    <3>1. PICK i \in 1 .. MaxWords :
            Holds(r, i) /\ Got(r)[1].val = Nth(Push, i) /\ i = Len(printed) + 1
      BY <1>3, <2>3
    <3>2. printed' = Append(printed, Nth(Push, i)) /\ Nth(Push, i) \in LoopProducer
      BY <1>2, <1>3, <2>3, <3>1, LoopOps DEF Prints
    <3>3. printed' \in Seq(LoopProducer) /\ Len(printed') = i
      BY <1>7, <2>1, <3>1, <3>2
    <3>4. \A j \in 1 .. i : printed'[j] = Nth(Push, j)
      BY <1>7, <2>1, <3>1, <3>2
    <3>5. \A j \in 1 .. MaxWords : Holds(r, j) <=> j = i
      BY <1>3, <3>1
    <3>6. \A j \in 1 .. MaxWords : j <= Len(printed') <=> j <= Len(printed) \/ Holds(r, j)
      BY <1>7, <3>1, <3>3, <3>5, LoopSizes
    <3> QED BY <3>1, <3>3, <3>4, <3>6
  <2> QED BY <2>2, <2>3
<1> HIDE DEF o
<1>17. SentWords' = SentWords /\ step'[Push] = step[Push]
  BY <1>2, <1>4, <1>8 DEF SentWords, Coroutine
<1>18. LoopTypes'
  <2>1. step' \in [Coroutine -> Nat]
    BY <1>2, <1>8, <1>7 DEF Calls, LoopTypes
  <2> QED BY <1>2, <1>7, <1>9, <1>16, <2>1 DEF LoopTypes, S
<1>19. CallsMade'
  <2>1. ASSUME NEW x \in IoOp \ unsubmitted'
        PROVE  x \in LoopCall
    BY <1>5, <1>6 DEF EventInv, CallsMade
  <2>2. ASSUME NEW s \in Receivers, NEW k \in 1 .. MaxWords + 1
        PROVE  Nth(s, k) \notin unsubmitted' <=> k <= step'[s]
    <3>1. Nth(s, k) \notin unsubmitted <=> k <= step[s]
      BY DEF EventInv, CallsMade
    <3>2. Nth(s, k) = o <=> s = r /\ k = m
      BY NthNames DEF o
    <3>3. CASE s = r
      <4>1. k <= m <=> k <= n \/ k = m
        BY <1>1, LoopSizes
      <4> QED BY <1>1, <1>6, <1>8, <3>1, <3>2, <3>3, <4>1
    <3>4. CASE s # r
      BY <1>6, <1>8, <3>1, <3>2, <3>4 DEF Coroutine
    <3> QED BY <3>3, <3>4
  <2>3. ASSUME NEW i \in 1 .. MaxWords
        PROVE  Nth(Push, i) \notin unsubmitted' <=> i <= SentWords'
    <3>1. Nth(Push, i) # o
      BY <1>4, NthNames DEF o
    <3> QED BY <1>6, <1>17, <3>1 DEF EventInv, CallsMade
  <2>4. \A k \in LoopCall : completed'[k] => k \notin unsubmitted'
    BY <1>6 DEF EventInv, CallsMade
  <2> QED BY <2>1, <2>2, <2>3, <2>4 DEF CallsMade
<1>20. SenderRuns'
  BY <1>2, <1>4, <1>6, <1>9, <1>17 DEF EventInv, SenderRuns
<1>21. ReceiversRun'
  <2>1. ASSUME NEW s \in Receivers
        PROVE  step'[s] <= MaxWords + 1
    BY <1>4, <1>8, CurrentReceive DEF Coroutine
  <2>2. ASSUME NEW s \in Receivers, NEW k \in 1 .. MaxWords + 1, k < step'[s]
        PROVE  GoodNth(s, k)'
    <3>1. GoodNth(s, k)
      <4>1. CASE s = r
        <5>1. k = n \/ k < n
          BY <1>1, <1>8, <2>2, <4>1
        <5>2. k = n => n > 0
          OBVIOUS
        <5> QED BY <1>1, <1>14, <4>1, <5>1, <5>2 DEF EventInv, ReceiversRun
      <4>2. CASE s # r
        BY <1>8, <2>2, <4>2 DEF EventInv, ReceiversRun, Coroutine
      <4> QED BY <4>1, <4>2
    <3> QED BY <1>6, <3>1 DEF GoodNth
  <2>3. ASSUME NEW s \in Receivers, NEW k \in 1 .. MaxWords + 1, completed'[Nth(s, k)]
        PROVE  \/ \E j \in 1 .. MaxWords : GotNth(s, k, j)'
               \/ closed'[LoopChan] /\ ToldNth(s, k)'
    BY <1>6, <2>3 DEF EventInv, ReceiversRun, GotNth, ToldNth
  <2>4. ASSUME NEW s \in Receivers, NEW k \in 1 .. MaxWords + 1, NEW j \in 1 .. MaxWords,
               GotNth(s, k, j)'
        PROVE  completed'[Nth(Push, j)] /\ k <= j
    <3>1. GotNth(s, k, j)
      BY <1>6, <2>4 DEF GotNth
    <3> QED BY <1>6, <3>1 DEF EventInv, ReceiversRun
  <2>5. ASSUME NEW q \in Readies'
        PROVE  ~Waits(ready[q])'
    <3>1. q + 1 \in Readies /\ ready'[q] = ready[q + 1] /\ ready[q + 1] # r
      BY <1>9
    <3>2. PICK u \in Receivers \ {r} : u = ready[q + 1] /\ u = ready'[q]
      BY <1>11, <3>1
    <3>3. ~Waits(u)
      BY <3>1, <3>2 DEF EventInv, ReceiversRun
    <3> QED BY <1>12, <3>2, <3>3
  <2>6. ASSUME NEW q \in Line'
        PROVE  /\ InLine(q)' \in program.receivers /\ Waits(InLine(q))'
               /\ consumers'[LoopChan][q] = Nth(InLine(q)', step'[InLine(q)'])
    <3>1. CASE q = e
      BY <1>3, <1>8, <1>10, <1>15, <3>1 DEF o
    <3>2. CASE q \in Line
      <4>1. PICK u \in Receivers \ {r} : u = InLine(q)
        BY <1>11, <3>2
      <4>2. u \in program.receivers /\ Waits(u) /\ consumers[LoopChan][q] = Nth(u, step[u])
        BY <3>2, <4>1 DEF EventInv, ReceiversRun
      <4>3. step'[u] = step[u] /\ Waits(u)'
        BY <1>8, <1>12, <4>2 DEF Coroutine
      <4> QED BY <1>10, <3>2, <4>1, <4>2, <4>3
    <3> QED BY <1>10, <3>1, <3>2
  <2>7. program' = program
    BY <1>2
  <2> QED BY <2>1, <2>2, <2>3, <2>4, <2>5, <2>6, <2>7 DEF ReceiversRun
<1>22. \A q \in Readies' :
         /\ q \in Nat /\ q + 1 \in Readies /\ 1 < q + 1
         /\ Gained(ready[q])' = Gained(ready[q + 1])
         /\ \A j : Holds(ready[q], j)' <=> Holds(ready[q + 1], j)
  <2> SUFFICES ASSUME NEW q \in Readies'
               PROVE  /\ q \in Nat /\ q + 1 \in Readies /\ 1 < q + 1
                      /\ Gained(ready[q])' = Gained(ready[q + 1])
                      /\ \A j : Holds(ready[q], j)' <=> Holds(ready[q + 1], j)
    OBVIOUS
  <2>1. PICK u \in Receivers \ {r} : u = ready[q + 1] /\ u = ready'[q]
    BY <1>9, <1>11
  <2> QED BY <1>9, <1>12, <2>1
<1>23. WordsLinedUp'
  <2>1. ASSUME NEW j \in 1 .. MaxWords
        PROVE  completed'[Nth(Push, j)] <=>
                 j <= Len(printed') \/ \E q \in Readies' : Holds(ready[q], j)'
    <3>1. completed'[Nth(Push, j)] <=>
            j <= Len(printed) \/ \E q \in Readies : Holds(ready[q], j)
      BY <1>6 DEF EventInv, WordsLinedUp
    <3>2. ASSUME NEW q \in Readies, Holds(ready[q], j)
          PROVE  Holds(r, j) \/ \E x \in Readies' : Holds(ready[x], j)'
      <4>1. CASE ready[q] = r
        BY <3>2, <4>1
      <4>2. CASE ready[q] # r
        <5>1. q - 1 \in Readies' /\ (q - 1) + 1 = q
          BY <1>7, <1>9, <4>2 DEF Readies
        <5> QED BY <1>22, <3>2, <5>1
      <4> QED BY <4>1, <4>2
    <3>3. ASSUME NEW q \in Readies', Holds(ready[q], j)'
          PROVE  \E x \in Readies : Holds(ready[x], j)
      BY <1>22, <3>3
    <3>4. Holds(r, j) => \E x \in Readies : Holds(ready[x], j)
      BY <1>3
    <3>5. j <= Len(printed') <=> j <= Len(printed) \/ Holds(r, j)
      BY <1>16
    <3> QED BY <3>1, <3>2, <3>3, <3>4, <3>5
  <2>2. ASSUME NEW q \in Readies', NEW j \in 1 .. MaxWords, Holds(ready[q], j)'
        PROVE  Len(printed') < j
    <3>1. q + 1 \in Readies /\ 1 < q + 1 /\ Holds(ready[q + 1], j)
      BY <1>22, <2>2
    <3>2. Len(printed) < j
      BY <3>1 DEF EventInv, WordsLinedUp
    <3>3. ~Holds(r, j)
      <4>1. ASSUME Holds(r, j) PROVE j < j
        BY <1>3, <3>1, <4>1 DEF EventInv, WordsLinedUp
      <4> QED BY <4>1, LoopSizes
    <3>4. ~(j <= Len(printed'))
      BY <1>7, <1>16, <3>2, <3>3, LoopSizes
    <3> QED BY <1>16, <3>4, LoopSizes
  <2>3. ASSUME NEW x \in Readies', NEW y \in Readies', x < y,
               NEW a \in 1 .. MaxWords, NEW b \in 1 .. MaxWords,
               Holds(ready[x], a)', Holds(ready[y], b)'
        PROVE  a < b
    <3>1. x + 1 \in Readies /\ y + 1 \in Readies
          /\ Holds(ready[x + 1], a) /\ Holds(ready[y + 1], b)
      BY <1>22, <2>3
    <3>2. x + 1 < y + 1
      BY <1>22, <2>3
    <3> QED BY <3>1, <3>2 DEF EventInv, WordsLinedUp
  <2> QED BY <1>16, <2>1, <2>2, <2>3 DEF WordsLinedUp
<1>24. TurnsTaken'
  <2>1. \A s \in Receivers : Gained(s)' = Gained(s)
    BY <1>12, <1>15
  <2>2. program' = program /\ \A s \in program.receivers : s \in Receivers
    BY <1>2, <1>7, ProgramFacts
  <2>3. ASSUME NEW a \in program.receivers', NEW b \in program.receivers'
        PROVE  Gained(a)' <= Gained(b)' + 1
    BY <2>1, <2>2 DEF EventInv, TurnsTaken
  <2>4. ASSUME ~closed'[LoopChan]
        PROVE  LineOrdered'
    <3>1. LineOrdered
      BY <1>6, <2>4 DEF EventInv, TurnsTaken
    <3>2. ASSUME NEW s \in program.receivers'
          PROVE  (\E q \in Readies' : ready'[q] = s) \/ \E q \in Line' : InLine(q)' = s
      <4>1. CASE s = r
        BY <1>10, <4>1
      <4>2. CASE s # r /\ \E q \in Readies : ready[q] = s
        <5>1. PICK q \in Readies : ready[q] = s
          BY <4>2
        <5>2. q - 1 \in Readies' /\ (q - 1) + 1 = q
          BY <1>7, <1>9, <4>2, <5>1 DEF Readies
        <5> QED BY <1>9, <5>1, <5>2
      <4>3. CASE \E q \in Line : InLine(q) = s
        BY <1>10, <4>3
      <4> QED BY <2>2, <3>1, <4>1, <4>2, <4>3 DEF LineOrdered
    <3>3. \A q \in Line : InLine(q)' = InLine(q) /\ Gained(InLine(q))' = Gained(InLine(q))
      <4> SUFFICES ASSUME NEW q \in Line
                   PROVE  InLine(q)' = InLine(q) /\ Gained(InLine(q))' = Gained(InLine(q))
        OBVIOUS
      <4>1. PICK u \in Receivers : u = InLine(q) /\ u = InLine(q)'
        BY <1>10, <1>11
      <4> QED BY <2>1, <4>1
    <3>4. Gained(InLine(e))' = Gained(r) /\ Gained(r) = Gained(ready[1])
      BY <1>3, <1>10, <1>15
    <3>5. ASSUME NEW x \in Line', NEW y \in Line', x < y
          PROVE  Gained(InLine(x))' <= Gained(InLine(y))'
      <4>1. x \in Line
        BY <1>10, <3>5
      <4>2. CASE y = e
        BY <1>3, <3>1, <3>3, <3>4, <4>1, <4>2 DEF LineOrdered
      <4>3. CASE y \in Line
        BY <3>1, <3>3, <3>5, <4>1, <4>3 DEF LineOrdered
      <4> QED BY <1>10, <4>2, <4>3
    <3>6. ASSUME NEW x \in Line', NEW y \in Readies'
          PROVE  Gained(InLine(x))' <= Gained(ready[y])'
      <4>1. CASE x = e
        BY <1>3, <1>22, <3>1, <3>4, <4>1 DEF LineOrdered
      <4>2. CASE x \in Line
        BY <1>22, <3>1, <3>3, <4>2 DEF LineOrdered
      <4> QED BY <1>10, <4>1, <4>2
    <3>7. ASSUME NEW x \in Readies', NEW y \in Readies', x < y
          PROVE  Gained(ready[x])' <= Gained(ready[y])'
      <4>1. x + 1 < y + 1
        BY <1>22, <3>7
      <4> QED BY <1>22, <3>1, <4>1 DEF LineOrdered
    <3> QED BY <3>2, <3>5, <3>6, <3>7 DEF LineOrdered
  <2> QED BY <2>3, <2>4 DEF TurnsTaken
<1>25. Nth(r, step[r] + 1) = o
  BY <1>1 DEF o
<1> QED BY <1>5, <1>18, <1>19, <1>20, <1>21, <1>23, <1>24, <1>25 DEF EventInv

\* A handler that runs or is posted, other than a receive, moves the receivers
\* in the event loop by d places and leaves all else of them alone; a receiver
\* x that leaves has no word, and does so only when the channel is closed.
OthersMove(d, x) ==
  /\ \/ x = Push
     \/ closed[LoopChan] /\ \A j \in 1 .. MaxWords : ~Holds(x, j)
  /\ \A q \in Readies' : q \in Nat /\ q + d \in Readies /\ ready'[q] = ready[q + d]
  /\ \A q \in Readies : ready[q] # x => q - d \in Readies' /\ (q - d) + d = q
  /\ UNCHANGED <<program, completed, posted, consumers, printed>>
  /\ \A s \in Receivers : step'[s] = step[s]
  /\ closed[LoopChan] => closed'[LoopChan]

LEMMA OthersStay ==
  ASSUME EventInv, NEW d \in Nat, NEW x, OthersMove(d, x)
  PROVE  ReceiversRun' /\ WordsLinedUp' /\ TurnsTaken'
<1> /\ \/ x = Push
       \/ closed[LoopChan] /\ \A j \in 1 .. MaxWords : ~Holds(x, j)
    /\ UNCHANGED <<program, completed, posted, consumers, printed>>
    /\ \A s \in Receivers : step'[s] = step[s]
    /\ closed[LoopChan] => closed'[LoopChan]
  BY DEF OthersMove
<1> /\ \A q \in Readies' : q \in Nat /\ q + d \in Readies /\ ready'[q] = ready[q + d]
    /\ \A q \in Readies : ready[q] # x => q - d \in Readies' /\ (q - d) + d = q
  BY DEF OthersMove
<1>1. LoopTypes /\ \A s \in program.receivers : s \in Receivers
  BY ProgramFacts DEF EventInv
<1>2. \A s \in Receivers : /\ Gained(s)' = Gained(s) /\ (Waits(s)' <=> Waits(s))
                           /\ \A j : Holds(s, j)' <=> Holds(s, j)
  BY StandsStill
<1>3. /\ \A q \in Readies : ready[q] \in Receivers /\ ready[q] # Push
      /\ \A q \in Line : InLine(q) \in Receivers
  BY <1>1, ProgramFacts DEF Readies, EventInv, ReceiversRun, LoopTypes
<1>4. \A q \in Readies' :
        /\ Gained(ready[q])' = Gained(ready[q + d])
        /\ (Waits(ready[q])' <=> Waits(ready[q + d]))
        /\ \A j : Holds(ready[q], j)' <=> Holds(ready[q + d], j)
  <2> SUFFICES ASSUME NEW q \in Readies'
               PROVE  /\ Gained(ready[q])' = Gained(ready[q + d])
                      /\ (Waits(ready[q])' <=> Waits(ready[q + d]))
                      /\ \A j : Holds(ready[q], j)' <=> Holds(ready[q + d], j)
    OBVIOUS
  <2>1. PICK u \in Receivers : u = ready[q + d] /\ u = ready'[q]
    BY <1>3
  <2> QED BY <1>2, <2>1
<1>5. Line' = Line /\ \A q \in Line :
        /\ InLine(q)' = InLine(q) /\ Gained(InLine(q))' = Gained(InLine(q))
        /\ (Waits(InLine(q))' <=> Waits(InLine(q)))
  <2>1. Line' = Line /\ \A q : InLine(q)' = InLine(q)
    BY DEF Line, InLine
  <2> SUFFICES ASSUME NEW q \in Line
               PROVE  /\ Gained(InLine(q))' = Gained(InLine(q))
                      /\ (Waits(InLine(q))' <=> Waits(InLine(q)))
    BY <2>1
  <2>2. PICK u \in Receivers : u = InLine(q) /\ u = InLine(q)'
    BY <1>3, <2>1
  <2> QED BY <1>2, <2>2
<1>6. ReceiversRun'
  <2>1. \A s \in Receivers : step'[s] <= MaxWords + 1
    BY DEF EventInv, ReceiversRun
  <2>2. \A s \in Receivers : \A n \in 1 .. MaxWords + 1 : n < step'[s] => GoodNth(s, n)'
    BY DEF EventInv, ReceiversRun, GoodNth
  <2>3. \A s \in Receivers : \A n \in 1 .. MaxWords + 1 : completed'[Nth(s, n)] =>
          \/ \E i \in 1 .. MaxWords : GotNth(s, n, i)'
          \/ closed'[LoopChan] /\ ToldNth(s, n)'
    BY DEF EventInv, ReceiversRun, GotNth, ToldNth
  <2>4. \A s \in Receivers : \A n \in 1 .. MaxWords + 1, i \in 1 .. MaxWords :
          GotNth(s, n, i)' => completed'[Nth(Push, i)] /\ n <= i
    BY DEF EventInv, ReceiversRun, GotNth
  <2>5. \A q \in Readies' : ~Waits(ready[q])'
    BY <1>4 DEF EventInv, ReceiversRun
  <2>6. \A q \in Line' : /\ InLine(q)' \in program.receivers /\ Waits(InLine(q))'
                         /\ consumers'[LoopChan][q] = Nth(InLine(q)', step'[InLine(q)'])
    BY <1>3, <1>5 DEF EventInv, ReceiversRun
  <2> QED BY <2>1, <2>2, <2>3, <2>4, <2>5, <2>6 DEF ReceiversRun
<1>7. WordsLinedUp'
  <2>1. ASSUME NEW j \in 1 .. MaxWords
        PROVE  completed'[Nth(Push, j)] <=>
                 j <= Len(printed') \/ \E q \in Readies' : Holds(ready[q], j)'
    <3>1. completed[Nth(Push, j)] <=>
            j <= Len(printed) \/ \E q \in Readies : Holds(ready[q], j)
      BY DEF EventInv, WordsLinedUp
    <3>2. ASSUME NEW q \in Readies, Holds(ready[q], j)
          PROVE  \E y \in Readies' : Holds(ready[y], j)'
      <4>1. ready[q] # x
        BY <1>3, <3>2
      <4>2. q - d \in Readies' /\ (q - d) + d = q
        BY <4>1
      <4> QED BY <1>4, <3>2, <4>2
    <3>3. \A q \in Readies' : Holds(ready[q], j)' => \E y \in Readies : Holds(ready[y], j)
      BY <1>4
    <3> QED BY <3>1, <3>2, <3>3
  <2>2. \A q \in Readies', j \in 1 .. MaxWords : Holds(ready[q], j)' => Len(printed') < j
    BY <1>4 DEF EventInv, WordsLinedUp
  <2>3. ASSUME NEW y \in Readies', NEW z \in Readies', y < z,
               NEW a \in 1 .. MaxWords, NEW b \in 1 .. MaxWords,
               Holds(ready[y], a)', Holds(ready[z], b)'
        PROVE  a < b
    <3>1. y + d \in Readies /\ z + d \in Readies
          /\ Holds(ready[y + d], a) /\ Holds(ready[z + d], b)
      BY <1>4, <2>3
    <3>2. y + d < z + d
      BY <2>3
    <3> QED BY <3>1, <3>2 DEF EventInv, WordsLinedUp
  <2>4. \A i \in DOMAIN printed' : printed'[i] = Nth(Push, i)
    BY DEF EventInv, WordsLinedUp
  <2> QED BY <2>1, <2>2, <2>3, <2>4 DEF WordsLinedUp
<1>8. TurnsTaken'
  <2>1. ASSUME NEW a \in program.receivers', NEW b \in program.receivers'
        PROVE  Gained(a)' <= Gained(b)' + 1
    BY <1>1, <1>2 DEF EventInv, TurnsTaken
  <2>2. ASSUME ~closed'[LoopChan]
        PROVE  LineOrdered'
    <3>1. LineOrdered /\ x = Push
      BY <2>2 DEF EventInv, TurnsTaken
    <3>2. ASSUME NEW s \in program.receivers'
          PROVE  (\E q \in Readies' : ready'[q] = s) \/ \E q \in Line' : InLine(q)' = s
      <4>1. CASE \E q \in Readies : ready[q] = s
        <5>1. PICK q \in Readies : ready[q] = s
          BY <4>1
        <5>2. q - d \in Readies' /\ (q - d) + d = q
          BY <1>3, <3>1
        <5> QED BY <5>1, <5>2
      <4>2. CASE \E q \in Line : InLine(q) = s
        BY <1>5, <4>2
      <4> QED BY <3>1, <4>1, <4>2 DEF LineOrdered
    <3>3. \A y, z \in Line' : y < z => Gained(InLine(y))' <= Gained(InLine(z))'
      BY <1>5, <3>1 DEF LineOrdered
    <3>4. \A y \in Line', z \in Readies' : Gained(InLine(y))' <= Gained(ready[z])'
      BY <1>4, <1>5, <3>1 DEF LineOrdered
    <3>5. ASSUME NEW y \in Readies', NEW z \in Readies', y < z
          PROVE  Gained(ready[y])' <= Gained(ready[z])'
      <4>1. y + d < z + d
        BY <3>5
      <4> QED BY <1>4, <3>1, <4>1 DEF LineOrdered
    <3> QED BY <3>2, <3>3, <3>4, <3>5 DEF LineOrdered
  <2> QED BY <2>1, <2>2 DEF TurnsTaken
<1> QED BY <1>6, <1>7, <1>8

\* A receiver leaves.
LEMMA LoopDepartStep ==
  ASSUME TypeOK, CallsInv, EventInv, NEW r \in Receivers, Depart(r)
  PROVE  EventInv'
<1>1. /\ Resume(r) /\ Got(r) # <<>> /\ Got(r)[1].ec # "ok"
      /\ UNCHANGED <<closed, consumers, completed, posted, unsubmitted>>
      /\ UNCHANGED <<program, step, timer, printed>>
  BY DEF Depart, Resume, vars
<1>2. step[r] > 0 /\ closed[LoopChan] /\ Got(r) = posted[Nth(r, step[r])]
  <2>1. step[r] # 0 /\ step[r] \in Nat
    BY <1>1, CurrentReceive DEF Got
  <2>2. step[r] > 0
    BY <2>1
  <2> QED BY <1>1, <2>2, ResumedReceiver
<1>3. ASSUME NEW j \in 1 .. MaxWords, Holds(r, j) PROVE FALSE
  <2>1. Got(r) = <<Ok(Nth(r, step[r]), Nth(Push, j))>>
    BY <1>2, <1>3 DEF Holds, GotNth
  <2>2. Got(r)[1].ec = "ok"
    BY <2>1 DEF Ok
  <2> QED BY <1>1, <2>2
<1> DEFINE S == program.receivers \cup {Push}
<1>4. LoopTypes /\ ready \in Seq(S) /\ IsInjective(ready)
  BY DEF EventInv, LoopTypes
<1> HIDE DEF S
<1>5. /\ ready' \in Seq(S) /\ IsInjective(ready') /\ Range(ready') = Range(ready) \ {r}
      /\ \A q \in Readies' : q \in Nat /\ q + 1 \in Readies /\ ready'[q] = ready[q + 1]
      /\ \A q \in Readies : ready[q] # r => q - 1 \in Readies'
  BY ONLY <1>1, <1>4, ReadyShrinks
<1>6. \A q \in Readies : (q - 1) + 1 = q
  BY <1>4 DEF Readies
<1>7. ReceiversRun' /\ WordsLinedUp' /\ TurnsTaken'
  <2>1. /\ UNCHANGED <<program, completed, posted, consumers, printed>>
        /\ \A s \in Receivers : step'[s] = step[s]
        /\ closed[LoopChan] => closed'[LoopChan]
    BY <1>1
  <2>2. closed[LoopChan] /\ \A j \in 1 .. MaxWords : ~Holds(r, j)
    BY <1>2, <1>3
  <2>3. \A q \in Readies' : q \in Nat /\ q + 1 \in Readies /\ ready'[q] = ready[q + 1]
    BY <1>5
  <2>4. \A q \in Readies : ready[q] # r => q - 1 \in Readies' /\ (q - 1) + 1 = q
    BY <1>5, <1>6
  <2>5. OthersMove(1, r)
    BY <2>1, <2>2, <2>3, <2>4 DEF OthersMove
  <2> QED BY <2>5, OthersStay
<1>8. LoopTypes'
  BY <1>1, <1>4, <1>5 DEF LoopTypes, S
<1>9. SentWords' = SentWords
  BY <1>1 DEF SentWords
<1>10. CallsMade'
  BY <1>1, <1>9 DEF EventInv, CallsMade
<1>11. SenderRuns'
  BY <1>1, <1>5, <1>9 DEF EventInv, SenderRuns
<1> QED BY <1>7, <1>8, <1>10, <1>11 DEF EventInv

\* The timer of the sender expires.
LEMMA LoopTimerStep ==
  ASSUME TypeOK, CallsInv, EventInv, TimerExpires
  PROVE  EventInv'
<1>1. /\ timer /\ timer' = FALSE /\ ready' = Append(ready, Push)
      /\ UNCHANGED <<closed, consumers, completed, posted, unsubmitted>>
      /\ UNCHANGED <<program, step, printed>>
  BY DEF TimerExpires, vars
<1> DEFINE S == program.receivers \cup {Push}
<1>2. LoopTypes /\ ready \in Seq(S) /\ IsInjective(ready) /\ Push \in S
  BY DEF EventInv, LoopTypes
<1> HIDE DEF S
<1>3. Push \notin Range(ready) /\ ~closed[LoopChan]
  BY <1>1 DEF EventInv, SenderRuns
<1>4. ready' \in Seq(S) /\ IsInjective(ready')
  BY <1>1, <1>2, <1>3, AppendDistinct
<1>5. Readies' = Readies /\ \A q \in Readies : q \in Nat /\ ready'[q] = ready[q]
  BY <1>1, <1>2 DEF Readies
<1>6. PICK d \in Nat : \A q \in Nat : q + d = q /\ q - d = q
  <2>1. 0 \in Nat /\ \A q \in Nat : q + 0 = q /\ q - 0 = q
    OBVIOUS
  <2> QED BY <2>1
<1>7. ReceiversRun' /\ WordsLinedUp' /\ TurnsTaken'
  <2>1. \A q \in Readies' : q \in Nat /\ q + d \in Readies /\ ready'[q] = ready[q + d]
    BY <1>5, <1>6
  <2>2. \A q \in Readies : ready[q] # Push => q - d \in Readies' /\ (q - d) + d = q
    BY <1>5, <1>6
  <2>3. /\ UNCHANGED <<program, completed, posted, consumers, printed>>
        /\ \A s \in Receivers : step'[s] = step[s]
        /\ closed[LoopChan] => closed'[LoopChan]
    BY <1>1
  <2>4. OthersMove(d, Push)
    BY <2>1, <2>2, <2>3 DEF OthersMove
  <2> QED BY <2>4, OthersStay
<1>8. LoopTypes'
  BY <1>1, <1>2, <1>4 DEF LoopTypes, S
<1>9. SentWords' = SentWords
  BY <1>1 DEF SentWords
<1>10. CallsMade'
  BY <1>1, <1>9 DEF EventInv, CallsMade
<1>11. SenderRuns'
  BY <1>1, <1>3, <1>9 DEF EventInv, SenderRuns
<1> QED BY <1>7, <1>8, <1>10, <1>11 DEF EventInv

\* The sender is resumed, and takes the next step of its script.
LEMMA SenderResumed ==
  ASSUME EventInv, NEW s, Script(s)
  PROVE  /\ UNCHANGED <<program, printed>>
         /\ ready' \in Seq(program.receivers \cup {Push}) /\ IsInjective(ready')
         /\ Push \notin Range(ready') /\ ~timer /\ ~closed[LoopChan]
         /\ \A i \in 1 .. MaxWords : i <= SentWords => completed[Nth(Push, i)]
         /\ step' \in [Coroutine -> Nat] /\ \A r \in Receivers : step'[r] = step[r]
         /\ \A q \in Readies' : q \in Nat /\ q + 1 \in Readies /\ ready'[q] = ready[q + 1]
         /\ \A q \in Readies : ready[q] # Push => q - 1 \in Readies' /\ (q - 1) + 1 = q
         /\ SentWords \in Nat
         /\ s = "send" => /\ SentWords' = SentWords + 1 /\ Word = SentWords + 1
                          /\ SentWords + 1 \in 1 .. MaxWords
         /\ s # "send" => SentWords' = SentWords
         /\ s # "close" => step'[Push] < Len(program.script)
<1>1. /\ Resume(Push) /\ program.script[step[Push] + 1] = s /\ Calls(Push)
      /\ UNCHANGED <<program, printed>>
  BY DEF Script, Resume
<1> DEFINE S == program.receivers \cup {Push}
<1>2. LoopTypes /\ ready \in Seq(S) /\ IsInjective(ready)
  BY DEF EventInv, LoopTypes
<1> HIDE DEF S
<1>3. /\ ready' \in Seq(S) /\ IsInjective(ready')
      /\ Push \in Range(ready) /\ Range(ready') = Range(ready) \ {Push}
      /\ \A q \in Readies' : q \in Nat /\ q + 1 \in Readies /\ ready'[q] = ready[q + 1]
      /\ \A q \in Readies : ready[q] # Push => q - 1 \in Readies'
  BY ONLY <1>1, <1>2, ReadyShrinks
<1>4. \A q \in Readies : (q - 1) + 1 = q
  BY <1>2 DEF Readies
<1>5. /\ ~timer /\ ~closed[LoopChan] /\ step[Push] < Len(program.script)
      /\ \A i \in 1 .. MaxWords : i <= SentWords => completed[Nth(Push, i)]
  BY <1>3 DEF EventInv, SenderRuns
<1>6. PICK n \in Nat : n = step[Push]
  BY <1>2, ProgramFacts
<1>7. step' \in [Coroutine -> Nat] /\ step'[Push] = n + 1
      /\ \A r \in Receivers : step'[r] = step[r]
  BY <1>1, <1>2, <1>6, LoopOps DEF Calls, LoopTypes, Coroutine
<1>8. Len(program.script) \in Nat
      /\ \A i \in 1 .. Len(program.script) :
           program.script[i] = "close" <=> i = Len(program.script)
  BY <1>2, ProgramFacts
<1>9. n + 1 \in 1 .. Len(program.script) /\ program.script[n + 1] = s
  BY <1>1, <1>5, <1>6, <1>8
<1>10. s # "close" => n + 1 < Len(program.script)
  BY <1>8, <1>9
<1> DEFINE W(m) == Cardinality({i \in 1 .. m : program.script[i] = "send"})
<1>11. SentWords = W(n) /\ Word = W(n + 1)
  BY <1>6 DEF SentWords, Word
<1>12. SentWords' = W(n + 1)
  BY <1>1, <1>7 DEF SentWords
<1>13. /\ W(n) \in Nat
       /\ s = "send" => W(n + 1) = W(n) + 1
       /\ s # "send" => W(n + 1) = W(n)
  BY <1>2, <1>9, SentCount
<1>14. W(n + 1) <= MaxWords
  <2>1. PICK m \in Nat : m = n + 1 /\ m <= Len(program.script)
    BY <1>9
  <2>2. W(m) <= MaxWords
    BY <1>2, <2>1, SentCount
  <2> QED BY <2>1, <2>2
<1> HIDE DEF W
<1>15. s = "send" => SentWords + 1 \in 1 .. MaxWords
  BY <1>11, <1>13, <1>14, LoopSizes
<1> QED BY <1>1, <1>3, <1>4, <1>5, <1>7, <1>10, <1>11, <1>12, <1>13, <1>15 DEF S

LEMMA LoopSendStep ==
  ASSUME TypeOK, CallsInv, EventInv, SendWord
  PROVE  EventInv' /\ Nth(Push, Word) \in Producer
<1>1. Script("send") /\ SubmitProduce(Nth(Push, Word)) /\ UNCHANGED timer
  BY DEF SendWord
<1>2. PICK w \in 1 .. MaxWords, n \in Nat :
        w = n + 1 /\ n = SentWords /\ w = Word /\ SentWords' = w
  BY <1>1, SenderResumed
<1> DEFINE p == Nth(Push, w)
<1>3. p \in Producer /\ p \in LoopCall /\ CallOf[p] = p /\ ChanOf[p] = LoopChan
  BY LoopOps
<1>4. /\ UNCHANGED <<closed, consumers, completed, posted>>
      /\ unsubmitted' = unsubmitted \ {p}
  BY <1>1, <1>2 DEF SubmitProduce, Submit, PushProducer, callVars
<1>5. /\ UNCHANGED <<program, printed>>
      /\ ready' \in Seq(program.receivers \cup {Push}) /\ IsInjective(ready')
      /\ Push \notin Range(ready') /\ ~timer /\ ~closed[LoopChan]
      /\ \A i \in 1 .. MaxWords : i <= n => completed[Nth(Push, i)]
      /\ step' \in [Coroutine -> Nat] /\ \A r \in Receivers : step'[r] = step[r]
      /\ \A q \in Readies' : q \in Nat /\ q + 1 \in Readies /\ ready'[q] = ready[q + 1]
      /\ \A q \in Readies : ready[q] # Push => q - 1 \in Readies' /\ (q - 1) + 1 = q
      /\ step'[Push] < Len(program.script)
  BY <1>1, <1>2, SenderResumed
<1>6. ReceiversRun' /\ WordsLinedUp' /\ TurnsTaken'
  <2>1. OthersMove(1, Push)
    BY <1>4, <1>5 DEF OthersMove
  <2> QED BY <2>1, OthersStay
<1>7. LoopTypes'
  BY <1>1, <1>5 DEF EventInv, LoopTypes
<1>8. CallsMade'
  <2>1. \A o \in IoOp \ unsubmitted' : o \in LoopCall
    BY <1>3, <1>4 DEF EventInv, CallsMade
  <2>2. ASSUME NEW r \in Receivers, NEW m \in 1 .. MaxWords + 1
        PROVE  Nth(r, m) \notin unsubmitted' <=> m <= step'[r]
    <3>1. Nth(r, m) # p
      BY NthNames, LoopOps
    <3> QED BY <1>4, <1>5, <3>1 DEF EventInv, CallsMade
  <2>3. ASSUME NEW i \in 1 .. MaxWords
        PROVE  Nth(Push, i) \notin unsubmitted' <=> i <= SentWords'
    <3>1. Nth(Push, i) = p <=> i = w
      BY NthNames
    <3>2. Nth(Push, i) \notin unsubmitted <=> i <= n
      BY <1>2 DEF EventInv, CallsMade
    <3>3. i <= w <=> i <= n \/ i = w
      BY <1>2, LoopSizes
    <3> QED BY <1>2, <1>4, <3>1, <3>2, <3>3
  <2>4. \A k \in LoopCall : completed'[k] => k \notin unsubmitted'
    BY <1>4 DEF EventInv, CallsMade
  <2> QED BY <2>1, <2>2, <2>3, <2>4 DEF CallsMade
<1>9. SenderRuns'
  <2>1. \A i \in 1 .. MaxWords : i < SentWords' => completed'[Nth(Push, i)]
    BY <1>2, <1>4, <1>5, LoopSizes
  <2> QED BY <1>1, <1>4, <1>5, <2>1 DEF SenderRuns
<1> QED BY <1>2, <1>3, <1>6, <1>7, <1>8, <1>9 DEF EventInv

\* The sender sets its timer, or closes the channel and ends.
LEMMA LoopRestStep ==
  ASSUME TypeOK, CallsInv, EventInv, SetTimer \/ CloseAndEnd
  PROVE  EventInv'
<1>1. PICK s \in {"wait", "close"} :
        /\ Script(s) /\ UNCHANGED <<consumers, completed, posted, unsubmitted>>
        /\ s = "wait" => timer' = TRUE /\ closed' = closed
        /\ s = "close" => timer' = timer /\ closed'[LoopChan]
  <2>1. CASE SetTimer
    BY <2>1 DEF SetTimer, vars
  <2>2. CASE CloseAndEnd
    <3>1. Target[LoopClose] = LoopChan /\ LoopChan \in Chan
      BY EventLoopAssumption DEF LoopTarget
    <3>2. closed'[LoopChan] /\ UNCHANGED <<consumers, completed, posted, unsubmitted>>
      BY <2>2, <3>1 DEF CloseAndEnd, RunClose, callVars, TypeOK
    <3>3. Script("close") /\ timer' = timer
      BY <2>2 DEF CloseAndEnd
    <3> QED BY <3>2, <3>3
  <2> QED BY <2>1, <2>2
<1>2. /\ UNCHANGED <<program, printed>> /\ SentWords' = SentWords
      /\ ready' \in Seq(program.receivers \cup {Push}) /\ IsInjective(ready')
      /\ Push \notin Range(ready') /\ ~timer /\ ~closed[LoopChan]
      /\ \A i \in 1 .. MaxWords : i <= SentWords => completed[Nth(Push, i)]
      /\ step' \in [Coroutine -> Nat] /\ \A r \in Receivers : step'[r] = step[r]
      /\ \A q \in Readies' : q \in Nat /\ q + 1 \in Readies /\ ready'[q] = ready[q + 1]
      /\ \A q \in Readies : ready[q] # Push => q - 1 \in Readies' /\ (q - 1) + 1 = q
      /\ s = "wait" => step'[Push] < Len(program.script)
  BY <1>1, SenderResumed
<1>3. ReceiversRun' /\ WordsLinedUp' /\ TurnsTaken'
  <2>1. OthersMove(1, Push)
    BY <1>1, <1>2 DEF OthersMove
  <2> QED BY <2>1, OthersStay
<1>4. timer' \in BOOLEAN
  BY <1>1 DEF EventInv, LoopTypes
<1>5. LoopTypes'
  BY <1>2, <1>4 DEF EventInv, LoopTypes
<1>6. CallsMade'
  BY <1>1, <1>2 DEF EventInv, CallsMade
<1>7. SenderRuns'
  BY <1>1, <1>2 DEF EventInv, SenderRuns
<1> QED BY <1>3, <1>5, <1>6, <1>7 DEF EventInv

\* The thread goes through the flush of a call.
LEMMA LoopFlushStep ==
  ASSUME TypeOK, CallsInv, EventInv, SafeUse, Flush
  PROVE  EventInv'
<1>1. PICK c \in Chan : mutex[c] # NoOne /\ FlushStep(mutex[c], c)
  BY DEF Flush
<1>2. Posts /\ UNCHANGED <<program, step, timer, printed>>
  BY DEF Flush
<1>3. mutex[c] \in Thread
  BY <1>1 DEF TypeOK
<1>4. /\ UNCHANGED <<closed, unsubmitted>>
      /\ \/ UNCHANGED <<completed, posted, consumers>>
         \/ RefusesFirst
         \/ \E i \in 1 .. MaxWords : GivesFirst(i)
  BY <1>1, <1>3, LoopFlushOutcome
<1>5. CASE UNCHANGED <<completed, posted, consumers>>
  <2>1. ready \in Seq(program.receivers \cup {Push})
    BY DEF EventInv, LoopTypes
  <2>2. ready' = ready
    BY <1>2, <1>5, <2>1, PostsNone
  <2> QED BY <1>2, <1>4, <1>5, <2>2, LoopUnseenStep
<1>6. CASE RefusesFirst
  BY <1>2, <1>4, <1>6, LoopRefuseStep
<1>7. CASE \E i \in 1 .. MaxWords : GivesFirst(i)
  BY <1>2, <1>4, <1>7, LoopMatchStep
<1> QED BY <1>4, <1>5, <1>6, <1>7

LEMMA LoopIsSafe == SafeUse
BY EventLoopAssumption DEF SafeUse, PlainPolls

\* The event loop takes the steps of its channel only.
LEMMA LoopStep ==
  ASSUME TypeOK, CallsInv, EventInv, [LoopNext]_allVars
  PROVE  EventInv' /\ [Next]_vars
<1>1. CASE Flush
  <2>1. PICK c \in Chan : mutex[c] # NoOne /\ FlushStep(mutex[c], c)
    BY <1>1 DEF Flush
  <2>2. mutex[c] \in Thread
    BY <2>1 DEF TypeOK
  <2>3. Next
    BY <2>1, <2>2 DEF Next
  <2> QED BY <1>1, <2>3, LoopFlushStep, LoopIsSafe
<1>2. ASSUME NEW r \in Receivers, Receive(r)
      PROVE  EventInv' /\ [Next]_vars
  <2>1. EventInv' /\ Nth(r, step[r] + 1) \in Consumer
    BY <1>2, LoopReceiveStep
  <2>2. SubmitConsume(Nth(r, step[r] + 1))
    BY <1>2 DEF Receive
  <2> QED BY <2>1, <2>2 DEF Next
<1>3. ASSUME NEW r \in Receivers, Depart(r)
      PROVE  EventInv' /\ [Next]_vars
  BY <1>3, LoopDepartStep DEF Depart
<1>4. CASE SendWord
  <2>1. EventInv' /\ Nth(Push, Word) \in Producer
    BY <1>4, LoopSendStep
  <2>2. SubmitProduce(Nth(Push, Word))
    BY <1>4 DEF SendWord
  <2> QED BY <2>1, <2>2 DEF Next
<1>5. CASE SetTimer
  BY <1>5, LoopRestStep DEF SetTimer
<1>6. CASE CloseAndEnd
  <2>1. RunClose(LoopClose) /\ LoopClose \in Closer
    BY <1>6, EventLoopAssumption DEF CloseAndEnd
  <2> QED BY <1>6, <2>1, LoopRestStep DEF Next
<1>7. CASE TimerExpires
  BY <1>7, LoopTimerStep DEF TimerExpires
<1>8. CASE RunReturns
  <2>1. UNCHANGED vars /\ UNCHANGED <<program, ready, step, timer, printed>>
    BY <1>8 DEF RunReturns
  <2>2. UNCHANGED <<completed, posted, consumers, closed, unsubmitted>>
    BY <2>1 DEF vars
  <2> QED BY <2>1, <2>2, LoopUnseenStep
<1>9. CASE UNCHANGED allVars
  <2>1. UNCHANGED vars /\ UNCHANGED <<program, ready, step, timer, printed>>
    BY <1>9 DEF allVars, loopVars
  <2>2. UNCHANGED <<completed, posted, consumers, closed, unsubmitted>>
    BY <2>1 DEF vars
  <2> QED BY <2>1, <2>2, LoopUnseenStep
<1> QED BY <1>1, <1>2, <1>3, <1>4, <1>5, <1>6, <1>7, <1>8, <1>9 DEF LoopNext, Sends

\* Each of the coroutines that are spawned is ready once.
LEMMA SpawnedOnce ==
  ASSUME NEW g \in Programs, Starts(g)
  PROVE  ready \in Seq(g.receivers \cup {Push}) /\ IsInjective(ready)
         /\ Range(ready) = g.receivers \cup {Push}
<1> DEFINE S == g.receivers \cup {Push}
<1>1. IsFiniteSet(g.receivers) /\ Push \notin g.receivers
  BY ProgramsAssumption DEF Receivers
<1>2. PICK n \in Nat : n = Cardinality(g.receivers)
  BY <1>1, FS_CardinalityType
<1>3. IsFiniteSet(S) /\ Cardinality(S) = n + 1
  BY <1>1, <1>2, FS_AddElement
<1>4. IsFiniteSet(1 .. n + 1) /\ Cardinality(1 .. n + 1) = n + 1
  <2>1. PICK m \in Nat : m = n + 1 /\ m > 0
    BY <1>2
  <2>2. IsFiniteSet(1 .. m) /\ Cardinality(1 .. m) = IF 1 > m THEN 0 ELSE m - 1 + 1
    BY FS_Interval
  <2>3. Cardinality(1 .. m) = m
    BY <2>1, <2>2
  <2> QED BY <2>1, <2>2, <2>3
<1>5. ready \in [1 .. n + 1 -> Coroutine] /\ Range(ready) = S
  BY <1>2 DEF Starts
<1> HIDE DEF S
<1>6. ready \in [1 .. n + 1 -> S]
  BY <1>5 DEF Range
<1>7. ready \in Surjection(1 .. n + 1, S)
  BY <1>5, <1>6 DEF Surjection, Range
<1>8. ready \in Injection(1 .. n + 1, S)
  BY <1>3, <1>4, <1>7, FS_SurjSameCardinalityImpliesInj
<1>9. IsInjective(ready)
  BY <1>8 DEF Injection
<1>10. ready \in Seq(S)
  BY <1>2, <1>6
<1> QED BY <1>5, <1>9, <1>10 DEF S

LEMMA EventInvInit == LoopInit => EventInv
<1> SUFFICES ASSUME LoopInit PROVE EventInv
  OBVIOUS
<1>1. PICK g \in Programs : Starts(g) /\ program = g
  BY DEF LoopInit, Starts
<1>2. /\ ready \in Seq(program.receivers \cup {Push}) /\ IsInjective(ready)
      /\ Range(ready) = program.receivers \cup {Push}
  BY <1>1, SpawnedOnce
<1>3. /\ \A r \in Coroutine : step[r] = 0
      /\ step \in [Coroutine -> Nat] /\ timer = FALSE /\ printed = <<>>
  BY <1>1 DEF Starts
<1>4. /\ \A k \in Call : ~completed[k] /\ posted[k] = <<>>
      /\ unsubmitted = IoOp /\ ~closed[LoopChan] /\ consumers[LoopChan] = <<>>
  BY EventLoopAssumption DEF LoopInit, Init
<1>5. LoopTypes
  <2>1. <<>> \in Seq(LoopProducer) /\ FALSE \in BOOLEAN
    OBVIOUS
  <2>2. printed \in Seq(LoopProducer) /\ timer \in BOOLEAN
    BY <1>3, <2>1
  <2> QED BY <1>1, <1>2, <1>3, <2>2 DEF LoopTypes
<1>6. /\ Push \notin program.receivers /\ program.receivers \subseteq Receivers
      /\ Receivers \subseteq Coroutine /\ step[Push] = 0
  BY <1>3, <1>5, ProgramFacts
<1>7. SentWords = 0
  <2>1. {i \in 1 .. step[Push] : program.script[i] = "send"} = {}
    BY <1>6
  <2> QED BY <2>1, FS_EmptySet DEF SentWords
<1>8. /\ \A r \in Receivers : /\ step[r] = 0 /\ Gained(r) = 0 /\ ~Waits(r)
                              /\ \A j : ~Holds(r, j)
      /\ \A r \in Receivers, n \in 1 .. MaxWords + 1 :
           ~completed[Nth(r, n)] /\ \A i : ~GotNth(r, n, i)
  <2>1. \A r \in Receivers : /\ step[r] = 0 /\ Gained(r) = 0 /\ ~Waits(r)
                             /\ \A j : ~Holds(r, j)
    BY <1>3, <1>6 DEF Gained, Waits, Holds
  <2>2. ASSUME NEW r \in Receivers, NEW n \in 1 .. MaxWords + 1
        PROVE  ~completed[Nth(r, n)] /\ \A i : ~GotNth(r, n, i)
    <3>1. ~completed[Nth(r, n)] /\ posted[Nth(r, n)] = <<>>
      BY <1>4, LoopOps
    <3>2. Len(posted[Nth(r, n)]) = 0
      BY <3>1
    <3>3. \A x : Len(<<x>>) = 1
      OBVIOUS
    <3> QED BY <3>1, <3>2, <3>3 DEF GotNth
  <2> QED BY <2>1, <2>2
<1>9. /\ Line = {} /\ \A q \in Readies : q \in Nat /\ ready[q] \in Receivers
      /\ Push \in Range(ready)
  BY <1>2, <1>4, <1>6 DEF Line, Readies
<1>10. CallsMade
  <2>1. \A i \in 1 .. MaxWords : Nth(Push, i) \in unsubmitted /\ ~completed[Nth(Push, i)]
    BY <1>4, LoopOps
  <2>2. \A k \in LoopCall : ~completed[k]
    BY <1>4, EventLoopAssumption
  <2>3. \A r \in Receivers : \A n \in 1 .. MaxWords + 1 : Nth(r, n) \in unsubmitted
    BY <1>4, LoopOps
  <2> QED BY <1>4, <1>7, <1>8, <2>1, <2>2, <2>3 DEF CallsMade
<1>11. SenderRuns
  <2>1. program.script # <<>> /\ program.script \in Seq({"send", "wait", "close"})
    BY <1>1, ProgramsAssumption
  <2>2. 0 < Len(program.script)
    BY <2>1
  <2> QED BY <1>3, <1>4, <1>6, <1>7, <2>2 DEF SenderRuns
<1>12. ReceiversRun
  BY <1>8, <1>9, LoopSizes DEF ReceiversRun
<1>13. WordsLinedUp
  <2>1. \A i \in 1 .. MaxWords : ~completed[Nth(Push, i)]
    BY <1>4, LoopOps
  <2>2. Len(printed) = 0 /\ DOMAIN printed = {}
    BY <1>3
  <2> QED BY <1>8, <1>9, <2>1, <2>2 DEF WordsLinedUp
<1>14. TurnsTaken
  <2>1. \A r \in program.receivers : \E q \in Readies : ready[q] = r
    BY <1>2, <1>6 DEF Range, Readies
  <2> QED BY <1>6, <1>8, <1>9, <2>1 DEF TurnsTaken, LineOrdered
<1> QED BY <1>5, <1>10, <1>11, <1>12, <1>13, <1>14 DEF EventInv

\* The words that a receiver got are those of its first receives.
LEMMA WordsAreGained ==
  ASSUME TypeOK, CallsInv, EventInv, NEW r \in Receivers
  PROVE  WordsOf(r) = Gained(r)
<1> DEFINE Good(n) == \E i \in DOMAIN posted[Nth(r, n)] : posted[Nth(r, n)][i].ec = "ok"
<1>1. \A n \in 1 .. MaxWords + 1 : Good(n) <=> GoodNth(r, n)
  <2> SUFFICES ASSUME NEW n \in 1 .. MaxWords + 1
               PROVE  Good(n) <=> GoodNth(r, n)
    OBVIOUS
  <2>1. posted[Nth(r, n)] \in Seq(Outcome) /\ Len(posted[Nth(r, n)]) \in {0, 1}
    BY LoopOps DEF TypeOK, CallsInv, CompletedOnce
  <2>2. CASE Len(posted[Nth(r, n)]) = 0
    BY <2>1, <2>2 DEF GoodNth
  <2>3. CASE Len(posted[Nth(r, n)]) = 1
    BY <2>1, <2>3 DEF GoodNth
  <2> QED BY <2>1, <2>2, <2>3
<1> HIDE DEF Good
<1>2. step[r] \in Nat /\ step[r] <= MaxWords + 1 /\ Gained(r) \in Nat
  BY CurrentReceive, GainedType
<1>3. \A n \in 1 .. step[r] : n \in 1 .. MaxWords + 1
  BY <1>2, LoopSizes
<1>4. \A n \in 1 .. step[r] : n < step[r] => Good(n)
  BY <1>1, <1>3 DEF EventInv, ReceiversRun
<1>5. {n \in 1 .. step[r] : Good(n)} = 1 .. Gained(r)
  <2>1. CASE step[r] > 0 /\ ~GoodNth(r, step[r])
    <3>1. Gained(r) = step[r] - 1 /\ ~Good(step[r])
      BY <1>1, <1>2, <1>3, <2>1 DEF Gained
    <3> QED BY <1>2, <1>4, <3>1
  <2>2. CASE ~(step[r] > 0 /\ ~GoodNth(r, step[r]))
    <3>1. Gained(r) = step[r] /\ (step[r] > 0 => Good(step[r]))
      BY <1>1, <1>2, <1>3, <2>2 DEF Gained
    <3> QED BY <1>2, <1>4, <3>1
  <2> QED BY <2>1, <2>2
<1>6. Cardinality(1 .. Gained(r)) = Gained(r)
  <2>1. PICK m \in Nat : m = Gained(r)
    BY <1>2
  <2>2. Cardinality(1 .. m) = IF 1 > m THEN 0 ELSE m - 1 + 1
    BY FS_Interval
  <2>3. Cardinality(1 .. m) = m
    BY <2>2
  <2> QED BY <2>1, <2>3
<1> QED BY <1>5, <1>6 DEF WordsOf, Good

LEMMA EventInvariant ==
  LoopSpec => []TypeOK /\ []CallsInv /\ []EventInv
<1>1. LoopInit => TypeOK /\ CallsInv /\ EventInv
  BY InitType, InitCallsInv, EventInvInit DEF LoopInit
<1>2. TypeOK /\ CallsInv /\ EventInv /\ [LoopNext]_allVars
        => TypeOK' /\ CallsInv' /\ EventInv'
  <2> SUFFICES ASSUME TypeOK, CallsInv, EventInv, [LoopNext]_allVars
               PROVE  TypeOK' /\ CallsInv' /\ EventInv'
    OBVIOUS
  <2>1. EventInv' /\ [Next]_vars
    BY LoopStep
  <2> QED BY <2>1, NextType, NextCallsInv, LoopIsSafe
<1> QED BY <1>1, <1>2, PTL DEF LoopSpec

\* Any number of receivers print the words of any script in the order in which
\* they were sent, though each is resumed later than its receive was matched
\* (multi-consumer.cpp:26-54, intro.cpp:206-240).
THEOREM EventsPrintedInOrder == LoopSpec => []PrintedInOrder
<1>1. EventInv => PrintedInOrder
  BY DEF EventInv, WordsLinedUp, PrintedInOrder
<1> QED BY <1>1, EventInvariant, PTL

\* And they take turns: no receiver ever has two words more than another
\* (multi-consumer.cpp:38-54, with the queues of channel_impl.hpp).
THEOREM ReceiversTakeTurns == LoopSpec => []TakeTurns
<1>1. TypeOK /\ CallsInv /\ EventInv => TakeTurns
  <2> SUFFICES ASSUME TypeOK, CallsInv, EventInv,
                      NEW r \in program.receivers, NEW s \in program.receivers
               PROVE  WordsOf(r) <= WordsOf(s) + 1
    BY DEF TakeTurns
  <2>1. r \in Receivers /\ s \in Receivers
    BY ProgramFacts DEF EventInv
  <2>2. Gained(r) <= Gained(s) + 1
    BY DEF EventInv, TurnsTaken
  <2> QED BY <2>1, <2>2, WordsAreGained
<1> QED BY <1>1, EventInvariant, PTL
=============================================================================
