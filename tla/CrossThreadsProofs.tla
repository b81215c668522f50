------------------------- MODULE CrossThreadsProofs -------------------------
(***************************************************************************)
(* Proofs about the program cross-threads.cpp, for any number of threads,  *)
(* producers and consumers, any capacity and any number of sends.          *)
(***************************************************************************)
EXTENDS CrossThreads, DistinctSequences, FiniteSetTheorems

(***************************************************************************)
(* The channel of messages.                                                *)
(***************************************************************************)
Messages == buffer["messages"]
Result == [ec : {"ok", "closed"}, which : IoOp, val : Producer \cup {NoValue}]

Sent(p) == posted[p] # <<>> /\ posted[p][1].ec = "ok"
Got(o, p) == posted[o] # <<>> /\ posted[o][1].val = p
ToldClosed(o) == posted[o] # <<>> /\ posted[o][1].ec = "closed"

ChanTypeOK ==
  /\ closed \in [Chan -> BOOLEAN]
  /\ buffer \in [Chan -> Seq(Producer)]
  /\ posted \in [Call -> Seq(Result)]

\* A call waits, or has its one answer, or neither; never both.
AnsweredOnce ==
  \A k \in Call :
    /\ posted[k] = <<>> \/ \E r \in Result : posted[k] = <<r>>
    /\ posted[k] # <<>> => k \in submitted /\ ~Waits(k)
    /\ Waits(k) => k \in submitted

\* A message that was sent is in the buffer or was received, once.
MessagePlaces ==
  /\ IsInjective(Messages)
  /\ \A p \in Producer :
       /\ Sent(p) <=> p \in Range(Messages) \/ \E o \in Consumer : Got(o, p)
       /\ p \in Range(Messages) => \A o \in Consumer : ~Got(o, p)
       /\ \A o1, o2 \in Consumer : Got(o1, p) /\ Got(o2, p) => o1 = o2

Shut == closed["messages"] /\ Messages = <<>>

Drained == \A o \in Consumer : ToldClosed(o) => Shut

ChanInv == ChanTypeOK /\ AnsweredOnce /\ MessagePlaces /\ Drained

\* The calls are the operations, all of one channel.
LEMMA Names ==
  /\ IoOp = Call
  /\ Producer \cap Consumer = {}
  /\ \A k \in Call : CallOf[k] = k /\ ChanOf[k] = "messages"
  /\ Chan = {"messages"} /\ "messages" \in Chan
  /\ NoValue \notin Producer
<1>1. \A x, y, n, m : Msg(x, n) # Get(y, m)
  BY DEF Msg, Get
<1>2. Producer \cap Consumer = {}
  BY <1>1, MessagesAssumption DEF XProducer, XConsumer
<1>3. IoOp = Call
  BY MessagesAssumption DEF IoOp, XCall
<1> QED BY <1>2, <1>3, MessagesAssumption DEF XCallOf, XChanOf

\* What completing a set of calls does to each of them.
LEMMA CompleteCalls ==
  ASSUME NEW rs, \A r \in rs : r.which \in Call,
         \A r, s \in rs : r.which = s.which => r = s,
         Complete(rs)
  PROVE  /\ \A r \in rs : posted'[r.which] = Append(posted[r.which], r)
         /\ \A k \in Call : (\A r \in rs : r.which # k) => posted'[k] = posted[k]
         /\ posted' = [k \in Call |-> posted'[k]]
         /\ \A k \in Call : Waits(k)' <=> Waits(k) /\ \A r \in rs : r.which # k
<1>1. \A r \in rs : CallOf[r.which] = r.which
  BY Names
<1>2. ASSUME NEW r \in rs
      PROVE  posted'[r.which] = Append(posted[r.which], r)
  <2>1. \E s \in rs : CallOf[s.which] = r.which
    BY <1>1
  <2>2. (CHOOSE s \in rs : CallOf[s.which] = r.which) = r
    BY <1>1
  <2> QED BY <2>1, <2>2 DEF Complete, PostAll
<1>3. ASSUME NEW k \in Call, \A r \in rs : r.which # k
      PROVE  posted'[k] = posted[k]
  BY <1>1, <1>3 DEF Complete, PostAll
<1>4. posted' = [k \in Call |-> posted'[k]]
  BY DEF Complete, PostAll
<1>5. ASSUME NEW k \in Call
      PROVE  Waits(k)' <=> Waits(k) /\ \A r \in rs : r.which # k
  <2> DEFINE gone == {o \in IoOp : \E r \in rs : CallOf[o] = CallOf[r.which]}
  <2>1. DOMAIN ahead' = DOMAIN ahead \ gone
    BY DEF Complete, Withdraw
  <2>2. k \in gone <=> \E r \in rs : r.which = k
    BY <1>1, Names
  <2> QED BY <2>1, <2>2 DEF Waits
<1> QED BY <1>2, <1>3, <1>4, <1>5

\* Calls that wait get one answer each.
LEMMA Answers ==
  ASSUME NEW rs \in SUBSET Result,
         \A r, s \in rs : r.which = s.which => r = s,
         \A r \in rs : Waits(r.which),
         ChanTypeOK, AnsweredOnce, Complete(rs), UNCHANGED submitted
  PROVE  /\ posted' \in [Call -> Seq(Result)]
         /\ AnsweredOnce'
         /\ \A r \in rs : posted[r.which] = <<>> /\ posted'[r.which] = <<r>>
         /\ \A k \in Call : (\A r \in rs : r.which # k) => posted'[k] = posted[k]
<1>1. \A r \in rs : r.which \in Call
  BY Names DEF Result
<1>2. /\ \A r \in rs : posted'[r.which] = Append(posted[r.which], r)
      /\ \A k \in Call : (\A r \in rs : r.which # k) => posted'[k] = posted[k]
      /\ posted' = [k \in Call |-> posted'[k]]
      /\ \A k \in Call : Waits(k)' <=> Waits(k) /\ \A r \in rs : r.which # k
  BY <1>1, CompleteCalls
<1>3. ASSUME NEW r \in rs
      PROVE  posted[r.which] = <<>> /\ posted'[r.which] = <<r>>
  <2>1. r.which \in Call /\ Waits(r.which)
    BY <1>1
  <2>2. posted[r.which] = <<>>
    BY <2>1 DEF AnsweredOnce
  <2>3. Append(<<>>, r) = <<r>>
    OBVIOUS
  <2> QED BY <1>2, <2>2, <2>3
<1>4. posted' \in [Call -> Seq(Result)]
  <2> SUFFICES ASSUME NEW k \in Call PROVE posted'[k] \in Seq(Result)
    BY <1>2
  <2>1. CASE \E r \in rs : r.which = k
    <3>1. PICK r \in rs : r.which = k
      BY <2>1
    <3>2. posted'[k] = <<r>> /\ r \in Result
      BY <1>3, <3>1
    <3> QED BY <3>2
  <2>2. CASE \A r \in rs : r.which # k
    BY <1>2, <2>2 DEF ChanTypeOK
  <2> QED BY <2>1, <2>2
<1>5. ASSUME NEW k \in Call
      PROVE  /\ posted'[k] = <<>> \/ \E r \in Result : posted'[k] = <<r>>
             /\ posted'[k] # <<>> => k \in submitted' /\ ~Waits(k)'
             /\ Waits(k)' => k \in submitted'
  <2>1. CASE \E r \in rs : r.which = k
    <3>1. PICK r \in rs : r.which = k
      BY <2>1
    <3>2. Waits(k) /\ ~Waits(k)'
      BY <1>2, <3>1
    <3> QED BY <1>3, <3>1, <3>2 DEF AnsweredOnce
  <2>2. CASE \A r \in rs : r.which # k
    BY <1>2, <2>2 DEF AnsweredOnce
  <2> QED BY <2>1, <2>2
<1>6. AnsweredOnce'
  BY <1>5 DEF AnsweredOnce
<1> QED BY <1>2, <1>3, <1>4, <1>6

\* One call that waits gets its answer.
LEMMA AnswersOne ==
  ASSUME NEW r \in Result, Waits(r.which),
         ChanTypeOK, AnsweredOnce, Complete({r}), UNCHANGED submitted
  PROVE  /\ posted' \in [Call -> Seq(Result)]
         /\ AnsweredOnce'
         /\ posted'[r.which] = <<r>>
         /\ \A k \in Call : k # r.which => posted'[k] = posted[k]
<1> DEFINE rs == {r}
<1>1. /\ rs \in SUBSET Result
      /\ \A s \in rs : s = r
      /\ r \in rs
  OBVIOUS
<1>2. Complete(rs)
  OBVIOUS
<1> HIDE DEF rs
<1>3. /\ \A s, u \in rs : s.which = u.which => s = u
      /\ \A s \in rs : Waits(s.which)
  BY <1>1
<1>4. /\ posted' \in [Call -> Seq(Result)]
      /\ AnsweredOnce'
      /\ \A s \in rs : posted[s.which] = <<>> /\ posted'[s.which] = <<s>>
      /\ \A k \in Call : (\A s \in rs : s.which # k) => posted'[k] = posted[k]
  BY <1>1, <1>2, <1>3, Answers
<1> QED BY <1>1, <1>4

\* A call that waits has no answer yet.
LEMMA NoAnswerYet ==
  ASSUME ChanInv, NEW k \in Call, Waits(k)
  PROVE  /\ posted[k] = <<>>
         /\ ~Sent(k) /\ ~ToldClosed(k) /\ \A p : ~Got(k, p)
BY DEF ChanInv, AnsweredOnce, Sent, ToldClosed, Got

\* How the answers to the calls read in the next state.
LEMMA AnswerRead ==
  ASSUME NEW r \in Result, posted'[r.which] = <<r>>
  PROVE  /\ Sent(r.which)' <=> r.ec = "ok"
         /\ ToldClosed(r.which)' <=> r.ec = "closed"
         /\ \A p : Got(r.which, p)' <=> r.val = p
BY DEF Sent, ToldClosed, Got

LEMMA NoAnswerRead ==
  ASSUME NEW k, posted'[k] = posted[k]
  PROVE  /\ Sent(k)' <=> Sent(k)
         /\ ToldClosed(k)' <=> ToldClosed(k)
         /\ \A p : Got(k, p)' <=> Got(k, p)
BY DEF Sent, ToldClosed, Got

\* The steps of the channel that answer calls.  Each lemma says what the step
\* does to the places of the messages.
LEMMA AcceptStep ==
  ASSUME ChanInv, NEW p \in Producer, Accept(p)
  PROVE  ChanInv'
<1> DEFINE r == Ok(p, NoValue)
<1>1. PICK a : a = r
  OBVIOUS
<1>2. a \in Result /\ a.which = p /\ a.ec = "ok" /\ a.val = NoValue
  BY <1>1 DEF Ok, Result, IoOp
<1> HIDE DEF r
<1>3. p \in Call /\ ChanOf[p] = "messages"
  BY Names DEF IoOp
<1>4. /\ Waits(p) /\ Complete({a})
      /\ buffer' = [buffer EXCEPT !["messages"] = Append(@, p)]
      /\ ~closed["messages"]
      /\ UNCHANGED <<closed, submitted>>
  BY <1>1, <1>3 DEF Accept, First, r
<1>5. /\ posted' \in [Call -> Seq(Result)] /\ AnsweredOnce'
      /\ posted'[p] = <<a>>
      /\ \A k \in Call : k # p => posted'[k] = posted[k]
  BY <1>2, <1>4, AnswersOne DEF ChanInv
<1>6. /\ Messages \in Seq(Producer)
      /\ Messages' = Append(Messages, p)
      /\ buffer' \in [Chan -> Seq(Producer)]
  BY <1>4, Names DEF Messages, ChanInv, ChanTypeOK
<1>7. p \notin Range(Messages) /\ \A o \in Consumer : ~Got(o, p)
  BY <1>3, <1>4, NoAnswerYet DEF ChanInv, MessagePlaces
<1>8. IsInjective(Messages') /\ Range(Messages') = Range(Messages) \cup {p}
  BY <1>6, <1>7, AppendDistinct DEF ChanInv, MessagePlaces
<1>9. /\ Sent(p)' /\ ~ToldClosed(p)'
      /\ \A k \in Call : k # p => /\ Sent(k)' <=> Sent(k)
                                  /\ ToldClosed(k)' <=> ToldClosed(k)
                                  /\ \A x : Got(k, x)' <=> Got(k, x)
  BY <1>2, <1>5, AnswerRead, NoAnswerRead
<1>10. \A o \in Consumer : o \in Call /\ o # p
  BY Names DEF IoOp
<1>11. \A x \in Producer : x \in Call
  BY Names DEF IoOp
<1>12. MessagePlaces'
  BY <1>7, <1>8, <1>9, <1>10, <1>11 DEF ChanInv, MessagePlaces
<1>13. Drained'
  BY <1>4, <1>9, <1>10 DEF ChanInv, Drained, Shut
<1> QED BY <1>4, <1>5, <1>6, <1>12, <1>13 DEF ChanInv, ChanTypeOK

LEMMA CancelSendStep ==
  ASSUME ChanInv, NEW p \in Producer, CancelSend(p)
  PROVE  ChanInv'
<1>1. PICK a : a = ChannelClosed(p)
  OBVIOUS
<1>2. a \in Result /\ a.which = p /\ a.ec = "closed" /\ a.val = NoValue
  BY <1>1 DEF ChannelClosed, Result, IoOp
<1>3. p \in Call
  BY Names DEF IoOp
<1>4. Waits(p) /\ Complete({a}) /\ UNCHANGED <<closed, submitted, buffer>>
  BY <1>1, <1>3 DEF CancelSend, First
<1>5. /\ posted' \in [Call -> Seq(Result)] /\ AnsweredOnce'
      /\ posted'[p] = <<a>>
      /\ \A k \in Call : k # p => posted'[k] = posted[k]
  BY <1>2, <1>4, AnswersOne DEF ChanInv
<1>6. Messages' = Messages
  BY <1>4 DEF Messages
<1>7. ~Sent(p)
  BY <1>3, <1>4, NoAnswerYet
<1>8. /\ ~Sent(p)'
      /\ \A k \in Call : k # p => /\ Sent(k)' <=> Sent(k)
                                  /\ ToldClosed(k)' <=> ToldClosed(k)
                                  /\ \A x : Got(k, x)' <=> Got(k, x)
  BY <1>2, <1>5, AnswerRead, NoAnswerRead
<1>9. \A o \in Consumer : o \in Call /\ o # p
  BY Names DEF IoOp
<1>10. \A x \in Producer : x \in Call
  BY Names DEF IoOp
<1>11. MessagePlaces'
  BY <1>6, <1>7, <1>8, <1>9, <1>10 DEF ChanInv, MessagePlaces
<1>12. Drained'
  BY <1>4, <1>6, <1>8, <1>9 DEF ChanInv, Drained, Shut
<1> QED BY <1>4, <1>5, <1>11, <1>12 DEF ChanInv, ChanTypeOK

LEMMA CancelReceiveStep ==
  ASSUME ChanInv, NEW o \in Consumer, CancelReceive(o)
  PROVE  ChanInv'
<1>1. PICK a : a = ChannelClosed(o)
  OBVIOUS
<1>2. a \in Result /\ a.which = o /\ a.ec = "closed" /\ a.val = NoValue
  BY <1>1 DEF ChannelClosed, Result, IoOp
<1>3. o \in Call /\ ChanOf[o] = "messages"
  BY Names DEF IoOp
<1>4. /\ Waits(o) /\ Complete({a}) /\ UNCHANGED <<closed, submitted, buffer>>
      /\ Shut
  BY <1>1, <1>3 DEF CancelReceive, First, Shut, Messages
<1>5. /\ posted' \in [Call -> Seq(Result)] /\ AnsweredOnce'
      /\ posted'[o] = <<a>>
      /\ \A k \in Call : k # o => posted'[k] = posted[k]
  BY <1>2, <1>4, AnswersOne DEF ChanInv
<1>6. Messages' = Messages /\ Shut'
  BY <1>4 DEF Messages, Shut
<1>7. \A x : ~Got(o, x)
  BY <1>3, <1>4, NoAnswerYet
<1>8. /\ \A x \in Producer : ~Got(o, x)'
      /\ \A k \in Call : k # o => /\ Sent(k)' <=> Sent(k)
                                  /\ \A x : Got(k, x)' <=> Got(k, x)
  BY <1>2, <1>5, AnswerRead, NoAnswerRead, Names
<1>9. \A x \in Producer : x \in Call /\ x # o
  BY Names DEF IoOp
<1>10. \A x \in Consumer : x \in Call
  BY Names DEF IoOp
<1>11. \A x \in Consumer, y \in Producer : Got(x, y)' <=> Got(x, y)
  BY <1>7, <1>8, <1>10
<1>12. MessagePlaces'
  BY <1>6, <1>8, <1>9, <1>11 DEF ChanInv, MessagePlaces
<1>13. Drained'
  BY <1>6 DEF Drained
<1> QED BY <1>4, <1>5, <1>12, <1>13 DEF ChanInv, ChanTypeOK

LEMMA DeliverStep ==
  ASSUME ChanInv, NEW o \in Consumer, Deliver(o)
  PROVE  ChanInv'
<1>1. PICK p : p = Head(Messages)
  OBVIOUS
<1>2. PICK a : a = Ok(o, p)
  OBVIOUS
<1>3. o \in Call /\ ChanOf[o] = "messages"
  BY Names DEF IoOp
<1>4. /\ Waits(o) /\ Complete({a}) /\ UNCHANGED <<closed, submitted>>
      /\ Messages # <<>>
      /\ buffer' = [buffer EXCEPT !["messages"] = Tail(@)]
  BY <1>1, <1>2, <1>3 DEF Deliver, First, Messages
<1>5. /\ Messages \in Seq(Producer)
      /\ Messages' = Tail(Messages)
      /\ buffer' \in [Chan -> Seq(Producer)]
  BY <1>4, Names DEF Messages, ChanInv, ChanTypeOK
<1>6. p \in Producer
  BY <1>1, <1>4, <1>5
<1>7. a \in Result /\ a.which = o /\ a.ec = "ok" /\ a.val = p
  BY <1>2, <1>6 DEF Ok, Result, IoOp
<1>8. /\ posted' \in [Call -> Seq(Result)] /\ AnsweredOnce'
      /\ posted'[o] = <<a>>
      /\ \A k \in Call : k # o => posted'[k] = posted[k]
  BY <1>4, <1>7, AnswersOne DEF ChanInv
<1>9. /\ IsInjective(Messages') /\ Range(Messages') = Range(Messages) \ {p}
      /\ p \in Range(Messages)
  BY <1>1, <1>4, <1>5, TailDistinct DEF ChanInv, MessagePlaces
<1>10. ~ToldClosed(o) /\ \A x : ~Got(o, x)
  BY <1>3, <1>4, NoAnswerYet
<1>11. /\ ~ToldClosed(o)'
       /\ \A x : Got(o, x)' <=> x = p
       /\ \A k \in Call : k # o => /\ Sent(k)' <=> Sent(k)
                                   /\ ToldClosed(k)' <=> ToldClosed(k)
                                   /\ \A x : Got(k, x)' <=> Got(k, x)
  BY <1>7, <1>8, AnswerRead, NoAnswerRead
<1>12. \A x \in Producer : x \in Call /\ x # o
  BY Names DEF IoOp
<1>13. \A x \in Consumer : x \in Call
  BY Names DEF IoOp
<1>14. \A x \in Consumer : ~Got(x, p)
  BY <1>6, <1>9 DEF ChanInv, MessagePlaces
<1>15. \A x \in Consumer, y \in Producer :
         Got(x, y)' <=> Got(x, y) \/ (x = o /\ y = p)
  BY <1>10, <1>11, <1>13
<1>16. \A x \in Producer : Sent(x)' <=> Sent(x)
  BY <1>11, <1>12
<1>17. MessagePlaces'
  <2> SUFFICES ASSUME NEW x \in Producer
               PROVE  /\ Sent(x)' <=> x \in Range(Messages') \/ \E k \in Consumer : Got(k, x)'
                      /\ x \in Range(Messages') => \A k \in Consumer : ~Got(k, x)'
                      /\ \A k, l \in Consumer : Got(k, x)' /\ Got(l, x)' => k = l
    BY <1>9 DEF MessagePlaces
  <2>1. CASE x = p
    BY <1>9, <1>14, <1>15, <1>16, <2>1 DEF ChanInv, MessagePlaces
  <2>2. CASE x # p
    BY <1>9, <1>15, <1>16, <2>2 DEF ChanInv, MessagePlaces
  <2> QED BY <2>1, <2>2
<1>18. Drained'
  BY <1>4, <1>11, <1>13 DEF ChanInv, Drained, Shut
<1> QED BY <1>4, <1>5, <1>8, <1>17, <1>18 DEF ChanInv, ChanTypeOK

LEMMA TransferStep ==
  ASSUME ChanInv, NEW p \in Producer, NEW o \in Consumer, Transfer(p, o)
  PROVE  ChanInv'
<1>1. PICK a, b : a = Ok(p, NoValue) /\ b = Ok(o, p)
  OBVIOUS
<1>2. p \in Call /\ o \in Call /\ p # o /\ ChanOf[p] = "messages"
  BY Names DEF IoOp
<1>3. /\ Waits(p) /\ Waits(o) /\ Complete({a, b})
      /\ ~closed["messages"]
      /\ UNCHANGED <<closed, submitted, buffer>>
  BY <1>1, <1>2 DEF Transfer, First, Messages
<1>4. /\ a \in Result /\ a.which = p /\ a.ec = "ok" /\ a.val = NoValue
      /\ b \in Result /\ b.which = o /\ b.ec = "ok" /\ b.val = p
  BY <1>1 DEF Ok, Result, IoOp
<1>5. /\ posted' \in [Call -> Seq(Result)] /\ AnsweredOnce'
      /\ posted'[p] = <<a>> /\ posted'[o] = <<b>>
      /\ \A k \in Call : k # p /\ k # o => posted'[k] = posted[k]
  <2> DEFINE rs == {a, b}
  <2>1. /\ rs \in SUBSET Result
        /\ a \in rs /\ b \in rs /\ \A r \in rs : r = a \/ r = b
        /\ Complete(rs)
    BY <1>3, <1>4
  <2> HIDE DEF rs
  <2>2. /\ \A r, s \in rs : r.which = s.which => r = s
        /\ \A r \in rs : Waits(r.which)
    BY <1>2, <1>3, <1>4, <2>1
  <2>3. ChanTypeOK /\ AnsweredOnce /\ UNCHANGED submitted
    BY <1>3 DEF ChanInv
  <2>4. /\ posted' \in [Call -> Seq(Result)]
        /\ AnsweredOnce'
        /\ \A r \in rs : posted[r.which] = <<>> /\ posted'[r.which] = <<r>>
        /\ \A k \in Call : (\A r \in rs : r.which # k) => posted'[k] = posted[k]
    BY <2>1, <2>2, <2>3, Answers
  <2> QED BY <1>4, <2>1, <2>4
<1>6. Messages' = Messages
  BY <1>3 DEF Messages
<1>7. ~ToldClosed(o) /\ ~Sent(p) /\ \A x : ~Got(o, x)
  BY <1>2, <1>3, NoAnswerYet
<1>8. /\ Sent(p)' /\ ~ToldClosed(o)'
      /\ \A x : Got(o, x)' <=> x = p
      /\ \A k \in Call : k # p /\ k # o =>
           /\ Sent(k)' <=> Sent(k)
           /\ ToldClosed(k)' <=> ToldClosed(k)
           /\ \A x : Got(k, x)' <=> Got(k, x)
  BY <1>4, <1>5, AnswerRead, NoAnswerRead
<1>9. \A x \in Producer : x \in Call /\ x # o
  BY Names DEF IoOp
<1>10. \A x \in Consumer : x \in Call /\ x # p
  BY Names DEF IoOp
<1>11. p \notin Range(Messages) /\ \A x \in Consumer : ~Got(x, p)
  BY <1>7 DEF ChanInv, MessagePlaces
<1>12. \A x \in Consumer, y \in Producer :
         Got(x, y)' <=> Got(x, y) \/ (x = o /\ y = p)
  BY <1>7, <1>8, <1>10
<1>13. \A x \in Producer : Sent(x)' <=> Sent(x) \/ x = p
  BY <1>8, <1>9
<1>14. MessagePlaces'
  <2> SUFFICES ASSUME NEW x \in Producer
               PROVE  /\ Sent(x)' <=> x \in Range(Messages') \/ \E k \in Consumer : Got(k, x)'
                      /\ x \in Range(Messages') => \A k \in Consumer : ~Got(k, x)'
                      /\ \A k, l \in Consumer : Got(k, x)' /\ Got(l, x)' => k = l
    BY <1>6 DEF ChanInv, MessagePlaces
  <2>1. CASE x = p
    BY <1>6, <1>11, <1>12, <1>13, <2>1 DEF ChanInv, MessagePlaces
  <2>2. CASE x # p
    BY <1>6, <1>12, <1>13, <2>2 DEF ChanInv, MessagePlaces
  <2> QED BY <2>1, <2>2
<1>15. Drained'
  BY <1>3, <1>6, <1>8, <1>10 DEF ChanInv, Drained, Shut
<1> QED BY <1>3, <1>5, <1>14, <1>15 DEF ChanInv, ChanTypeOK

LEMMA ArriveStep ==
  ASSUME ChanInv, NEW o, Arrive(o)
  PROVE  ChanInv'
<1>1. o \notin submitted /\ submitted' = submitted \cup {o}
  BY DEF Arrive
<1>2. UNCHANGED <<closed, buffer, posted>>
  BY DEF Arrive
<1>3. ASSUME NEW k \in Call
      PROVE  /\ posted'[k] = <<>> \/ \E r \in Result : posted'[k] = <<r>>
             /\ posted'[k] # <<>> => k \in submitted' /\ ~Waits(k)'
             /\ Waits(k)' => k \in submitted'
  <2>1. /\ posted[k] = <<>> \/ \E r \in Result : posted[k] = <<r>>
        /\ posted[k] # <<>> => k \in submitted /\ ~Waits(k)
        /\ Waits(k) => k \in submitted
    BY DEF ChanInv, AnsweredOnce
  <2>2. Waits(k)' => Waits(k) \/ k = o
    BY DEF Arrive, Waits
  <2> QED BY <1>1, <1>2, <2>1, <2>2
<1>4. AnsweredOnce'
  BY <1>3 DEF AnsweredOnce
<1>5. MessagePlaces' /\ Drained' /\ ChanTypeOK'
  BY <1>2 DEF ChanInv, MessagePlaces, Drained, Shut, Messages, ChanTypeOK,
              Sent, Got, ToldClosed, Result
<1> QED BY <1>4, <1>5 DEF ChanInv

LEMMA CloseStep ==
  ASSUME ChanInv, Close("messages")
  PROVE  ChanInv' /\ closed'["messages"] /\ Messages' = Messages
<1>1. /\ closed' = [closed EXCEPT !["messages"] = TRUE]
      /\ UNCHANGED <<buffer, ahead, submitted, posted>>
  BY DEF Close
<1>2. closed' \in [Chan -> BOOLEAN] /\ closed'["messages"]
  BY <1>1, Names DEF ChanInv, ChanTypeOK
<1>3. Messages' = Messages
  BY <1>1 DEF Messages
<1>4. AnsweredOnce'
  BY <1>1 DEF ChanInv, AnsweredOnce, Waits, Result
<1>5. MessagePlaces'
  BY <1>1, <1>3 DEF ChanInv, MessagePlaces, Sent, Got
<1>6. Drained'
  BY <1>1, <1>2, <1>3 DEF ChanInv, Drained, Shut, ToldClosed
<1>7. ChanTypeOK'
  BY <1>1, <1>2 DEF ChanInv, ChanTypeOK, Result
<1> QED BY <1>2, <1>3, <1>4, <1>5, <1>6, <1>7 DEF ChanInv

\* What a step of the program does to the channel of messages.
LEMMA ChannelEffect ==
  ASSUME [XNext]_allVars
  PROVE  (\E o : Arrive(o)) \/ Close("messages") \/ Progress \/ UNCHANGED vars
<1>1. CASE \E a \in Actors : Act(a)
  <2>1. PICK a \in Actors : Act(a)
    BY <1>1
  <2> QED BY <2>1 DEF Act, Send, Stop, Receive, Report
<1>2. CASE PingDone
  BY <1>2 DEF PingDone
<1>3. CASE \E a \in Coroutines : Notify(a)
  BY <1>3 DEF Notify
<1>4. CASE Timeout \/ RunCloseMessages
  BY <1>4 DEF Timeout, RunCloseMessages
<1>5. CASE Main
  BY <1>5 DEF Main, Spawn, Join, Test, Sleep, CloseLogs, Finish
<1>6. CASE Strand
  BY <1>6 DEF Strand, SendLine, RunCloseLogs, Log, LoggerDone, Runs
<1>7. CASE Progress /\ UNCHANGED progVars
  BY <1>7
<1>8. CASE UNCHANGED allVars
  BY <1>8 DEF allVars
<1> QED BY <1>1, <1>2, <1>3, <1>4, <1>5, <1>6, <1>7, <1>8 DEF XNext

\* The invariant of the channel is inductive, and a channel that is closed
\* and drained stays so.
LEMMA ChanInvStep ==
  ASSUME ChanInv, [XNext]_allVars
  PROVE  ChanInv' /\ (Shut => Shut')
<1>1. CASE \E o : Arrive(o)
  BY <1>1, ArriveStep DEF Arrive, Shut, Messages
<1>2. CASE Close("messages")
  BY <1>2, CloseStep DEF Shut
<1>3. CASE Progress
  <2>1. CASE \E p \in Producer : Accept(p)
    <3>1. PICK p \in Producer : Accept(p)
      BY <2>1
    <3>2. ChanOf[p] = "messages"
      BY Names DEF IoOp
    <3>3. ~Shut
      BY <3>1, <3>2 DEF Accept, Shut
    <3> QED BY <3>1, <3>3, AcceptStep
  <2>2. CASE \E p \in Producer : CancelSend(p)
    BY <2>2, CancelSendStep DEF CancelSend, Shut, Messages
  <2>3. CASE \E p \in Producer, o \in Consumer : Transfer(p, o)
    BY <2>3, TransferStep DEF Transfer, Shut, Messages
  <2>4. CASE \E o \in Consumer : Deliver(o)
    <3>1. PICK o \in Consumer : Deliver(o)
      BY <2>4
    <3>2. ChanOf[o] = "messages"
      BY Names DEF IoOp
    <3>3. ~Shut
      BY <3>1, <3>2 DEF Deliver, Shut, Messages
    <3> QED BY <3>1, <3>3, DeliverStep
  <2>5. CASE \E o \in Consumer : CancelReceive(o)
    BY <2>5, CancelReceiveStep DEF CancelReceive, Shut, Messages
  <2> QED BY <1>3, <2>1, <2>2, <2>3, <2>4, <2>5 DEF Progress, Match, Serve
<1>4. CASE UNCHANGED vars
  <2>1. ChanTypeOK' <=> ChanTypeOK
    BY <1>4 DEF vars, ChanTypeOK, Result
  <2>2. AnsweredOnce' <=> AnsweredOnce
    BY <1>4 DEF vars, AnsweredOnce, Waits, Result
  <2>3. /\ MessagePlaces' <=> MessagePlaces
        /\ Drained' <=> Drained
        /\ Shut' <=> Shut
    BY <1>4 DEF vars, MessagePlaces, Drained, Shut, Messages, Sent, Got, ToldClosed
  <2> QED BY <2>1, <2>2, <2>3 DEF ChanInv
<1> QED BY <1>1, <1>2, <1>3, <1>4, ChannelEffect

-----------------------------------------------------------------------------
(***************************************************************************)
(* The actors and main.                                                    *)
(***************************************************************************)
Labels == {"unborn", "call", "await", "ending", "ended"}

ProgTypeOK ==
  /\ pc \in [Actors \cup {"timeout", "logger"} -> Labels]
  /\ made \in [Actors \cup {"logger"} -> Nat]

\* A consumer asks for one message after the other, and stops only when the
\* channel is closed and drained.
ConsumersInv ==
  \A a \in Consumers :
    /\ made[a] <= MaxGets
    /\ pc[a] = "await" => made[a] > 0
    /\ \A n \in 1 .. MaxGets : Get(a, n) \in submitted => n <= made[a]
    /\ pc[a] \in {"ending", "ended"} => Shut

\* The coroutines that main has spawned and has not been notified of.
Active == {a \in Coroutines : pc[a] \notin {"unborn", "ended"}}

\* main counts the coroutines right, and gets past its waits only when all
\* threads, and then all coroutines, have ended.
MainInv ==
  /\ outstanding = Cardinality(Active)
  /\ main # "spawn" => \A a \in Coroutines : pc[a] # "unborn"
  /\ main \notin {"spawn", "join"} => \A a \in Threads : pc[a] = "ended"
  /\ main \in {"close", "wait", "done"} => \A a \in Actors : pc[a] = "ended"

LEMMA ActorNames ==
  /\ Actors = Threads \cup Coroutines
  /\ Threads \cap Coroutines = {} /\ Consumers \cap Senders = {}
  /\ Consumers \subseteq Coroutines
  /\ "logger" \notin Actors /\ "timeout" \notin Actors
  /\ Ping \in Senders /\ Ping \in Coroutines
  /\ IsFiniteSet(Coroutines)
  /\ MaxGets \in Nat
<1>1. Ping # "logger" /\ Ping # "timeout"
  BY DEF Ping
<1>2. /\ Actors = Threads \cup Coroutines
      /\ Threads \cap Coroutines = {} /\ Consumers \cap Senders = {}
      /\ Consumers \subseteq Coroutines
      /\ "logger" \notin Actors /\ "timeout" \notin Actors
      /\ Ping \in Senders /\ Ping \in Coroutines
  BY <1>1, ActorsAssumption DEF Actors, Senders, Coroutines
<1>3. IsFiniteSet({Ping})
  BY FS_Singleton
<1>4. IsFiniteSet(Coroutines)
  BY <1>3, FS_Union, ActorsAssumption DEF Coroutines
<1>5. Cardinality(Threads \cup Producers) \in Nat
  BY FS_Union, FS_CardinalityType, ActorsAssumption
<1>6. MaxGets \in Nat
  BY <1>5, ActorsAssumption DEF MaxGets
<1> QED BY <1>2, <1>4, <1>6

\* A step of an actor, the ping among them, other than its notification.
ActorStep(a, l) ==
  /\ pc[a] \in {"call", "await"}
  /\ pc' = [pc EXCEPT ![a] = l]
  /\ l \in {"call", "await", "ending"} \/ (a \in Threads /\ l = "ended")
  /\ UNCHANGED <<main, outstanding>>

LEMMA ActIsActorStep ==
  ASSUME NEW a \in Actors, Act(a) \/ (PingDone /\ a = Ping)
  PROVE  \E l \in Labels : ActorStep(a, l)
<1>1. CASE Send(a)
  <2>1. ActorStep(a, "await")
    BY <1>1 DEF Send, Goto, ActorStep, AnsweredOk, Answered
  <2> QED BY <2>1 DEF Labels
<1>2. CASE Stop(a)
  <2>1. ActorStep(a, IF a \in Threads THEN "ended" ELSE "ending")
    BY <1>2 DEF Stop, Goto, ActorStep, Refused, Answered
  <2> QED BY <2>1 DEF Labels
<1>3. CASE Receive(a)
  <2>1. ActorStep(a, "await")
    BY <1>3 DEF Receive, Goto, ActorStep
  <2> QED BY <2>1 DEF Labels
<1>4. CASE Report(a)
  <2>1. ActorStep(a, IF Refused(a) THEN "ending" ELSE "call")
    BY <1>4 DEF Report, Goto, ActorStep, Answered
  <2> QED BY <2>1 DEF Labels
<1>5. CASE PingDone /\ a = Ping
  <2>1. ActorStep(a, "ending")
    BY <1>5 DEF PingDone, Goto, ActorStep, Answered
  <2> QED BY <2>1 DEF Labels
<1> QED BY <1>1, <1>2, <1>3, <1>4, <1>5 DEF Act

\* Everything else that runs leaves the actors, main and its count alone.
OtherStep ==
  /\ \/ pc' = pc
     \/ \E a \in {"timeout", "logger"}, l \in Labels : pc' = [pc EXCEPT ![a] = l]
  /\ UNCHANGED <<main, outstanding, made, submitted>>

LEMMA OthersAreOtherSteps ==
  ASSUME Timeout \/ RunCloseMessages \/ Strand \/ (Progress /\ UNCHANGED progVars)
           \/ UNCHANGED allVars
  PROVE  OtherStep
<1>1. CASE Timeout
  <2>1. pc' = [pc EXCEPT !["timeout"] = "ended"]
    BY <1>1 DEF Timeout, Goto
  <2>2. "timeout" \in {"timeout", "logger"} /\ "ended" \in Labels
    BY DEF Labels
  <2> QED BY <1>1, <2>1, <2>2 DEF Timeout, OtherStep, vars
<1>2. CASE RunCloseMessages \/ (Progress /\ UNCHANGED progVars) \/ UNCHANGED allVars
  <2>1. UNCHANGED progVars
    BY <1>2 DEF RunCloseMessages, allVars
  <2>2. submitted' = submitted
    BY <1>2 DEF RunCloseMessages, Close, Progress, Match, Serve, Accept, CancelSend,
                Transfer, Deliver, CancelReceive, allVars, vars
  <2> QED BY <2>1, <2>2 DEF progVars, OtherStep
<1>3. CASE Strand
  <2>1. UNCHANGED <<main, outstanding, made, submitted>>
    BY <1>3 DEF Strand, SendLine, RunCloseLogs, Log, LoggerDone, Runs, vars
  <2>2. \/ pc' = pc
        \/ pc' = [pc EXCEPT !["logger"] = "call"]
        \/ pc' = [pc EXCEPT !["logger"] = "await"]
        \/ pc' = [pc EXCEPT !["logger"] = "ended"]
    <3>1. CASE SendLine
      BY <3>1 DEF SendLine, Goto
    <3>2. CASE RunCloseLogs
      BY <3>2 DEF RunCloseLogs, Goto
    <3>3. CASE Log
      BY <3>3 DEF Log, Ask, Goto
    <3>4. CASE LoggerDone
      BY <3>4 DEF LoggerDone, Goto
    <3> QED BY <1>3, <3>1, <3>2, <3>3, <3>4 DEF Strand
  <2>3. "logger" \in {"timeout", "logger"} /\ {"call", "await", "ended"} \subseteq Labels
    BY DEF Labels
  <2> QED BY <2>1, <2>2, <2>3 DEF OtherStep
<1> QED BY <1>1, <1>2, <1>3

LEMMA OtherStepKeepsActors ==
  ASSUME ProgTypeOK, OtherStep
  PROVE  ProgTypeOK' /\ \A a \in Actors : pc'[a] = pc[a]
BY ActorNames DEF OtherStep, ProgTypeOK

\* The kinds of step that the next proofs tell apart.
LEMMA StepKinds ==
  ASSUME [XNext]_allVars
  PROVE  \/ \E a \in Actors : Act(a) \/ (PingDone /\ a = Ping)
         \/ \E a \in Coroutines : Notify(a) \/ Spawn(a)
         \/ Join \/ Test \/ Sleep \/ CloseLogs \/ Finish
         \/ OtherStep
BY ActorNames, OthersAreOtherSteps DEF XNext, Main, Actors

LEMMA ProgTypeStep ==
  ASSUME ProgTypeOK, [XNext]_allVars
  PROVE  ProgTypeOK'
<1>1. CASE \E a \in Actors : Act(a) \/ (PingDone /\ a = Ping)
  <2>1. PICK a \in Actors : Act(a) \/ (PingDone /\ a = Ping)
    BY <1>1
  <2>2. PICK l \in Labels : pc' = [pc EXCEPT ![a] = l]
    BY <2>1, ActIsActorStep DEF ActorStep
  <2>3. made' = made \/ made' = [made EXCEPT ![a] = @ + 1]
    BY <2>1 DEF Act, Send, Stop, Receive, Report, PingDone
  <2> QED BY <2>2, <2>3 DEF ProgTypeOK
<1>2. CASE \E a \in Coroutines : Notify(a) \/ Spawn(a)
  <2>1. PICK a \in Coroutines : Notify(a) \/ Spawn(a)
    BY <1>2
  <2>2. /\ made' = made
        /\ pc' = [pc EXCEPT ![a] = "ended"] \/ pc' = [pc EXCEPT ![a] = "call"]
    BY <2>1 DEF Notify, Spawn, Goto
  <2> QED BY <2>2 DEF ProgTypeOK, Labels
<1>3. CASE Join \/ Test \/ Sleep \/ CloseLogs \/ Finish
  BY <1>3 DEF Join, Test, Sleep, CloseLogs, Finish, ProgTypeOK
<1>4. CASE OtherStep
  BY <1>4, OtherStepKeepsActors
<1> QED BY <1>1, <1>2, <1>3, <1>4, StepKinds

\* No consumer is told of the close while a message is left.
LEMMA ConsumersInvStep ==
  ASSUME ChanInv, ProgTypeOK, ConsumersInv, [XNext]_allVars
  PROVE  ConsumersInv'
<1> SUFFICES ASSUME NEW a \in Consumers
             PROVE  /\ made'[a] <= MaxGets
                    /\ pc'[a] = "await" => made'[a] > 0
                    /\ \A n \in 1 .. MaxGets : Get(a, n) \in submitted' => n <= made'[a]
                    /\ pc'[a] \in {"ending", "ended"} => Shut'
  BY DEF ConsumersInv
<1>1. Shut => Shut'
  BY ChanInvStep
<1>2. /\ a \in Coroutines /\ a \notin Senders /\ a \in Actors
      /\ a # "logger" /\ a # "timeout" /\ a # Ping
  BY ActorNames
<1>3. /\ made[a] \in Nat /\ made[a] <= MaxGets
      /\ pc[a] = "await" => made[a] > 0
      /\ \A n \in 1 .. MaxGets : Get(a, n) \in submitted => n <= made[a]
      /\ pc[a] \in {"ending", "ended"} => Shut
  BY <1>2 DEF ConsumersInv, ProgTypeOK
<1>4. ASSUME pc'[a] = pc[a], made'[a] = made[a],
             \A n \in 1 .. MaxGets : Get(a, n) \in submitted' => Get(a, n) \in submitted
      PROVE  /\ made'[a] <= MaxGets
             /\ pc'[a] = "await" => made'[a] > 0
             /\ \A n \in 1 .. MaxGets : Get(a, n) \in submitted' => n <= made'[a]
             /\ pc'[a] \in {"ending", "ended"} => Shut'
  BY <1>1, <1>3, <1>4
<1>5. CASE Receive(a)
  <2>1. /\ made'[a] = made[a] + 1 /\ made[a] < MaxGets
        /\ submitted' = submitted \cup {Get(a, made[a] + 1)}
        /\ pc'[a] = "await"
    BY <1>2, <1>5 DEF Receive, Arrive, Goto, ProgTypeOK
  <2>2. \A n : Get(a, n) = Get(a, made[a] + 1) => n = made[a] + 1
    BY DEF Get
  <2> QED BY <1>3, <2>1, <2>2, ActorNames
<1>6. CASE Report(a)
  <2>1. made' = made /\ submitted' = submitted
    BY <1>6 DEF Report, vars
  <2>2. pc'[a] = IF Refused(a) THEN "ending" ELSE "call"
    BY <1>2, <1>6 DEF Report, Goto, ProgTypeOK
  <2>3. ASSUME Refused(a)
        PROVE  Shut
    <3>1. LastCall(a) = Get(a, made[a])
      BY <1>2 DEF LastCall
    <3>2. /\ pc[a] = "await"
          /\ posted[Get(a, made[a])] # <<>> /\ posted[Get(a, made[a])][1].ec = "closed"
      BY <2>3, <3>1 DEF Refused, Answered
    <3>3. made[a] \in 1 .. MaxGets
      BY <1>3, <3>2, ActorNames
    <3>4. Get(a, made[a]) \in Consumer
      BY <3>3, MessagesAssumption DEF XConsumer
    <3> QED BY <3>2, <3>4 DEF ChanInv, Drained, ToldClosed
  <2> QED BY <1>1, <1>3, <2>1, <2>2, <2>3
<1>7. CASE \E b \in Actors : b # a /\ (Act(b) \/ (PingDone /\ b = Ping))
  <2>1. PICK b \in Actors : b # a /\ (Act(b) \/ (PingDone /\ b = Ping))
    BY <1>7
  <2>2. PICK l \in Labels : pc' = [pc EXCEPT ![b] = l]
    BY <2>1, ActIsActorStep DEF ActorStep
  <2>3. made' = made \/ made' = [made EXCEPT ![b] = @ + 1]
    BY <2>1 DEF Act, Send, Stop, Receive, Report, PingDone
  <2>4. \/ submitted' = submitted
        \/ \E n : submitted' = submitted \cup {Msg(b, n)}
        \/ \E n : submitted' = submitted \cup {Get(b, n)}
    <3>1. CASE Send(b)
      BY <3>1 DEF Send, Arrive
    <3>2. CASE Receive(b)
      BY <3>2 DEF Receive, Arrive
    <3>3. CASE Stop(b) \/ Report(b) \/ PingDone
      BY <3>3 DEF Stop, Report, PingDone, vars
    <3> QED BY <2>1, <3>1, <3>2, <3>3 DEF Act
  <2>5. \A n, m : Get(a, n) # Msg(b, m) /\ Get(a, n) # Get(b, m)
    BY <2>1 DEF Get, Msg
  <2>6. pc'[a] = pc[a] /\ made'[a] = made[a]
    BY <1>2, <2>1, <2>2, <2>3 DEF ProgTypeOK
  <2>7. \A n \in 1 .. MaxGets : Get(a, n) \in submitted' => Get(a, n) \in submitted
    BY <2>4, <2>5
  <2> QED BY <1>4, <2>6, <2>7
<1>8. CASE \E b \in Coroutines : Notify(b) \/ Spawn(b)
  <2>1. PICK b \in Coroutines : Notify(b) \/ Spawn(b)
    BY <1>8
  <2>2. made' = made /\ submitted' = submitted
    BY <2>1 DEF Notify, Spawn, vars
  <2>3. \/ pc'[a] = pc[a]
        \/ pc[a] = "ending" /\ pc'[a] = "ended"
        \/ pc'[a] = "call"
    BY <1>2, <2>1 DEF Notify, Spawn, Goto, ProgTypeOK
  <2> QED BY <1>1, <1>3, <2>2, <2>3
<1>9. CASE Join \/ Test \/ Sleep \/ CloseLogs \/ Finish
  <2>1. pc' = pc /\ made' = made /\ submitted' = submitted
    BY <1>9 DEF Join, Test, Sleep, CloseLogs, Finish, vars
  <2> QED BY <1>4, <2>1
<1>10. CASE OtherStep
  <2>1. pc'[a] = pc[a] /\ made' = made /\ submitted' = submitted
    BY <1>2, <1>10, OtherStepKeepsActors DEF OtherStep
  <2> QED BY <1>4, <2>1
<1>11. CASE \E b \in Actors : Act(b) \/ (PingDone /\ b = Ping)
  <2>1. PICK b \in Actors : Act(b) \/ (PingDone /\ b = Ping)
    BY <1>11
  <2>2. CASE b = a
    BY <1>2, <1>5, <1>6, <2>1, <2>2 DEF Act
  <2> QED BY <1>7, <2>1, <2>2
<1> QED BY <1>8, <1>9, <1>10, <1>11, StepKinds

\* The coroutines that are active depend on the places of the coroutines only.
LEMMA ActiveUnchanged ==
  ASSUME \A a \in Coroutines : pc'[a] \notin {"unborn", "ended"}
                                 <=> pc[a] \notin {"unborn", "ended"}
  PROVE  Active' = Active
BY DEF Active

LEMMA ActiveFinite == IsFiniteSet(Active) /\ Cardinality(Active) \in Nat
<1>1. Active \subseteq Coroutines
  BY DEF Active
<1> QED BY <1>1, ActorNames, FS_Subset, FS_CardinalityType

LEMMA MainInvStep ==
  ASSUME ProgTypeOK, MainInv, [XNext]_allVars
  PROVE  MainInv'
<1>1. CASE \E a \in Actors : Act(a) \/ (PingDone /\ a = Ping)
  <2>1. PICK a \in Actors, l \in Labels : ActorStep(a, l)
    BY <1>1, ActIsActorStep
  <2>2. /\ pc[a] \in {"call", "await"}
        /\ pc' = [pc EXCEPT ![a] = l]
        /\ l \in {"call", "await", "ending"} \/ (a \in Threads /\ l = "ended")
        /\ main' = main /\ outstanding' = outstanding
    BY <2>1 DEF ActorStep
  <2>3. \A b \in Actors : pc'[b] = IF b = a THEN l ELSE pc[b]
    BY <2>2 DEF ProgTypeOK
  <2>4. Active' = Active
    BY <2>2, <2>3, ActiveUnchanged, ActorNames
  <2>5. main' # "spawn" => \A b \in Coroutines : pc'[b] # "unborn"
    BY <2>2, <2>3, ActorNames DEF MainInv
  <2>6. /\ main \notin {"close", "wait", "done"}
        /\ main' \notin {"spawn", "join"} => \A b \in Threads : pc'[b] = "ended"
    BY <2>2, <2>3, ActorNames DEF MainInv
  <2> QED BY <2>2, <2>4, <2>5, <2>6 DEF MainInv
<1>2. CASE \E a \in Coroutines : Notify(a)
  <2>1. PICK a \in Coroutines : Notify(a)
    BY <1>2
  <2>2. /\ pc[a] = "ending" /\ outstanding' = outstanding - 1
        /\ main' = main \/ (main = "asleep" /\ main' = "woken")
        /\ pc' = [pc EXCEPT ![a] = "ended"]
    BY <2>1 DEF Notify, Goto
  <2>3. \A b \in Actors : pc'[b] = IF b = a THEN "ended" ELSE pc[b]
    BY <2>2 DEF ProgTypeOK
  <2>4. a \in Active /\ Active' = Active \ {a}
    BY <2>2, <2>3, ActorNames DEF Active
  <2>5. outstanding' = Cardinality(Active')
    BY <2>2, <2>4, ActiveFinite, FS_RemoveElement DEF MainInv
  <2> QED BY <2>2, <2>3, <2>5, ActorNames DEF MainInv
<1>3. CASE \E a \in Coroutines : Spawn(a)
  <2>1. PICK a \in Coroutines : Spawn(a)
    BY <1>3
  <2>2. /\ pc[a] = "unborn" /\ outstanding' = outstanding + 1
        /\ pc' = [pc EXCEPT ![a] = "call"]
        /\ main = "spawn"
        /\ main' = IF \A b \in Coroutines : pc'[b] # "unborn" THEN "join" ELSE "spawn"
    BY <2>1 DEF Spawn, Goto, At, Become
  <2>3. \A b \in Actors : pc'[b] = IF b = a THEN "call" ELSE pc[b]
    BY <2>2 DEF ProgTypeOK
  <2>4. a \notin Active /\ Active' = Active \cup {a}
    BY <2>2, <2>3, ActorNames DEF Active
  <2>5. outstanding' = Cardinality(Active')
    BY <2>2, <2>4, ActiveFinite, FS_AddElement DEF MainInv
  <2> QED BY <2>2, <2>5 DEF MainInv
<1>4. CASE Join
  <2>1. /\ main = "join" /\ main' = "lock" /\ UNCHANGED <<pc, outstanding>>
        /\ \A a \in Threads : pc[a] = "ended"
    BY <1>4 DEF Join, At, Become
  <2>2. Active' = Active
    BY <2>1 DEF Active
  <2> QED BY <2>1, <2>2 DEF MainInv
<1>5. CASE Test
  <2>1. /\ main \in {"lock", "woken"} /\ UNCHANGED <<pc, outstanding>>
        /\ main' = IF outstanding = 0 THEN "close" ELSE "sleep"
    BY <1>5 DEF Test, At, Become
  <2>2. Active' = Active
    BY <2>1 DEF Active
  <2>3. ASSUME outstanding = 0
        PROVE  \A a \in Actors : pc[a] = "ended"
    <3>1. Active = {}
      BY <2>3, ActiveFinite, FS_EmptySet DEF MainInv
    <3>2. \A a \in Coroutines : pc[a] = "ended"
      BY <2>1, <3>1 DEF MainInv, Active
    <3> QED BY <2>1, <3>2, ActorNames DEF MainInv
  <2> QED BY <2>1, <2>2, <2>3 DEF MainInv
<1>6. CASE Sleep \/ CloseLogs \/ Finish
  <2>1. /\ UNCHANGED <<pc, outstanding>>
        /\ \/ main = "sleep" /\ main' = "asleep"
           \/ main = "close" /\ main' = "wait"
           \/ main = "wait" /\ main' = "done"
    BY <1>6 DEF Sleep, CloseLogs, Finish, At, Become
  <2>2. Active' = Active
    BY <2>1 DEF Active
  <2> QED BY <2>1, <2>2 DEF MainInv
<1>7. CASE OtherStep
  <2>1. /\ \A a \in Actors : pc'[a] = pc[a]
        /\ main' = main /\ outstanding' = outstanding
    BY <1>7, OtherStepKeepsActors DEF OtherStep
  <2>2. Active' = Active
    BY <2>1, ActiveUnchanged, ActorNames
  <2> QED BY <2>1, <2>2, ActorNames DEF MainInv
<1> QED BY <1>1, <1>2, <1>3, <1>4, <1>5, <1>6, <1>7, StepKinds

-----------------------------------------------------------------------------
(***************************************************************************)
(* The log.                                                                *)
(***************************************************************************)
Line(n) == <<"line", n>>
ToLogger(n) == <<"logger", n>>
TheClose == <<"close">>
TheStop == <<"stop">>
Closures ==
  {TheClose, TheStop} \cup {Line(n) : n \in Nat} \cup {ToLogger(n) : n \in Nat}

InStrand(f) == f \in Range(strand)
ForLogger(f) == f = TheStop \/ \E n \in Nat : f = ToLogger(n)

LogTypeOK ==
  /\ strand \in Seq(Closures) /\ IsInjective(strand)
  /\ unsent \in Seq(Nat) /\ logClosed \in BOOLEAN
  /\ written \in Nat /\ printed \in Nat

\* The logger runs when one closure is there to resume it, with the line that
\* follows the last one it wrote.
LoggerInv ==
  /\ pc["logger"] = "call" <=> \E f \in Closures : InStrand(f) /\ ForLogger(f)
  /\ \A f, g \in Closures :
       InStrand(f) /\ InStrand(g) /\ ForLogger(f) /\ ForLogger(g) => f = g
  /\ \A n \in Nat : InStrand(ToLogger(n)) => n = written + 1 \/ (n = 0 /\ written = 0)
  /\ \A n \in Nat : InStrand(Line(n)) => n <= printed

\* h is the last line handed to the logger: the lines that wait in the channel
\* and then those in the strand are the ones after h, in order.
LinesAfter(h) ==
  /\ h + Len(unsent) <= printed
  /\ \A n \in Nat : InStrand(ToLogger(n)) => n = h
  /\ (\A n \in Nat : ~InStrand(ToLogger(n))) => written = h
  /\ \A i \in DOMAIN unsent : unsent[i] = h + i
  /\ pc["logger"] = "await" => unsent = <<>>
  /\ \A n \in Nat : InStrand(Line(n)) <=> h + Len(unsent) < n /\ n <= printed
  /\ \A n, k \in Nat :
       InStrand(Line(n)) /\ InStrand(Line(k)) /\ n < k => Precedes(strand, Line(n), Line(k))

LinesInv == ~logClosed => \E h \in Nat : LinesAfter(h)

\* The log is closed only when main has stopped waiting for the others; no
\* line comes after the close in the strand.
ShutInv ==
  /\ logClosed => main \in {"wait", "done"} /\ unsent = <<>> /\ pc["logger"] # "await"
  /\ InStrand(TheClose) => main \in {"wait", "done"} /\ ~logClosed
  /\ InStrand(TheStop) \/ pc["logger"] = "ended" => logClosed
  /\ main \in {"wait", "done"} =>
       /\ logClosed \/ InStrand(TheClose)
       /\ \A n \in Nat : InStrand(Line(n)) => Precedes(strand, Line(n), TheClose)
  /\ main = "done" => pc["logger"] = "ended"

LogInv == LogTypeOK /\ LoggerInv /\ LinesInv /\ ShutInv

\* The closures are all different.
LEMMA ClosureNames ==
  /\ \A n, k : Line(n) = Line(k) => n = k
  /\ \A n, k : ToLogger(n) = ToLogger(k) => n = k
  /\ \A n, k : Line(n) # ToLogger(k)
  /\ \A n : Line(n) # TheClose /\ Line(n) # TheStop
  /\ \A n : ToLogger(n) # TheClose /\ ToLogger(n) # TheStop
  /\ TheClose # TheStop
  /\ \A n : Line(n)[1] = "line" /\ Line(n)[2] = n
  /\ \A n : ToLogger(n)[1] = "logger" /\ ToLogger(n)[2] = n
  /\ TheClose[1] = "close" /\ TheStop[1] = "stop"
  /\ TheClose \in Closures /\ TheStop \in Closures
  /\ \A n \in Nat : Line(n) \in Closures /\ ToLogger(n) \in Closures
<1>1. /\ \A n : Line(n)[1] = "line" /\ Line(n)[2] = n
      /\ \A n : ToLogger(n)[1] = "logger" /\ ToLogger(n)[2] = n
      /\ TheClose[1] = "close" /\ TheStop[1] = "stop"
  BY DEF Line, ToLogger, TheClose, TheStop
<1>2. /\ TheClose \in Closures /\ TheStop \in Closures
      /\ \A n \in Nat : Line(n) \in Closures /\ ToLogger(n) \in Closures
  BY DEF Closures
<1>3. /\ \A n, k : Line(n) = Line(k) => n = k
      /\ \A n, k : ToLogger(n) = ToLogger(k) => n = k
  BY <1>1
<1>4. /\ \A n, k : Line(n) # ToLogger(k)
      /\ \A n : Line(n) # TheClose /\ Line(n) # TheStop
      /\ \A n : ToLogger(n) # TheClose /\ ToLogger(n) # TheStop
      /\ TheClose # TheStop
  BY <1>1
<1> QED BY <1>1, <1>2, <1>3, <1>4

\* Appending a closure that is not there.
LEMMA Push ==
  ASSUME NEW s \in Seq(Closures), IsInjective(s), NEW f \in Closures, f \notin Range(s)
  PROVE  /\ Append(s, f) \in Seq(Closures) /\ IsInjective(Append(s, f))
         /\ \A g : g \in Range(Append(s, f)) <=> g \in Range(s) \/ g = f
         /\ \A g, k : Precedes(Append(s, f), g, k)
                        <=> Precedes(s, g, k) \/ (g \in Range(s) /\ k = f)
BY AppendDistinct, AppendPrecedes, AppendProperties

\* Running the closure at the head.
LEMMA Pop ==
  ASSUME NEW s \in Seq(Closures), IsInjective(s), s # <<>>
  PROVE  /\ Tail(s) \in Seq(Closures) /\ IsInjective(Tail(s))
         /\ Head(s) \in Closures /\ Head(s) \in Range(s)
         /\ \A g : g \in Range(Tail(s)) <=> g \in Range(s) /\ g # Head(s)
         /\ \A g, k : Precedes(Tail(s), g, k) <=> Precedes(s, g, k) /\ g # Head(s)
         /\ \A g : ~Precedes(s, g, Head(s))
BY TailDistinct, TailPrecedes, HeadTailProperties

\* Running the closure at the head, which leads to another one.
LEMMA PopPush ==
  ASSUME NEW s \in Seq(Closures), IsInjective(s), s # <<>>,
         NEW f \in Closures, f \in Range(s) => f = Head(s)
  PROVE  /\ Append(Tail(s), f) \in Seq(Closures) /\ IsInjective(Append(Tail(s), f))
         /\ \A g : g \in Range(Append(Tail(s), f))
                     <=> (g \in Range(s) /\ g # Head(s)) \/ g = f
         /\ \A g, k : Precedes(Append(Tail(s), f), g, k)
                        <=> \/ Precedes(s, g, k) /\ g # Head(s)
                            \/ g \in Range(s) /\ g # Head(s) /\ k = f
<1>1. PICK u : u = Tail(s)
  OBVIOUS
<1>2. /\ u \in Seq(Closures) /\ IsInjective(u)
      /\ \A g : g \in Range(u) <=> g \in Range(s) /\ g # Head(s)
      /\ \A g, k : Precedes(u, g, k) <=> Precedes(s, g, k) /\ g # Head(s)
  BY <1>1, Pop
<1>3. f \notin Range(u)
  BY <1>2
<1>4. /\ Append(u, f) \in Seq(Closures) /\ IsInjective(Append(u, f))
      /\ \A g : g \in Range(Append(u, f)) <=> g \in Range(u) \/ g = f
      /\ \A g, k : Precedes(Append(u, f), g, k)
                     <=> Precedes(u, g, k) \/ (g \in Range(u) /\ k = f)
  BY <1>2, <1>3, Push
<1>5. Append(Tail(s), f) = Append(u, f)
  BY <1>1
<1> QED BY <1>2, <1>4, <1>5

\* println() adds the next line.
LEMMA PrintStep ==
  ASSUME LogInv, Println, pc'["logger"] = pc["logger"],
         main \notin {"wait", "done"}, main' \notin {"wait", "done"}
  PROVE  LogInv'
<1> DEFINE f == Line(printed + 1)
<1>1. /\ printed' = printed + 1 /\ strand' = Append(strand, f)
      /\ UNCHANGED <<unsent, logClosed, written>>
  BY DEF Println, Line
<1>2. /\ strand \in Seq(Closures) /\ IsInjective(strand)
      /\ printed \in Nat /\ written \in Nat
      /\ ~logClosed /\ ~InStrand(TheClose) /\ ~InStrand(TheStop)
      /\ pc["logger"] # "ended"
  BY DEF LogInv, LogTypeOK, ShutInv
<1>3. f \in Closures /\ f \notin Range(strand)
  BY <1>2, ClosureNames DEF LogInv, LoggerInv, InStrand
<1>4. /\ strand' \in Seq(Closures) /\ IsInjective(strand')
      /\ \A g : InStrand(g)' <=> InStrand(g) \/ g = f
      /\ \A g, k : Precedes(strand', g, k)
                     <=> Precedes(strand, g, k) \/ (InStrand(g) /\ k = f)
  BY <1>1, <1>2, <1>3, Push DEF InStrand
<1>5. LogTypeOK'
  BY <1>1, <1>4 DEF LogInv, LogTypeOK
<1>6. ~ForLogger(f) /\ \A n : ToLogger(n) # f
  BY ClosureNames DEF ForLogger
<1>7. \A n : Line(n) = f <=> n = printed + 1
  BY ClosureNames
<1>8. TheClose # f /\ TheStop # f
  BY ClosureNames
<1> HIDE DEF f
<1>9. LoggerInv'
  <2>1. /\ \A g \in Closures : InStrand(g)' /\ ForLogger(g) <=> InStrand(g) /\ ForLogger(g)
        /\ \A n : InStrand(ToLogger(n))' <=> InStrand(ToLogger(n))
    BY <1>4, <1>6
  <2>2. \A n \in Nat : InStrand(Line(n))' => n <= printed'
    BY <1>1, <1>2, <1>4, <1>7 DEF LogInv, LoggerInv
  <2> QED BY <1>1, <2>1, <2>2 DEF LogInv, LoggerInv
<1>10. LinesInv'
  <2>1. PICK h \in Nat : LinesAfter(h)
    BY <1>2 DEF LogInv, LinesInv
  <2>2. Len(unsent) \in Nat /\ h + Len(unsent) <= printed
    BY <2>1 DEF LinesAfter, LogInv, LogTypeOK
  <2>3. \A n : InStrand(ToLogger(n))' <=> InStrand(ToLogger(n))
    BY <1>4, <1>6
  <2>4. \A n \in Nat : InStrand(Line(n))' <=> h + Len(unsent') < n /\ n <= printed'
    BY <1>1, <1>2, <1>4, <1>7, <2>1, <2>2 DEF LinesAfter
  <2>5. ASSUME NEW n \in Nat, NEW k \in Nat, InStrand(Line(n))', InStrand(Line(k))', n < k
        PROVE  Precedes(strand', Line(n), Line(k))
    <3>1. k <= printed + 1
      BY <1>1, <2>4, <2>5
    <3>2. InStrand(Line(n))
      BY <1>2, <1>4, <1>7, <2>5, <3>1
    <3>3. CASE Line(k) = f
      BY <1>4, <3>2, <3>3
    <3>4. CASE Line(k) # f
      BY <1>4, <2>1, <2>5, <3>2, <3>4 DEF LinesAfter
    <3> QED BY <3>3, <3>4
  <2>6. LinesAfter(h)'
    BY <1>1, <1>2, <2>1, <2>2, <2>3, <2>4, <2>5 DEF LinesAfter
  <2> QED BY <2>6 DEF LinesInv
<1>11. ShutInv'
  BY <1>1, <1>2, <1>4, <1>8 DEF ShutInv
<1> QED BY <1>5, <1>9, <1>10, <1>11 DEF LogInv

\* main closes the log: nothing is printed after that.
LEMMA CloseLogsStep ==
  ASSUME LogInv, CloseLogs
  PROVE  LogInv'
<1>1. /\ strand' = Append(strand, TheClose) /\ main = "close" /\ main' = "wait"
      /\ UNCHANGED <<pc, unsent, logClosed, written, printed>>
  BY DEF CloseLogs, TheClose, At, Become
<1>2. /\ strand \in Seq(Closures) /\ IsInjective(strand)
      /\ ~logClosed /\ ~InStrand(TheClose) /\ ~InStrand(TheStop)
      /\ pc["logger"] # "ended"
  BY <1>1 DEF LogInv, LogTypeOK, ShutInv
<1>3. TheClose \in Closures /\ TheClose \notin Range(strand)
  BY <1>2, ClosureNames DEF InStrand
<1>4. /\ strand' \in Seq(Closures) /\ IsInjective(strand')
      /\ \A g : InStrand(g)' <=> InStrand(g) \/ g = TheClose
      /\ \A g, k : Precedes(strand', g, k)
                     <=> Precedes(strand, g, k) \/ (InStrand(g) /\ k = TheClose)
  BY <1>1, <1>2, <1>3, Push DEF InStrand
<1>5. LogTypeOK'
  BY <1>1, <1>4 DEF LogInv, LogTypeOK
<1>6. /\ ~ForLogger(TheClose)
      /\ \A n : ToLogger(n) # TheClose /\ Line(n) # TheClose
      /\ TheStop # TheClose
  BY ClosureNames DEF ForLogger
<1>7. LoggerInv'
  <2>1. /\ \A g \in Closures : InStrand(g)' /\ ForLogger(g) <=> InStrand(g) /\ ForLogger(g)
        /\ \A n : InStrand(ToLogger(n))' <=> InStrand(ToLogger(n))
        /\ \A n : InStrand(Line(n))' <=> InStrand(Line(n))
    BY <1>4, <1>6
  <2> QED BY <1>1, <2>1 DEF LogInv, LoggerInv
<1>8. LinesInv'
  <2>1. PICK h \in Nat : LinesAfter(h)
    BY <1>2 DEF LogInv, LinesInv
  <2>2. /\ \A n : InStrand(ToLogger(n))' <=> InStrand(ToLogger(n))
        /\ \A n : InStrand(Line(n))' <=> InStrand(Line(n))
        /\ \A n, k : Precedes(strand', Line(n), Line(k)) <=> Precedes(strand, Line(n), Line(k))
    BY <1>4, <1>6
  <2>3. LinesAfter(h)'
    BY <1>1, <2>1, <2>2 DEF LinesAfter
  <2> QED BY <2>3 DEF LinesInv
<1>9. ShutInv'
  <2>1. \A n \in Nat : InStrand(Line(n))' => Precedes(strand', Line(n), TheClose)
    BY <1>4, <1>6
  <2> QED BY <1>1, <1>2, <1>4, <1>6, <2>1 DEF ShutInv
<1> QED BY <1>5, <1>7, <1>8, <1>9 DEF LogInv

\* The closure of println() runs: the line waits, unless the logger does or
\* the log is closed.
LEMMA SendLineStep ==
  ASSUME LogInv, ProgTypeOK, SendLine
  PROVE  LogInv'
<1>1. /\ strand \in Seq(Closures) /\ IsInjective(strand) /\ strand # <<>>
      /\ Head(strand)[1] = "line"
      /\ unsent \in Seq(Nat) /\ printed \in Nat /\ written \in Nat
      /\ UNCHANGED <<main, printed, logClosed, written>>
  BY DEF SendLine, Runs, Closure, LogInv, LogTypeOK
<1>2. /\ Head(strand) \in Closures /\ InStrand(Head(strand))
      /\ \A g : ~Precedes(strand, g, Head(strand))
  BY <1>1, Pop DEF InStrand
<1>3. PICK n \in Nat : Head(strand) = Line(n)
  BY <1>1, <1>2, ClosureNames DEF Closures
<1>4. Closure[2] = n
  BY <1>3, ClosureNames DEF Closure
<1>5. /\ \A k : ToLogger(k) # Line(n)
      /\ TheClose # Line(n) /\ TheStop # Line(n) /\ ~ForLogger(Line(n))
      /\ \A k : Line(k) = Line(n) <=> k = n
  BY ClosureNames DEF ForLogger
<1>6. ASSUME ~logClosed, NEW h \in Nat, LinesAfter(h)
      PROVE  n = h + Len(unsent) + 1 /\ n <= printed
  <2>1. Len(unsent) \in Nat
    BY <1>1
  <2>2. h + Len(unsent) < n /\ n <= printed
    BY <1>2, <1>3, <1>6 DEF LinesAfter
  <2>3. CASE h + Len(unsent) + 1 < n
    <3>1. PICK k \in Nat : k = h + Len(unsent) + 1
      BY <2>1
    <3>2. InStrand(Line(k))
      <4>1. h + Len(unsent) < k /\ k <= printed
        BY <1>1, <2>1, <2>2, <2>3, <3>1
      <4> QED BY <1>6, <4>1 DEF LinesAfter
    <3>3. Precedes(strand, Line(k), Line(n))
      BY <1>2, <1>3, <1>6, <2>3, <3>1, <3>2 DEF LinesAfter
    <3> QED BY <1>2, <1>3, <3>3
  <2> QED BY <2>1, <2>2, <2>3
<1>7. CASE pc["logger"] = "await"
  <2>1. /\ strand' = Append(Tail(strand), ToLogger(n))
        /\ unsent' = unsent /\ pc'["logger"] = "call"
    BY <1>4, <1>7 DEF SendLine, Resumes, Goto, ToLogger, ProgTypeOK
  <2>2. ~logClosed /\ ~InStrand(TheStop) /\ unsent = <<>>
    BY <1>7 DEF LogInv, ShutInv, LinesInv, LinesAfter
  <2>3. \A f \in Closures : ForLogger(f) => ~InStrand(f)
    BY <1>7 DEF LogInv, LoggerInv
  <2>4. \A k \in Nat : ~InStrand(ToLogger(k))
    BY <2>3, ClosureNames DEF ForLogger
  <2>5. ToLogger(n) \in Closures /\ ForLogger(ToLogger(n))
    BY ClosureNames DEF ForLogger
  <2>6. /\ strand' \in Seq(Closures) /\ IsInjective(strand')
        /\ \A g : InStrand(g)' <=> (InStrand(g) /\ g # Line(n)) \/ g = ToLogger(n)
        /\ \A g, k : Precedes(strand', g, k)
                       <=> \/ Precedes(strand, g, k) /\ g # Line(n)
                           \/ InStrand(g) /\ g # Line(n) /\ k = ToLogger(n)
    BY <1>1, <1>3, <2>1, <2>4, <2>5, PopPush DEF InStrand
  <2>7. PICK h \in Nat : LinesAfter(h)
    BY <2>2 DEF LogInv, LinesInv
  <2>8. written = h /\ n = h + 1 /\ n <= printed
    BY <1>6, <2>2, <2>4, <2>7 DEF LinesAfter
  <2>9. \A k : Line(k) # ToLogger(n) /\ (ToLogger(k) = ToLogger(n) <=> k = n)
    BY ClosureNames
  <2>10. TheClose # ToLogger(n) /\ TheStop # ToLogger(n)
    BY ClosureNames
  <2>11. /\ \A k : InStrand(Line(k))' <=> InStrand(Line(k)) /\ k # n
         /\ \A k \in Nat : InStrand(ToLogger(k))' <=> k = n
         /\ InStrand(TheClose)' <=> InStrand(TheClose)
         /\ InStrand(TheStop)' <=> InStrand(TheStop)
    BY <1>5, <2>4, <2>6, <2>9, <2>10
  <2>12. LogTypeOK'
    BY <1>1, <2>1, <2>6 DEF LogInv, LogTypeOK
  <2>13. LoggerInv'
    <3>1. \A f \in Closures : InStrand(f)' /\ ForLogger(f) <=> f = ToLogger(n)
      BY <2>3, <2>5, <2>6
    <3>2. /\ \A k \in Nat : InStrand(ToLogger(k))' => k = written' + 1
          /\ \A k \in Nat : InStrand(Line(k))' => k <= printed'
      BY <1>1, <2>8, <2>11 DEF LogInv, LoggerInv
    <3> QED BY <2>1, <2>5, <3>1, <3>2 DEF LoggerInv
  <2>14. LinesAfter(n)'
    <3>1. /\ Len(unsent') = 0 /\ DOMAIN unsent' = {}
      BY <2>1, <2>2
    <3>2. \A k \in Nat : InStrand(Line(k))' <=> n < k /\ k <= printed'
      <4>1. Len(unsent) = 0
        BY <2>2
      <4> QED BY <1>1, <2>7, <2>8, <2>11, <4>1 DEF LinesAfter
    <3>3. \A k, l \in Nat : InStrand(Line(k))' /\ InStrand(Line(l))' /\ k < l
                              => Precedes(strand', Line(k), Line(l))
      BY <1>5, <2>6, <2>7, <2>11 DEF LinesAfter
    <3>4. \A k \in Nat : InStrand(ToLogger(k))' => k = n
      BY <2>11
    <3>5. InStrand(ToLogger(n))'
      BY <2>11
    <3> QED BY <1>1, <2>1, <2>8, <3>1, <3>2, <3>3, <3>4, <3>5 DEF LinesAfter
  <2>15. ShutInv'
    <3>1. \A k : Precedes(strand, Line(k), TheClose) /\ k # n
                   => Precedes(strand', Line(k), TheClose)
      BY <1>5, <2>6
    <3> QED BY <1>1, <2>1, <2>2, <2>11, <3>1 DEF LogInv, ShutInv
  <2> QED BY <2>12, <2>13, <2>14, <2>15 DEF LogInv, LinesInv
<1>8. CASE pc["logger"] # "await"
  <2>1. /\ strand' = Tail(strand) /\ pc' = pc
        /\ unsent' = IF logClosed THEN unsent ELSE Append(unsent, n)
    BY <1>4, <1>8 DEF SendLine
  <2>2. /\ strand' \in Seq(Closures) /\ IsInjective(strand')
        /\ \A g : InStrand(g)' <=> InStrand(g) /\ g # Line(n)
        /\ \A g, k : Precedes(strand', g, k) <=> Precedes(strand, g, k) /\ g # Line(n)
    BY <1>1, <1>3, <2>1, Pop DEF InStrand
  <2>3. /\ \A k : InStrand(Line(k))' <=> InStrand(Line(k)) /\ k # n
        /\ \A k : InStrand(ToLogger(k))' <=> InStrand(ToLogger(k))
        /\ InStrand(TheClose)' <=> InStrand(TheClose)
        /\ InStrand(TheStop)' <=> InStrand(TheStop)
        /\ \A f : InStrand(f)' /\ ForLogger(f) <=> InStrand(f) /\ ForLogger(f)
    BY <1>5, <2>2
  <2>4. LogTypeOK'
    BY <1>1, <2>1, <2>2 DEF LogInv, LogTypeOK
  <2>5. LoggerInv'
    BY <1>1, <2>1, <2>3 DEF LogInv, LoggerInv
  <2>6. ASSUME ~logClosed
        PROVE  \E h \in Nat : LinesAfter(h)'
    <3>1. PICK h \in Nat : LinesAfter(h)
      BY <2>6 DEF LogInv, LinesInv
    <3>2. n = h + Len(unsent) + 1 /\ n <= printed /\ Len(unsent) \in Nat
      BY <1>1, <1>6, <2>6, <3>1
    <3>3. unsent' = Append(unsent, n)
      BY <2>1, <2>6
    <3>4. /\ Len(unsent') = Len(unsent) + 1
          /\ \A i \in DOMAIN unsent' : unsent'[i] = h + i
      <4>1. /\ DOMAIN unsent = 1 .. Len(unsent)
            /\ DOMAIN unsent' = 1 .. Len(unsent) + 1
            /\ Len(unsent') = Len(unsent) + 1
            /\ \A i \in 1 .. Len(unsent) : unsent'[i] = unsent[i]
            /\ unsent'[Len(unsent) + 1] = n
        BY <1>1, <3>3, AppendProperties
      <4>2. \A i \in 1 .. Len(unsent) : unsent[i] = h + i
        BY <3>1, <4>1 DEF LinesAfter
      <4>3. \A i \in 1 .. Len(unsent) + 1 : i \in 1 .. Len(unsent) \/ i = Len(unsent) + 1
        BY <3>2
      <4> QED BY <3>2, <4>1, <4>2, <4>3
    <3>5. \A k \in Nat : InStrand(Line(k))' <=> h + Len(unsent') < k /\ k <= printed'
      BY <1>1, <2>3, <3>1, <3>2, <3>4 DEF LinesAfter
    <3>6. \A k, l \in Nat : InStrand(Line(k))' /\ InStrand(Line(l))' /\ k < l
                              => Precedes(strand', Line(k), Line(l))
      BY <1>5, <2>2, <2>3, <3>1 DEF LinesAfter
    <3>7. LinesAfter(h)'
      BY <1>1, <1>8, <2>1, <2>3, <3>1, <3>2, <3>4, <3>5, <3>6 DEF LinesAfter
    <3> QED BY <3>7
  <2>7. ShutInv'
    <3>1. \A k : Precedes(strand, Line(k), TheClose) /\ k # n
                   => Precedes(strand', Line(k), TheClose)
      BY <1>5, <2>2
    <3>2. logClosed => unsent' = unsent
      BY <2>1
    <3> QED BY <1>1, <2>1, <2>3, <3>1, <3>2 DEF LogInv, ShutInv
  <2> QED BY <1>1, <2>4, <2>5, <2>6, <2>7 DEF LogInv, LinesInv
<1> QED BY <1>7, <1>8

\* The close of the log runs: all lines have run before it.
LEMMA RunCloseLogsStep ==
  ASSUME LogInv, ProgTypeOK, RunCloseLogs
  PROVE  LogInv'
<1>1. /\ strand \in Seq(Closures) /\ IsInjective(strand) /\ strand # <<>>
      /\ Head(strand)[1] = "close"
      /\ unsent' = <<>> /\ logClosed' = TRUE
      /\ printed \in Nat /\ written \in Nat
      /\ UNCHANGED <<main, printed, written>>
  BY DEF RunCloseLogs, Runs, Closure, LogInv, LogTypeOK
<1>2. /\ Head(strand) \in Closures /\ InStrand(Head(strand))
      /\ \A g : ~Precedes(strand, g, Head(strand))
  BY <1>1, Pop DEF InStrand
<1>3. Head(strand) = TheClose
  BY <1>1, <1>2, ClosureNames DEF Closures
<1>4. /\ main \in {"wait", "done"} /\ ~logClosed
      /\ \A n \in Nat : ~InStrand(Line(n))
      /\ ~InStrand(TheStop) /\ pc["logger"] # "ended" /\ main # "done"
  BY <1>2, <1>3 DEF LogInv, ShutInv
<1>5. /\ \A k : ToLogger(k) # TheClose /\ Line(k) # TheClose
      /\ \A k : ToLogger(k) # TheStop /\ Line(k) # TheStop
      /\ TheStop # TheClose /\ ~ForLogger(TheClose)
      /\ TheStop \in Closures /\ ForLogger(TheStop)
  BY ClosureNames DEF ForLogger
<1>6. CASE pc["logger"] = "await"
  <2>1. strand' = Append(Tail(strand), TheStop) /\ pc'["logger"] = "call"
    BY <1>6 DEF RunCloseLogs, Resumes, Goto, TheStop, ProgTypeOK
  <2>2. /\ strand' \in Seq(Closures) /\ IsInjective(strand')
        /\ \A g : InStrand(g)' <=> (InStrand(g) /\ g # TheClose) \/ g = TheStop
    BY <1>1, <1>3, <1>4, <1>5, <2>1, PopPush DEF InStrand
  <2>3. \A f \in Closures : ForLogger(f) => ~InStrand(f)
    BY <1>6 DEF LogInv, LoggerInv
  <2>4. LogTypeOK'
    BY <1>1, <2>2 DEF LogInv, LogTypeOK
  <2>5. /\ \A f \in Closures : InStrand(f)' /\ ForLogger(f) <=> f = TheStop
        /\ \A n \in Nat : ~InStrand(ToLogger(n))'
        /\ \A n \in Nat : ~InStrand(Line(n))'
        /\ ~InStrand(TheClose)'
    <3>1. \A n \in Nat : ToLogger(n) \in Closures /\ ForLogger(ToLogger(n))
      BY ClosureNames DEF ForLogger
    <3> QED BY <1>4, <1>5, <2>2, <2>3, <3>1
  <2>6. LoggerInv'
    BY <1>5, <2>1, <2>5 DEF LoggerInv
  <2>7. ShutInv'
    BY <1>1, <1>4, <2>1, <2>5 DEF ShutInv
  <2> QED BY <1>1, <2>4, <2>6, <2>7 DEF LogInv, LinesInv
<1>7. CASE pc["logger"] # "await"
  <2>1. strand' = Tail(strand) /\ pc' = pc
    BY <1>7 DEF RunCloseLogs
  <2>2. /\ strand' \in Seq(Closures) /\ IsInjective(strand')
        /\ \A g : InStrand(g)' <=> InStrand(g) /\ g # TheClose
    BY <1>1, <1>3, <2>1, Pop DEF InStrand
  <2>3. LogTypeOK'
    BY <1>1, <2>2 DEF LogInv, LogTypeOK
  <2>4. /\ \A f : InStrand(f)' /\ ForLogger(f) <=> InStrand(f) /\ ForLogger(f)
        /\ \A n : InStrand(ToLogger(n))' <=> InStrand(ToLogger(n))
        /\ \A n \in Nat : ~InStrand(Line(n))'
        /\ ~InStrand(TheClose)'
    BY <1>4, <1>5, <2>2
  <2>5. LoggerInv'
    BY <1>1, <2>1, <2>4 DEF LogInv, LoggerInv
  <2>6. ShutInv'
    BY <1>1, <1>4, <1>7, <2>1, <2>4 DEF ShutInv
  <2> QED BY <1>1, <2>3, <2>5, <2>6 DEF LogInv, LinesInv
<1> QED BY <1>6, <1>7

\* The closure that resumes the logger with a line.
LEMMA LogHead ==
  ASSUME LogInv, Log
  PROVE  \E n \in Nat :
           /\ Head(strand) = ToLogger(n) /\ InStrand(ToLogger(n)) /\ written' = n
           /\ strand \in Seq(Closures) /\ IsInjective(strand) /\ strand # <<>>
           /\ pc["logger"] = "call"
           /\ \A f \in Closures : InStrand(f) /\ ForLogger(f) => f = ToLogger(n)
           /\ n = written + 1 \/ n = written
<1>1. /\ strand \in Seq(Closures) /\ IsInjective(strand) /\ strand # <<>>
      /\ Head(strand)[1] = "logger" /\ written' = Head(strand)[2]
  BY DEF Log, Runs, Closure, LogInv, LogTypeOK
<1>2. Head(strand) \in Closures /\ InStrand(Head(strand))
  BY <1>1, Pop DEF InStrand
<1>3. PICK n \in Nat : Head(strand) = ToLogger(n)
  BY <1>1, <1>2, ClosureNames DEF Closures
<1>4. written' = n
  BY <1>1, <1>3, ClosureNames
<1>5. ToLogger(n) \in Closures /\ ForLogger(ToLogger(n))
  BY ClosureNames DEF ForLogger
<1>6. /\ pc["logger"] = "call"
      /\ \A f \in Closures : InStrand(f) /\ ForLogger(f) => f = ToLogger(n)
      /\ n = written + 1 \/ n = written
  BY <1>2, <1>3, <1>5 DEF LogInv, LoggerInv
<1> QED BY <1>1, <1>2, <1>3, <1>4, <1>6

\* The logger writes a line and asks for the next.
LEMMA LogStep ==
  ASSUME LogInv, ProgTypeOK, Log
  PROVE  LogInv'
<1>1. PICK n \in Nat :
        /\ Head(strand) = ToLogger(n) /\ InStrand(ToLogger(n)) /\ written' = n
        /\ strand \in Seq(Closures) /\ IsInjective(strand) /\ strand # <<>>
        /\ pc["logger"] = "call"
        /\ \A f \in Closures : InStrand(f) /\ ForLogger(f) => f = ToLogger(n)
        /\ n = written + 1 \/ n = written
  BY LogHead
<1>2. /\ unsent \in Seq(Nat) /\ printed \in Nat
      /\ UNCHANGED <<main, printed, logClosed>>
  BY DEF Log, Runs, LogInv, LogTypeOK
<1>3. /\ \A k : Line(k) # ToLogger(n)
      /\ TheClose # ToLogger(n) /\ TheStop # ToLogger(n)
      /\ ToLogger(n) \in Closures /\ ForLogger(ToLogger(n))
      /\ TheStop \in Closures /\ ForLogger(TheStop)
      /\ \A k \in Nat : ToLogger(k) \in Closures /\ ForLogger(ToLogger(k))
      /\ \A k, l : ToLogger(k) = ToLogger(l) => k = l
      /\ \A k, l : Line(k) # ToLogger(l)
      /\ \A k : TheClose # ToLogger(k) /\ TheStop # ToLogger(k) /\ Line(k) # TheStop
      /\ TheClose # TheStop
  BY ClosureNames DEF ForLogger
<1>4. ~InStrand(TheStop) /\ main # "done"
  BY <1>1, <1>3 DEF LogInv, ShutInv
<1>5. \A k \in Nat : InStrand(ToLogger(k)) => k = n
  BY <1>1, <1>3
<1>6. ASSUME NEW h \in Nat, LinesAfter(h)
      PROVE  n = h
  BY <1>1, <1>6 DEF LinesAfter
<1>7. CASE unsent # <<>>
  <2>1. PICK m \in Nat : m = Head(unsent)
    BY <1>2, <1>7
  <2>2. /\ strand' = Append(Tail(strand), ToLogger(m))
        /\ unsent' = Tail(unsent) /\ pc' = pc
    BY <1>7, <2>1 DEF Log, Ask, Resumes, ToLogger
  <2>3. ~logClosed
    BY <1>7 DEF LogInv, ShutInv
  <2>4. PICK h \in Nat : LinesAfter(h)
    BY <2>3 DEF LogInv, LinesInv
  <2>5. /\ Len(unsent) \in Nat /\ Len(unsent) > 0
        /\ DOMAIN unsent = 1 .. Len(unsent) /\ Head(unsent) = unsent[1]
        /\ unsent' \in Seq(Nat) /\ Len(unsent') = Len(unsent) - 1
        /\ DOMAIN unsent' = 1 .. Len(unsent) - 1
        /\ \A i \in 1 .. Len(unsent) - 1 : unsent'[i] = unsent[i + 1]
    BY <1>2, <1>7, <2>2, EmptySeq, HeadTailProperties
  <2>6. \A i \in 1 .. Len(unsent) : unsent[i] = h + i
    BY <2>4, <2>5 DEF LinesAfter
  <2>7. m = h + 1 /\ n = h
    BY <1>6, <2>1, <2>4, <2>5, <2>6
  <2>8. ~InStrand(ToLogger(m))
    BY <1>5, <2>7
  <2>9. /\ strand' \in Seq(Closures) /\ IsInjective(strand')
        /\ \A g : InStrand(g)' <=> (InStrand(g) /\ g # ToLogger(n)) \/ g = ToLogger(m)
        /\ \A g, k : Precedes(strand', g, k)
                       <=> \/ Precedes(strand, g, k) /\ g # ToLogger(n)
                           \/ InStrand(g) /\ g # ToLogger(n) /\ k = ToLogger(m)
    BY <1>1, <1>3, <2>2, <2>8, PopPush DEF InStrand
  <2>10. /\ \A k : InStrand(Line(k))' <=> InStrand(Line(k))
         /\ \A k \in Nat : InStrand(ToLogger(k))' <=> k = m
         /\ InStrand(TheClose)' <=> InStrand(TheClose)
         /\ ~InStrand(TheStop)'
         /\ \A f \in Closures : InStrand(f)' /\ ForLogger(f) <=> f = ToLogger(m)
    BY <1>1, <1>3, <1>4, <1>5, <2>9
  <2>11. \A k, l : Precedes(strand, Line(k), l) => Precedes(strand', Line(k), l)
    BY <1>3, <2>9
  <2>12. LogTypeOK'
    BY <1>1, <1>2, <2>5, <2>9 DEF LogInv, LogTypeOK
  <2>13. LoggerInv'
    <3>1. \A k \in Nat : InStrand(ToLogger(k))' => k = written' + 1
      BY <1>1, <2>7, <2>10
    <3>2. \A k \in Nat : InStrand(Line(k))' => k <= printed'
      BY <1>2, <2>10 DEF LogInv, LoggerInv
    <3> QED BY <1>1, <1>3, <2>2, <2>10, <3>1, <3>2 DEF LoggerInv
  <2>14. LinesAfter(m)'
    <3>1. m + Len(unsent') = h + Len(unsent)
      BY <2>5, <2>7
    <3>2. \A i \in DOMAIN unsent' : unsent'[i] = m + i
      <4> SUFFICES ASSUME NEW i \in 1 .. Len(unsent) - 1 PROVE unsent'[i] = m + i
        BY <2>5
      <4>1. i + 1 \in 1 .. Len(unsent) /\ unsent'[i] = unsent[i + 1]
        BY <2>5
      <4> QED BY <2>6, <2>7, <4>1
    <3>3. \A k \in Nat : InStrand(Line(k))' <=> m + Len(unsent') < k /\ k <= printed'
      BY <1>2, <2>4, <2>10, <3>1 DEF LinesAfter
    <3>4. \A k, l \in Nat : InStrand(Line(k))' /\ InStrand(Line(l))' /\ k < l
                              => Precedes(strand', Line(k), Line(l))
      BY <2>4, <2>10, <2>11 DEF LinesAfter
    <3>5. m + Len(unsent') <= printed'
      BY <1>2, <2>4, <3>1 DEF LinesAfter
    <3>6. pc'["logger"] = "call"
      BY <1>1, <2>2
    <3> QED BY <2>10, <3>2, <3>3, <3>4, <3>5, <3>6 DEF LinesAfter
  <2>15. ShutInv'
    BY <1>1, <1>2, <1>4, <2>2, <2>3, <2>10, <2>11 DEF LogInv, ShutInv
  <2> QED BY <2>12, <2>13, <2>14, <2>15 DEF LogInv, LinesInv
<1>8. CASE unsent = <<>> /\ logClosed
  <2>1. /\ strand' = Append(Tail(strand), TheStop)
        /\ unsent' = unsent /\ pc' = pc
    BY <1>8 DEF Log, Ask, Resumes, TheStop
  <2>2. /\ strand' \in Seq(Closures) /\ IsInjective(strand')
        /\ \A g : InStrand(g)' <=> (InStrand(g) /\ g # ToLogger(n)) \/ g = TheStop
        /\ \A g, k : Precedes(strand', g, k)
                       <=> \/ Precedes(strand, g, k) /\ g # ToLogger(n)
                           \/ InStrand(g) /\ g # ToLogger(n) /\ k = TheStop
    BY <1>1, <1>3, <1>4, <2>1, PopPush DEF InStrand
  <2>3. /\ \A k : InStrand(Line(k))' <=> InStrand(Line(k))
        /\ \A k \in Nat : ~InStrand(ToLogger(k))'
        /\ InStrand(TheClose)' <=> InStrand(TheClose)
        /\ \A f \in Closures : InStrand(f)' /\ ForLogger(f) <=> f = TheStop
    BY <1>1, <1>3, <1>4, <1>5, <2>2
  <2>4. \A k, l : Precedes(strand, Line(k), l) => Precedes(strand', Line(k), l)
    BY <1>3, <2>2
  <2>5. LogTypeOK'
    BY <1>1, <1>2, <2>1, <2>2 DEF LogInv, LogTypeOK
  <2>6. LoggerInv'
    BY <1>1, <1>2, <1>3, <2>1, <2>3 DEF LogInv, LoggerInv
  <2>7. ShutInv'
    BY <1>1, <1>2, <1>4, <1>8, <2>1, <2>3, <2>4 DEF LogInv, ShutInv
  <2> QED BY <1>2, <1>8, <2>5, <2>6, <2>7 DEF LogInv, LinesInv
<1>9. CASE unsent = <<>> /\ ~logClosed
  <2>1. /\ strand' = Tail(strand)
        /\ unsent' = unsent /\ pc'["logger"] = "await"
    BY <1>9 DEF Log, Ask, Goto, ProgTypeOK
  <2>2. /\ strand' \in Seq(Closures) /\ IsInjective(strand')
        /\ \A g : InStrand(g)' <=> InStrand(g) /\ g # ToLogger(n)
        /\ \A g, k : Precedes(strand', g, k) <=> Precedes(strand, g, k) /\ g # ToLogger(n)
    BY <1>1, <2>1, Pop DEF InStrand
  <2>3. /\ \A k : InStrand(Line(k))' <=> InStrand(Line(k))
        /\ \A k \in Nat : ~InStrand(ToLogger(k))'
        /\ InStrand(TheClose)' <=> InStrand(TheClose)
        /\ ~InStrand(TheStop)'
        /\ \A f \in Closures : ~(InStrand(f)' /\ ForLogger(f))
    BY <1>1, <1>3, <1>4, <1>5, <2>2
  <2>4. \A k, l : Precedes(strand, Line(k), l) => Precedes(strand', Line(k), l)
    BY <1>3, <2>2
  <2>5. LogTypeOK'
    BY <1>1, <1>2, <2>1, <2>2 DEF LogInv, LogTypeOK
  <2>6. LoggerInv'
    BY <1>2, <2>1, <2>3 DEF LogInv, LoggerInv
  <2>7. PICK h \in Nat : LinesAfter(h)
    BY <1>9 DEF LogInv, LinesInv
  <2>8. LinesAfter(h)'
    <3>1. written' = h
      BY <1>1, <1>6, <2>7
    <3>2. \A k, l \in Nat : InStrand(Line(k))' /\ InStrand(Line(l))' /\ k < l
                              => Precedes(strand', Line(k), Line(l))
      BY <2>3, <2>4, <2>7 DEF LinesAfter
    <3> QED BY <1>2, <1>9, <2>1, <2>3, <2>7, <3>1, <3>2 DEF LinesAfter
  <2>9. ShutInv'
    BY <1>2, <1>4, <1>9, <2>1, <2>3, <2>4 DEF LogInv, ShutInv
  <2> QED BY <2>5, <2>6, <2>8, <2>9 DEF LogInv, LinesInv
<1> QED BY <1>7, <1>8, <1>9, <1>2

\* The logger is told of the close and ends.
LEMMA LoggerDoneStep ==
  ASSUME LogInv, ProgTypeOK, LoggerDone
  PROVE  LogInv'
<1>1. /\ strand \in Seq(Closures) /\ IsInjective(strand) /\ strand # <<>>
      /\ Head(strand)[1] = "stop"
      /\ strand' = Tail(strand) /\ pc'["logger"] = "ended"
      /\ UNCHANGED <<unsent, logClosed, written, main, printed>>
  BY DEF LoggerDone, Runs, Closure, Goto, ProgTypeOK, LogInv, LogTypeOK
<1>2. Head(strand) \in Closures /\ InStrand(Head(strand))
  BY <1>1, Pop DEF InStrand
<1>3. Head(strand) = TheStop
  BY <1>1, <1>2, ClosureNames DEF Closures
<1>4. logClosed /\ main \in {"wait", "done"} /\ unsent = <<>>
  BY <1>2, <1>3 DEF LogInv, ShutInv
<1>5. /\ strand' \in Seq(Closures) /\ IsInjective(strand')
      /\ \A g : InStrand(g)' <=> InStrand(g) /\ g # TheStop
      /\ \A g, k : Precedes(strand', g, k) <=> Precedes(strand, g, k) /\ g # TheStop
  BY <1>1, <1>3, Pop DEF InStrand
<1>6. /\ TheStop \in Closures /\ ForLogger(TheStop) /\ TheClose # TheStop
      /\ \A k \in Nat : ToLogger(k) \in Closures /\ ForLogger(ToLogger(k))
      /\ \A k : Line(k) # TheStop /\ ToLogger(k) # TheStop
  BY ClosureNames DEF ForLogger
<1>7. \A f \in Closures : InStrand(f) /\ ForLogger(f) => f = TheStop
  BY <1>2, <1>3, <1>6 DEF LogInv, LoggerInv
<1>8. /\ \A f \in Closures : ~(InStrand(f)' /\ ForLogger(f))
      /\ \A k \in Nat : ~InStrand(ToLogger(k))'
      /\ \A k : InStrand(Line(k))' <=> InStrand(Line(k))
      /\ InStrand(TheClose)' <=> InStrand(TheClose)
  BY <1>5, <1>6, <1>7
<1>9. LogTypeOK'
  BY <1>1, <1>5 DEF LogInv, LogTypeOK
<1>10. LoggerInv'
  BY <1>1, <1>8 DEF LogInv, LoggerInv
<1>11. ShutInv'
  <2>1. \A k : Precedes(strand, Line(k), TheClose) => Precedes(strand', Line(k), TheClose)
    BY <1>5, <1>6
  <2> QED BY <1>1, <1>4, <1>8, <2>1 DEF LogInv, ShutInv
<1> QED BY <1>1, <1>4, <1>9, <1>10, <1>11 DEF LogInv, LinesInv

\* A step that leaves the log alone, such as the end of main.
LEMMA QuietStep ==
  ASSUME LogInv, UNCHANGED <<printed, logVars>>, pc'["logger"] = pc["logger"],
         main' \in {"wait", "done"} <=> main \in {"wait", "done"},
         main' = "done" => main = "done" \/ pc["logger"] = "ended"
  PROVE  LogInv'
<1>1. UNCHANGED <<strand, unsent, logClosed, written, printed>>
  BY DEF logVars
<1>2. LogTypeOK' /\ LoggerInv'
  BY <1>1 DEF LogInv, LogTypeOK, LoggerInv, InStrand
<1>3. \A h : LinesAfter(h)' <=> LinesAfter(h)
  BY <1>1 DEF LinesAfter, InStrand
<1>4. LinesInv'
  BY <1>1, <1>3 DEF LogInv, LinesInv
<1>5. ShutInv'
  BY <1>1 DEF LogInv, ShutInv, InStrand
<1> QED BY <1>2, <1>4, <1>5 DEF LogInv

LEMMA LogInvStep ==
  ASSUME ProgTypeOK, MainInv, LogInv, [XNext]_allVars
  PROVE  LogInv'
<1>1. CASE \E a \in Actors : Act(a) \/ (PingDone /\ a = Ping)
  <2>1. PICK a \in Actors : Act(a) \/ (PingDone /\ a = Ping)
    BY <1>1
  <2>2. PICK l \in Labels : ActorStep(a, l)
    BY <2>1, ActIsActorStep
  <2>3. pc'["logger"] = pc["logger"] /\ main' = main
    BY <2>2, ActorNames DEF ActorStep, ProgTypeOK
  <2>4. main \notin {"wait", "done"}
    BY <2>2 DEF ActorStep, MainInv
  <2>5. Println \/ UNCHANGED <<printed, logVars>>
    BY <2>1 DEF Act, Send, Stop, Receive, Report, PingDone
  <2> QED BY <2>3, <2>4, <2>5, PrintStep, QuietStep
<1>2. CASE \E a \in Coroutines : Notify(a) \/ Spawn(a)
  <2>1. PICK a \in Coroutines : Notify(a) \/ Spawn(a)
    BY <1>2
  <2>2. pc'["logger"] = pc["logger"]
    BY <2>1, ActorNames DEF Notify, Spawn, Goto, ProgTypeOK
  <2>3. /\ UNCHANGED <<printed, logVars>>
        /\ \/ main' = main
           \/ main = "asleep" /\ main' = "woken"
           \/ main = "spawn" /\ main' \in {"join", "spawn"}
    BY <2>1 DEF Notify, Spawn, At, Become
  <2> QED BY <2>2, <2>3, QuietStep
<1>3. CASE Join \/ Test
  <2>1. /\ Println /\ pc' = pc
        /\ main \notin {"wait", "done"} /\ main' \notin {"wait", "done"}
    BY <1>3 DEF Join, Test, At, Become
  <2> QED BY <2>1, PrintStep
<1>4. CASE Sleep \/ Finish
  <2>1. /\ UNCHANGED <<printed, logVars>> /\ pc' = pc
        /\ \/ main = "sleep" /\ main' = "asleep"
           \/ main = "wait" /\ main' = "done" /\ pc["logger"] = "ended"
    BY <1>4 DEF Sleep, Finish, At, Become
  <2> QED BY <2>1, QuietStep
<1>5. CASE CloseLogs
  BY <1>5, CloseLogsStep
<1>6. CASE Strand
  BY <1>6, SendLineStep, RunCloseLogsStep, LogStep, LoggerDoneStep DEF Strand
<1>7. CASE Timeout
  <2>1. pc'["logger"] = pc["logger"] /\ main' = main /\ UNCHANGED <<printed, logVars>>
    BY <1>7 DEF Timeout, Goto, ProgTypeOK
  <2> QED BY <2>1, QuietStep
<1>8. CASE UNCHANGED progVars
  <2>1. pc' = pc /\ main' = main /\ UNCHANGED <<printed, logVars>>
    BY <1>8 DEF progVars
  <2> QED BY <2>1, QuietStep
<1>9. RunCloseMessages => UNCHANGED progVars
  BY DEF RunCloseMessages
<1>10. UNCHANGED allVars => UNCHANGED progVars
  BY DEF allVars
<1> QED BY <1>1, <1>2, <1>3, <1>4, <1>5, <1>6, <1>7, <1>8, <1>9, <1>10, ActorNames
        DEF XNext, Main

-----------------------------------------------------------------------------
(***************************************************************************)
(* The theorems.                                                           *)
(***************************************************************************)
XInv == ChanInv /\ ProgTypeOK /\ ConsumersInv /\ MainInv /\ LogInv

LEMMA XInvInit ==
  ASSUME XInit
  PROVE  XInv
<1>1. /\ closed = [c \in Chan |-> FALSE] /\ buffer = [c \in Chan |-> <<>>]
      /\ ahead = [o \in {} |-> {}] /\ submitted = {}
      /\ posted = [k \in Call |-> <<>>]
      /\ pc = [a \in Actors \cup {"timeout", "logger"} |->
                 IF a \in Coroutines THEN "unborn" ELSE "call"]
      /\ made = [a \in Actors \cup {"logger"} |-> 0]
      /\ main = "spawn" /\ outstanding = 0 /\ printed = 0
      /\ strand = <<ToLogger(0)>> /\ unsent = <<>> /\ ~logClosed /\ written = 0
      /\ logClosed \in BOOLEAN
  BY DEF XInit, Init, ToLogger
<1>2. ChanInv
  <2>1. ChanTypeOK
    BY <1>1 DEF ChanTypeOK
  <2>2. \A k \in Call : posted[k] = <<>> /\ ~Waits(k)
    BY <1>1 DEF Waits
  <2>3. Messages = <<>> /\ Range(Messages) = {} /\ IsInjective(Messages)
    <3>1. Messages = <<>>
      BY <1>1, Names DEF Messages
    <3>2. \A s : s = <<>> => DOMAIN s = {}
      OBVIOUS
    <3> QED BY <3>1, <3>2 DEF Range, IsInjective
  <2>4. \A k \in Call : ~Sent(k) /\ ~ToldClosed(k) /\ \A p : ~Got(k, p)
    BY <2>2 DEF Sent, ToldClosed, Got
  <2>5. Producer \subseteq Call /\ Consumer \subseteq Call
    BY Names DEF IoOp
  <2> QED BY <2>1, <2>2, <2>3, <2>4, <2>5
          DEF ChanInv, AnsweredOnce, MessagePlaces, Drained
<1>3. ProgTypeOK
  BY <1>1 DEF ProgTypeOK, Labels
<1>4. ConsumersInv
  <2>1. \A a \in Consumers : pc[a] = "unborn" /\ made[a] = 0
    BY <1>1, ActorNames
  <2> QED BY <1>1, <2>1, ActorNames DEF ConsumersInv
<1>5. MainInv
  <2>1. \A a \in Coroutines : pc[a] = "unborn"
    BY <1>1, ActorNames
  <2>2. Active = {}
    BY <2>1 DEF Active
  <2> QED BY <1>1, <2>2, FS_EmptySet DEF MainInv
<1>6. LogInv
  <2>1. /\ strand \in Seq(Closures) /\ Len(strand) = 1 /\ strand[1] = ToLogger(0)
        /\ DOMAIN strand = {1}
    BY <1>1, ClosureNames
  <2>2. IsInjective(strand) /\ \A f : InStrand(f) <=> f = ToLogger(0)
    BY <2>1 DEF IsInjective, InStrand, Range
  <2>3. /\ \A n : Line(n) # ToLogger(0) /\ (ToLogger(n) = ToLogger(0) <=> n = 0)
        /\ TheClose # ToLogger(0) /\ TheStop # ToLogger(0)
        /\ ToLogger(0) \in Closures /\ ForLogger(ToLogger(0))
    BY ClosureNames DEF ForLogger
  <2>4. pc["logger"] = "call"
    BY <1>1, ActorNames
  <2>5. LogTypeOK
    BY <1>1, <2>1, <2>2 DEF LogTypeOK
  <2>6. LoggerInv
    BY <1>1, <2>2, <2>3, <2>4 DEF LoggerInv
  <2>7. LinesAfter(0)
    <3>1. Len(unsent) = 0 /\ DOMAIN unsent = {}
      BY <1>1
    <3> QED BY <1>1, <2>2, <2>3, <2>4, <3>1 DEF LinesAfter
  <2>8. ShutInv
    BY <1>1, <2>2, <2>3, <2>4 DEF ShutInv
  <2> QED BY <2>5, <2>6, <2>7, <2>8 DEF LogInv, LinesInv
<1> QED BY <1>2, <1>3, <1>4, <1>5, <1>6 DEF XInv

LEMMA XInvStep == XInv /\ [XNext]_allVars => XInv'
BY ChanInvStep, ProgTypeStep, ConsumersInvStep, MainInvStep, LogInvStep DEF XInv

LEMMA XInvariant == XSpec => []XInv
BY XInvInit, XInvStep, PTL DEF XSpec

\* When main returns, every thread and coroutine has ended, and the strand of
\* the log holds no line that would use the dangling logger_
\* (cross-threads.cpp:30, 42, 134-138, 187).
THEOREM EverybodyHasStopped == XSpec => []NothingLeft
<1>1. XInv => NothingLeft
  <2> SUFFICES ASSUME XInv, main = "done" PROVE NothingLeft
    BY DEF NothingLeft, At
  <2>1. \A a \in Actors : pc[a] = "ended"
    BY DEF XInv, MainInv
  <2>2. logClosed /\ ~InStrand(TheClose)
    BY DEF XInv, LogInv, ShutInv
  <2>3. \A n \in Nat : ~InStrand(Line(n))
    <3> SUFFICES ASSUME NEW n \in Nat, InStrand(Line(n)) PROVE FALSE
      OBVIOUS
    <3>1. Precedes(strand, Line(n), TheClose)
      BY DEF XInv, LogInv, ShutInv
    <3> QED BY <2>2, <3>1 DEF Precedes, InStrand, Range
  <2>4. ASSUME NEW i \in DOMAIN strand
        PROVE  strand[i][1] # "line"
    <3>1. strand[i] \in Closures /\ InStrand(strand[i])
      BY DEF XInv, LogInv, LogTypeOK, InStrand, Range
    <3> QED BY <2>3, <3>1, ClosureNames DEF Closures
  <2> QED BY <2>1, <2>4 DEF NothingLeft
<1> QED BY <1>1, XInvariant, PTL

\* When main stops waiting, a message whose send succeeded has been received
\* by exactly one consumer, and one whose send failed by none, as long as there
\* is a consumer (cross-threads.cpp:93-103).
THEOREM SentIsReceived ==
  ASSUME Consumers # {}
  PROVE  XSpec => []MessagesArrive
<1>1. XInv => MessagesArrive
  <2> SUFFICES ASSUME XInv, main = "close", NEW p \in Producer, posted[p] # <<>>
               PROVE  Cardinality(Takers(p)) = IF posted[p][1].ec = "ok" THEN 1 ELSE 0
    BY DEF MessagesArrive, At
  <2>1. Messages = <<>>
    <3>1. PICK a \in Consumers : TRUE
      OBVIOUS
    <3>2. pc[a] = "ended"
      BY ActorNames DEF XInv, MainInv
    <3> QED BY <3>2 DEF XInv, ConsumersInv, Shut
  <2>2. p \notin Range(Messages)
    BY <2>1 DEF Range
  <2>3. \A a : a \in Takers(p) <=>
                 a \in Consumers /\ \E n \in 1 .. made[a] : Got(Get(a, n), p)
    <3>1. ASSUME NEW a \in Consumers, NEW n \in 1 .. made[a]
          PROVE  (\E i \in DOMAIN posted[Get(a, n)] : posted[Get(a, n)][i].val = p)
                   <=> Got(Get(a, n), p)
      <4>1. n \in 1 .. MaxGets
        BY ActorNames DEF XInv, ConsumersInv, ProgTypeOK
      <4>2. Get(a, n) \in Call
        BY <4>1, MessagesAssumption DEF XCall, XConsumer
      <4>3. CASE posted[Get(a, n)] = <<>>
        BY <4>3 DEF Got
      <4>4. CASE \E r \in Result : posted[Get(a, n)] = <<r>>
        <5>1. PICK r \in Result : posted[Get(a, n)] = <<r>>
          BY <4>4
        <5> QED BY <5>1 DEF Got
      <4> QED BY <4>2, <4>3, <4>4 DEF XInv, ChanInv, AnsweredOnce
    <3> QED BY <3>1 DEF Takers
  <2>4. CASE posted[p][1].ec = "ok"
    <3>1. PICK o \in Consumer : Got(o, p)
      BY <2>2, <2>4 DEF XInv, ChanInv, MessagePlaces, Sent
    <3>2. PICK a \in Consumers, n \in 1 .. MaxGets : o = Get(a, n)
      BY MessagesAssumption DEF XConsumer
    <3>3. o \in submitted
      BY <3>1, Names DEF XInv, ChanInv, AnsweredOnce, Got, IoOp
    <3>4. n \in 1 .. made[a]
      BY <3>2, <3>3, ActorNames DEF XInv, ConsumersInv, ProgTypeOK
    <3>5. a \in Takers(p)
      BY <2>3, <3>1, <3>2, <3>4
    <3>6. ASSUME NEW b \in Takers(p)
          PROVE  b = a
      <4>1. PICK m \in 1 .. made[b] : Got(Get(b, m), p)
        BY <2>3
      <4>2. b \in Consumers /\ m \in 1 .. MaxGets
        BY <2>3, ActorNames DEF XInv, ConsumersInv, ProgTypeOK
      <4>3. Get(b, m) \in Consumer
        BY <4>2, MessagesAssumption DEF XConsumer
      <4>4. Get(b, m) = Get(a, n)
        BY <3>1, <3>2, <4>1, <4>3 DEF XInv, ChanInv, MessagePlaces
      <4> QED BY <4>4 DEF Get
    <3>7. Takers(p) = {a}
      BY <3>5, <3>6
    <3> QED BY <2>4, <3>7, FS_Singleton
  <2>5. CASE posted[p][1].ec # "ok"
    <3>1. \A o \in Consumer : ~Got(o, p)
      BY <2>5 DEF XInv, ChanInv, MessagePlaces, Sent
    <3>2. Takers(p) = {}
      <4> SUFFICES ASSUME NEW b \in Takers(p) PROVE FALSE
        OBVIOUS
      <4>1. PICK m \in 1 .. made[b] : Got(Get(b, m), p)
        BY <2>3
      <4>2. b \in Consumers /\ m \in 1 .. MaxGets
        BY <2>3, ActorNames DEF XInv, ConsumersInv, ProgTypeOK
      <4>3. Get(b, m) \in Consumer
        BY <4>2, MessagesAssumption DEF XConsumer
      <4> QED BY <3>1, <4>1, <4>3
    <3> QED BY <2>5, <3>2, FS_EmptySet
  <2> QED BY <2>4, <2>5
<1> QED BY <1>1, XInvariant, PTL

\* The logger writes the lines in the order in which they were printed, without
\* a gap (cross-threads.cpp:39-50 and 105-123).
THEOREM LinesInOrder == XSpec => LogIsPrefix
<1>1. XInv /\ [XNext]_allVars => [written' = written + 1]_written
  <2> SUFFICES ASSUME XInv, [XNext]_allVars, written' # written
               PROVE  written' = written + 1
    OBVIOUS
  <2>1. Log
    BY DEF XNext, Main, Strand, Act, Send, Stop, Receive, Report, PingDone, Notify,
           Spawn, Timeout, RunCloseMessages, Join, Test, Sleep, CloseLogs, Finish,
           SendLine, RunCloseLogs, LoggerDone, Println, allVars, progVars, logVars
  <2> QED BY <2>1, LogHead DEF XInv
<1>2. [written' = written + 1]_written => [written' # written => written' = written + 1]_written
  OBVIOUS
<1> QED BY <1>1, <1>2, XInvariant, PTL DEF XSpec, LogIsPrefix
=============================================================================
