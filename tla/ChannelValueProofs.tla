------------------------- MODULE ChannelValueProofs -------------------------
(***************************************************************************)
(* Theorems about the values that pass through the channels: where they    *)
(* are, in which order they go, and what waits for them.  Every step of    *)
(* Channel is then, under the mapping of ChannelRefinement, a step of      *)
(* ChannelAbs or none at all.                                              *)
(***************************************************************************)
EXTENDS ChannelRefinement, ChannelProofs, FiniteSetTheorems

-----------------------------------------------------------------------------
(***************************************************************************)
(* What a step of a flush does to the calls, the queues and the buffer.    *)
(***************************************************************************)
\* The calls of the results rs complete, each for the first time.
Finishes(rs) ==
  /\ rs \subseteq Outcome
  /\ \A r, s \in rs : CallOf[r.which] = CallOf[s.which] => r = s
  /\ \A k \in Call :
       \/ \E r \in rs : /\ CallOf[r.which] = k
                        /\ ~completed[k] /\ completed'[k]
                        /\ posted[k] = <<>> /\ posted'[k] = <<r>>
       \/ /\ \A r \in rs : CallOf[r.which] # k
          /\ completed'[k] = completed[k] /\ posted'[k] = posted[k]

\* At most the heads of c are popped, and only when their calls are completed.
Dropped(c) ==
  /\ producers' = producers \/ (/\ producers[c] # <<>>
                                /\ completed[CallOf[FrontProducer(c)]]
                                /\ PopProducer(c))
  /\ consumers' = consumers \/ (/\ consumers[c] # <<>>
                                /\ completed[CallOf[FrontConsumer(c)]]
                                /\ PopConsumer(c))
  /\ buffer' = buffer
  /\ Finishes({})

\* The first producer of a closed channel fails.
Cancelled(c) ==
  /\ closed[c]
  /\ producers[c] # <<>> /\ PopProducer(c)
  /\ UNCHANGED <<buffer, consumers>>
  /\ Finishes({ChannelClosed(FrontProducer(c))})

\* The first consumer of a closed and drained channel fails.
Refused(c) ==
  /\ closed[c] /\ buffer[c] = <<>>
  /\ consumers[c] # <<>> /\ PopConsumer(c)
  /\ UNCHANGED <<buffer, producers>>
  /\ Finishes({ChannelClosed(FrontConsumer(c))})

\* The first consumer gets the oldest value of the buffer.
Delivered(c) ==
  /\ buffer[c] # <<>> /\ buffer' = [buffer EXCEPT ![c] = Tail(@)]
  /\ consumers[c] # <<>> /\ PopConsumer(c)
  /\ producers' = producers
  /\ Finishes({Ok(FrontConsumer(c), Head(buffer[c]))})

\* The value of the first producer enters the buffer.
Accepted(c) ==
  /\ ~closed[c] /\ Len(buffer[c]) < Capacity[c]
  /\ producers[c] # <<>> /\ PopProducer(c)
  /\ buffer' = [buffer EXCEPT ![c] = Append(@, FrontProducer(c))]
  /\ consumers' = consumers
  /\ Finishes({Ok(FrontProducer(c), NoValue)})

\* The value of the first producer goes to the first consumer.
Transferred(c) ==
  /\ ~closed[c] /\ buffer[c] = <<>>
  /\ producers[c] # <<>> /\ PopProducer(c)
  /\ consumers[c] # <<>> /\ PopConsumer(c)
  /\ CallOf[FrontProducer(c)] # CallOf[FrontConsumer(c)]
  /\ UNCHANGED buffer
  /\ Finishes({Ok(FrontProducer(c), NoValue), Ok(FrontConsumer(c), FrontProducer(c))})

\* A call that is not completed has no result yet.
LEMMA NotYetPosted ==
  ASSUME TypeOK, CompletedOnce, NEW k \in Call, ~completed[k]
  PROVE  posted[k] = <<>>
<1>1. posted[k] \in Seq(Outcome) /\ Len(posted[k]) = 0
  BY DEF TypeOK, CompletedOnce
<1> QED BY <1>1, EmptySeq

\* A step that leaves the calls alone finishes none.
LEMMA FinishesNothing ==
  ASSUME UNCHANGED callVars
  PROVE  Finishes({})
  BY DEF Finishes, callVars

\* Completing a call that is not done finishes it.
LEMMA CompleteFinishes ==
  ASSUME TypeOK, CompletedOnce, NEW r \in Outcome, ~completed[CallOf[r.which]],
         Complete(CallOf[r.which], r)
  PROVE  Finishes({r})
<1> DEFINE k == CallOf[r.which]
<1>1. k \in Call
  BY FunctionsAssumption DEF Outcome
<1>2. posted[k] = <<>>
  BY <1>1, NotYetPosted
<1>3. posted'[k] = <<r>> /\ completed'[k]
  <2>1. posted'[k] = Append(posted[k], r)
    BY <1>1 DEF Complete, TypeOK
  <2> QED BY <1>1, <1>2, <2>1 DEF Complete, TypeOK
<1>4. \A l \in Call : l # k => completed'[l] = completed[l] /\ posted'[l] = posted[l]
  BY DEF Complete, TypeOK
<1> QED BY <1>1, <1>2, <1>3, <1>4 DEF Finishes

\* The two results of a transfer finish two calls.
LEMMA TransferFinishes ==
  ASSUME TypeOK, CompletedOnce, NEW c \in Chan, TransferTurn(c),
         CallOf[FrontProducer(c)] # CallOf[FrontConsumer(c)],
         ~completed[CallOf[FrontProducer(c)]], ~completed[CallOf[FrontConsumer(c)]],
         completed' = [completed EXCEPT ![CallOf[FrontProducer(c)]] = TRUE,
                                        ![CallOf[FrontConsumer(c)]] = TRUE],
         posted' = [[posted EXCEPT ![CallOf[FrontProducer(c)]] =
                                     Append(@, Ok(FrontProducer(c), NoValue))]
                     EXCEPT ![CallOf[FrontConsumer(c)]] =
                              Append(@, Ok(FrontConsumer(c), FrontProducer(c)))]
  PROVE  Finishes({Ok(FrontProducer(c), NoValue),
                   Ok(FrontConsumer(c), FrontProducer(c))})
<1> DEFINE p == FrontProducer(c)
           o == FrontConsumer(c)
           rp == Ok(p, NoValue)
           ro == Ok(o, p)
<1>1. /\ p \in Producer /\ p \in IoOp /\ CallOf[p] \in Call
      /\ o \in IoOp /\ CallOf[o] \in Call
  BY HeadsType DEF TransferTurn, IoOp
<1>2. rp \in Outcome /\ ro \in Outcome
  BY <1>1, OutcomeType
<1>3. rp.which = p /\ ro.which = o
  BY DEF Ok
<1>4. posted[CallOf[p]] = <<>> /\ posted[CallOf[o]] = <<>>
  BY <1>1, NotYetPosted
<1>5. \A k \in Call : posted'[k] = IF k = CallOf[p] THEN Append(posted[k], rp)
                                 ELSE IF k = CallOf[o] THEN Append(posted[k], ro)
                                 ELSE posted[k]
  BY <1>1 DEF TypeOK
<1>6. \A k \in Call : completed'[k] = IF k = CallOf[p] \/ k = CallOf[o] THEN TRUE
                                    ELSE completed[k]
  BY <1>1 DEF TypeOK
<1> HIDE DEF p, o, rp, ro
<1>7. posted'[CallOf[p]] = <<rp>> /\ completed'[CallOf[p]]
  <2>1. posted'[CallOf[p]] = Append(<<>>, rp)
    BY <1>1, <1>4, <1>5
  <2>2. Append(<<>>, rp) = <<rp>>
    OBVIOUS
  <2>3. completed'[CallOf[p]]
    BY <1>1, <1>6
  <2> QED BY <2>1, <2>2, <2>3
<1>8. posted'[CallOf[o]] = <<ro>> /\ completed'[CallOf[o]]
  <2>1. posted'[CallOf[o]] = Append(<<>>, ro)
    BY <1>1, <1>4, <1>5 DEF p, o
  <2>2. Append(<<>>, ro) = <<ro>>
    OBVIOUS
  <2>3. completed'[CallOf[o]]
    BY <1>1, <1>6
  <2> QED BY <2>1, <2>2, <2>3
<1>9. \A k \in Call : k # CallOf[p] /\ k # CallOf[o]
                        => completed'[k] = completed[k] /\ posted'[k] = posted[k]
  BY <1>5, <1>6 DEF TypeOK
<1>10. Finishes({rp, ro})
  <2>1. \A r, s \in {rp, ro} : CallOf[r.which] = CallOf[s.which] => r = s
    BY <1>3 DEF p, o
  <2>2. ASSUME NEW k \in Call
        PROVE  \/ \E r \in {rp, ro} : /\ CallOf[r.which] = k
                                      /\ ~completed[k] /\ completed'[k]
                                      /\ posted[k] = <<>> /\ posted'[k] = <<r>>
               \/ /\ \A r \in {rp, ro} : CallOf[r.which] # k
                  /\ completed'[k] = completed[k] /\ posted'[k] = posted[k]
    <3>1. CASE k = CallOf[p]
      BY <1>3, <1>4, <1>7, <3>1 DEF p
    <3>2. CASE k = CallOf[o]
      BY <1>3, <1>4, <1>8, <3>2 DEF o
    <3>3. CASE k # CallOf[p] /\ k # CallOf[o]
      BY <1>3, <1>9, <3>3
    <3> QED BY <3>1, <3>2, <3>3
  <2> QED BY <1>2, <2>1, <2>2 DEF Finishes
<1> QED BY <1>10 DEF p, o, rp, ro

\* What a step of the flush of c does, as its callers see it.
FlushEffect(c) ==
  /\ UNCHANGED <<closed, polled, unsubmitted, arrived>>
  /\ \/ Dropped(c) \/ Cancelled(c) \/ Refused(c)
     \/ Delivered(c) \/ Accepted(c) \/ Transferred(c)

\* Each turn of the loop has one of these effects.
LEMMA FlushHasEffect ==
  ASSUME SafeUse, TypeOK, CallsInv, NEW t \in Thread, NEW c \in Chan,
         FlushStep(t, c)
  PROVE  FlushEffect(c)
<1> USE DEF userVars
<1>1. CASE LockHeads(t, c) \/ FlushDone(t, c)
  BY <1>1, FinishesNothing
  DEF LockHeads, FlushDone, chanVars, FlushEffect, Dropped
<1>2. CASE Cancel(t, c)
  <2> DEFINE p == FrontProducer(c)
  <2>1. closed[c] /\ producers[c] # <<>> /\ PopProducer(c)
        /\ UNCHANGED <<closed, polled, unsubmitted, arrived, buffer, consumers>>
        /\ CompleteUnlessDone(p, ChannelClosed(p))
    BY <1>2 DEF Cancel, CancelTurn
  <2>2. ChannelClosed(p) \in Outcome /\ ChannelClosed(p).which = p
    BY <2>1, HeadsType, OutcomeType DEF ChannelClosed, IoOp
  <2>3. CASE completed[CallOf[p]]
    BY <2>1, <2>3, FinishesNothing DEF CompleteUnlessDone, FlushEffect, Dropped
  <2>4. CASE ~completed[CallOf[p]]
    BY <2>1, <2>2, <2>4, CompleteFinishes
    DEF CompleteUnlessDone, FlushEffect, Cancelled, CallsInv
  <2> QED BY <2>3, <2>4
<1>3. CASE Serve(t, c)
  <2> DEFINE o == FrontConsumer(c)
  <2>1. closed[c] /\ consumers[c] # <<>> /\ PopConsumer(c)
        /\ UNCHANGED <<closed, polled, unsubmitted, arrived, producers>>
    BY <1>3 DEF Serve, ServeTurn
  <2>2. /\ o \in IoOp
        /\ ChannelClosed(o) \in Outcome /\ ChannelClosed(o).which = o
    BY <2>1, HeadsType, OutcomeType DEF ChannelClosed, IoOp
  <2>3. CASE completed[CallOf[o]]
    BY <1>3, <2>1, <2>3, FinishesNothing
    DEF Serve, CompleteUnlessDone, FlushEffect, Dropped
  <2>4. CASE ~completed[CallOf[o]] /\ buffer[c] = <<>>
    BY <1>3, <2>1, <2>2, <2>4, CompleteFinishes
    DEF Serve, CompleteUnlessDone, FlushEffect, Refused, CallsInv
  <2>5. CASE ~completed[CallOf[o]] /\ buffer[c] # <<>>
    <3>1. /\ Ok(o, Head(buffer[c])) \in Outcome
          /\ Ok(o, Head(buffer[c])).which = o
      BY <2>2, <2>5, HeadsType, OutcomeType DEF Ok
    <3>2. /\ Complete(CallOf[o], Ok(o, Head(buffer[c])))
          /\ buffer' = [buffer EXCEPT ![c] = Tail(@)]
      BY <1>3, <2>5 DEF Serve
    <3>3. Finishes({Ok(o, Head(buffer[c]))})
      BY <2>5, <3>1, <3>2, CompleteFinishes DEF CallsInv
    <3> QED BY <2>1, <2>5, <3>2, <3>3 DEF FlushEffect, Delivered
  <2> QED BY <2>3, <2>4, <2>5
<1>4. CASE Accept(t, c)
  <2> DEFINE p == FrontProducer(c)
  <2>1. /\ ~closed[c] /\ Len(buffer[c]) < Capacity[c]
        /\ producers[c] # <<>> /\ PopProducer(c)
        /\ UNCHANGED <<closed, polled, unsubmitted, arrived, consumers>>
        /\ CompleteUnlessDone(p, Ok(p, NoValue))
    BY <1>4 DEF Accept, AcceptTurn
  <2>2. Ok(p, NoValue) \in Outcome /\ Ok(p, NoValue).which = p
    BY <2>1, HeadsType, OutcomeType DEF Ok, IoOp
  <2>3. CASE completed[CallOf[p]]
    BY <1>4, <2>1, <2>3, FinishesNothing
    DEF Accept, CompleteUnlessDone, FlushEffect, Dropped
  <2>4. CASE ~completed[CallOf[p]]
    <3>1. Finishes({Ok(p, NoValue)})
      BY <2>1, <2>2, <2>4, CompleteFinishes DEF CompleteUnlessDone, CallsInv
    <3> QED BY <1>4, <2>1, <2>4, <3>1 DEF Accept, FlushEffect, Accepted
  <2> QED BY <2>3, <2>4
<1>5. CASE Deliver(t, c)
  <2> DEFINE o == FrontConsumer(c)
             r == Ok(o, Head(buffer[c]))
  <2>1. /\ buffer[c] # <<>> /\ consumers[c] # <<>> /\ PopConsumer(c)
        /\ UNCHANGED <<closed, polled, unsubmitted, arrived, producers>>
        /\ CompleteUnlessDone(o, r)
    BY <1>5 DEF Deliver, DeliverTurn
  <2>2. r \in Outcome /\ r.which = o
    BY <2>1, HeadsType, OutcomeType DEF Ok, IoOp
  <2>3. CASE completed[CallOf[o]]
    BY <1>5, <2>1, <2>3, FinishesNothing
    DEF Deliver, CompleteUnlessDone, FlushEffect, Dropped
  <2>4. CASE ~completed[CallOf[o]]
    <3>1. Finishes({r})
      BY <2>1, <2>2, <2>4, CompleteFinishes DEF CompleteUnlessDone, CallsInv
    <3> QED BY <1>5, <2>1, <2>4, <3>1 DEF Deliver, FlushEffect, Delivered
  <2> QED BY <2>3, <2>4
<1>6. CASE TransferValue(t, c)
  <2> DEFINE p == FrontProducer(c)
             o == FrontConsumer(c)
  <2>1. /\ TransferTurn(c) /\ PopProducer(c) /\ PopConsumer(c)
        /\ ~completed[CallOf[p]] /\ ~completed[CallOf[o]]
        /\ UNCHANGED <<closed, buffer, polled, unsubmitted, arrived>>
    BY <1>6 DEF TransferValue
  <2>2. /\ p \in Producer /\ o \in Consumer
        /\ producers[c] # <<>> /\ consumers[c] # <<>>
    BY <2>1, HeadsType DEF TransferTurn
  <2>3. ChanOf[p] = c /\ ChanOf[o] = c
    BY <2>1, <2>2, PopProducerDistinct, PopConsumerDistinct DEF CallsInv
  <2>4. CallOf[p] # CallOf[o]
    BY <1>6, <2>2, <2>3 DEF TransferValue, HeadsLocked, MeetsItself, SafeUse, NoMixedTie
  <2>5. Finishes({Ok(p, NoValue), Ok(o, p)})
    BY <1>6, <2>1, <2>4, TransferFinishes DEF TransferValue, CallsInv
  <2> QED BY <2>1, <2>2, <2>4, <2>5 DEF TransferTurn, FlushEffect, Transferred
<1>7. CASE TransferDropsStale(t, c)
  BY <1>7, FinishesNothing
  DEF TransferDropsStale, TransferTurn, FlushEffect, Dropped
<1> QED BY <1>1, <1>2, <1>3, <1>4, <1>5, <1>6, <1>7 DEF FlushStep

\* A poll that takes from the first producer finishes its call.
LEMMA PollFinishes ==
  ASSUME TypeOK, CallsInv, NEW q \in Poller, PollProducer(q)
  PROVE  Finishes({Ok(FrontProducer(Target[q]), NoValue)})
<1> DEFINE c == Target[q]
           p == FrontProducer(c)
<1>1. c \in Chan
  BY FunctionsAssumption
<1>2. producers[c] # <<>> /\ PopProducer(c) /\ Complete(CallOf[p], Ok(p, NoValue))
  BY DEF PollProducer
<1>3. p \in Producer /\ p \in IoOp
  BY <1>1, <1>2, HeadsType DEF IoOp
<1>4. ChanOf[p] = c /\ p \in Range(producers[c])
  BY <1>1, <1>2, PopProducerDistinct, TailDistinct
  DEF CallsInv, QueuedOnce, TypeOK, FrontProducer
<1>5. ~completed[CallOf[p]]
  BY <1>3, <1>4 DEF CallsInv, PollsFindLive, Pending
<1>6. Ok(p, NoValue) \in Outcome /\ Ok(p, NoValue).which = p
  BY <1>3, OutcomeType DEF Ok
<1> QED BY <1>2, <1>5, <1>6, CompleteFinishes DEF CallsInv

\* What the steps outside the flushes do: a submission queues an operation.
Submitted(o) ==
  /\ \/ o \in Producer /\ SubmitProduce(o)
     \/ o \in Consumer /\ SubmitConsume(o)
  /\ UNCHANGED <<closed, buffer, completed, posted, polled>>

\* A close leaves the queues, the buffers and the calls alone.
ClosedOnly(c) ==
  /\ closed' = [closed EXCEPT ![c] = TRUE]
  /\ UNCHANGED <<buffer, producers, consumers, completed, posted, unsubmitted,
                 polled, arrived>>

\* A step that the queues, the buffers and the calls do not take part in.
Quiet ==
  UNCHANGED <<closed, buffer, producers, consumers, completed, posted, unsubmitted,
              polled, arrived>>

\* Every step has one of these effects.
LEMMA NextHasEffect ==
  ASSUME SafeUse, TypeOK, CallsInv, [Next]_vars
  PROVE  \/ \E c \in Chan : FlushEffect(c)
         \/ \E o \in IoOp : Submitted(o)
         \/ \E c \in Chan : ClosedOnly(c)
         \/ \E q \in Poller : ConsumeIf(q)
         \/ Quiet
<1> USE DEF chanVars, callVars
<1>1. CASE \E t \in Thread, c \in Chan : FlushStep(t, c)
  BY <1>1, FlushHasEffect
<1>2. CASE \E p \in Producer : SubmitProduce(p)
  <2>1. PICK p \in Producer : SubmitProduce(p)
    BY <1>2
  <2>2. Submitted(p) /\ p \in IoOp
    BY <2>1 DEF SubmitProduce, Submit, Submitted, IoOp
  <2> QED BY <2>2
<1>3. CASE \E o \in Consumer : SubmitConsume(o)
  <2>1. PICK o \in Consumer : SubmitConsume(o)
    BY <1>3
  <2>2. Submitted(o) /\ o \in IoOp
    BY <2>1 DEF SubmitConsume, Submit, Submitted, IoOp
  <2> QED BY <2>2
<1>4. CASE \E t \in Closer : CallClose(t) \/ RunClose(t) \/ CloseAgain(t)
  <2>1. PICK t \in Closer : CallClose(t) \/ RunClose(t) \/ CloseAgain(t)
    BY <1>4
  <2>2. Target[t] \in Chan
    BY FunctionsAssumption
  <2> QED BY <2>1, <2>2 DEF CallClose, RunClose, CloseAgain, ClosedOnly, Quiet
<1>5. CASE UNCHANGED vars
  BY <1>5 DEF vars, Quiet
<1> QED BY <1>1, <1>2, <1>3, <1>4, <1>5 DEF Next, Stopped

-----------------------------------------------------------------------------
(***************************************************************************)
(* A channel without slots, as its callers see it.                         *)
(***************************************************************************)
\* A leg of call k was submitted.
Begun(k) == \E o \in IoOp \ unsubmitted : CallOf[o] = k

\* Operation o was submitted to channel c, and its call is not completed.
Live(o, c) == ChanOf[o] = c /\ o \notin unsubmitted /\ ~completed[CallOf[o]]

\* The call of o ends with the result r; no other call ends.
Ends(o, r) ==
  /\ completed' = [completed EXCEPT ![CallOf[o]] = TRUE]
  /\ posted' = [posted EXCEPT ![CallOf[o]] = <<r>>]

\* The calls of p and o end, and the value of p goes to o.
Meets(p, o) ==
  /\ CallOf[p] # CallOf[o]
  /\ completed' = [completed EXCEPT ![CallOf[p]] = TRUE, ![CallOf[o]] = TRUE]
  /\ posted' = [posted EXCEPT ![CallOf[p]] = <<Ok(p, NoValue)>>,
                              ![CallOf[o]] = <<Ok(o, p)>>]

\* What a step of the flush of c does to the calls.
Outward(c) ==
  /\ UNCHANGED <<closed, unsubmitted>>
  /\ \/ UNCHANGED <<completed, posted>>
     \/ closed[c] /\ \E o \in IoOp : Live(o, c) /\ Ends(o, ChannelClosed(o))
     \/ /\ ~closed[c]
        /\ \E p \in Producer, o \in Consumer :
             Live(p, c) /\ Live(o, c) /\ Meets(p, o)

\* The results of a step, as changes of the two variables of the calls.
LEMMA FinishesNoneExcept ==
  ASSUME TypeOK, TypeOK', Finishes({})
  PROVE  UNCHANGED <<completed, posted>>
<1>1. \A k \in Call : completed'[k] = completed[k] /\ posted'[k] = posted[k]
  BY DEF Finishes
<1> QED BY <1>1 DEF TypeOK

LEMMA FinishesOneExcept ==
  ASSUME TypeOK, TypeOK', NEW o \in IoOp, NEW r, r.which = o, Finishes({r})
  PROVE  ~completed[CallOf[o]] /\ Ends(o, r)
<1> DEFINE k == CallOf[o]
<1>1. k \in Call
  BY FunctionsAssumption
<1>2. ~completed[k] /\ completed'[k] /\ posted'[k] = <<r>>
  BY <1>1 DEF Finishes
<1>3. \A l \in Call \ {k} : completed'[l] = completed[l] /\ posted'[l] = posted[l]
  BY DEF Finishes
<1>4. completed'[k] = TRUE
  BY <1>1, <1>2 DEF TypeOK
<1> HIDE DEF k
<1>5. completed' = [completed EXCEPT ![k] = TRUE]
  BY <1>1, <1>3, <1>4 DEF TypeOK
<1>6. posted' = [posted EXCEPT ![k] = <<r>>]
  BY <1>1, <1>2, <1>3 DEF TypeOK
<1> QED BY <1>2, <1>5, <1>6 DEF Ends, k

LEMMA FinishesTwoExcept ==
  ASSUME TypeOK, TypeOK', NEW p \in Producer, NEW o \in Consumer,
         CallOf[p] # CallOf[o], Finishes({Ok(p, NoValue), Ok(o, p)})
  PROVE  ~completed[CallOf[p]] /\ ~completed[CallOf[o]] /\ Meets(p, o)
<1> DEFINE k == CallOf[p]
           l == CallOf[o]
           rp == Ok(p, NoValue)
           ro == Ok(o, p)
<1>1. k \in Call /\ l \in Call /\ k # l
  BY FunctionsAssumption DEF IoOp
<1>2. rp.which = p /\ ro.which = o
  BY DEF Ok
<1>3. Finishes({rp, ro})
  OBVIOUS
<1> HIDE DEF rp, ro
<1>4. ~completed[k] /\ completed'[k] /\ posted'[k] = <<rp>>
  <2>1. \E r \in {rp, ro} : /\ CallOf[r.which] = k
                            /\ ~completed[k] /\ completed'[k] /\ posted'[k] = <<r>>
    BY <1>1, <1>2, <1>3 DEF Finishes
  <2> QED BY <1>1, <1>2, <2>1
<1>5. ~completed[l] /\ completed'[l] /\ posted'[l] = <<ro>>
  <2>1. \E r \in {rp, ro} : /\ CallOf[r.which] = l
                            /\ ~completed[l] /\ completed'[l] /\ posted'[l] = <<r>>
    BY <1>1, <1>2, <1>3 DEF Finishes
  <2> QED BY <1>1, <1>2, <2>1
<1>6. \A h \in Call \ {k, l} : completed'[h] = completed[h] /\ posted'[h] = posted[h]
  BY <1>2, <1>3 DEF Finishes
<1>7. completed'[k] = TRUE /\ completed'[l] = TRUE
  BY <1>1, <1>4, <1>5 DEF TypeOK
<1> HIDE DEF k, l
<1>8. completed' = [completed EXCEPT ![k] = TRUE, ![l] = TRUE]
  BY <1>1, <1>6, <1>7 DEF TypeOK
<1>9. posted' = [posted EXCEPT ![k] = <<rp>>, ![l] = <<ro>>]
  BY <1>1, <1>4, <1>5, <1>6 DEF TypeOK
<1> QED BY <1>1, <1>4, <1>5, <1>8, <1>9 DEF Meets, k, l, rp, ro

\* A flush of a channel without slots fails an operation of a closed channel,
\* matches two operations of an open one, or does nothing that callers see.
LEMMA FlushOutward ==
  ASSUME SafeUse, TypeOK, CallsInv, NEW t \in Thread, NEW c \in Chan,
         FlushStep(t, c), Capacity[c] = 0
  PROVE  Outward(c)
<1>1. TypeOK' /\ FlushEffect(c)
  BY FlushStepType, FlushHasEffect
<1>2. Len(buffer[c]) = 0 /\ buffer[c] = <<>>
  <2>1. buffer[c] \in Seq(Producer) /\ Len(buffer[c]) <= 0
    BY DEF TypeOK, BufferOK
  <2> QED BY <2>1
<1>3. producers[c] # <<>> /\ PopProducer(c) =>
        FrontProducer(c) \in Producer /\ ChanOf[FrontProducer(c)] = c
        /\ FrontProducer(c) \notin unsubmitted
  BY HeadsType, PopProducerDistinct, TailDistinct
  DEF CallsInv, QueuedOnce, TypeOK, FrontProducer
<1>4. consumers[c] # <<>> /\ PopConsumer(c) =>
        FrontConsumer(c) \in Consumer /\ ChanOf[FrontConsumer(c)] = c
        /\ FrontConsumer(c) \notin unsubmitted
  BY HeadsType, PopConsumerDistinct, TailDistinct
  DEF CallsInv, QueuedOnce, TypeOK, FrontConsumer
<1>5. UNCHANGED <<closed, unsubmitted>>
  BY <1>1 DEF FlushEffect
<1>6. CASE Dropped(c)
  BY <1>1, <1>5, <1>6, FinishesNoneExcept DEF Dropped, Outward
<1>7. CASE Cancelled(c)
  <2> DEFINE o == FrontProducer(c)
  <2>1. o \in IoOp /\ ChannelClosed(o).which = o
    BY <1>3, <1>7 DEF Cancelled, IoOp, ChannelClosed
  <2>2. ~completed[CallOf[o]] /\ Ends(o, ChannelClosed(o))
    BY <1>1, <1>7, <2>1, FinishesOneExcept DEF Cancelled
  <2> QED BY <1>3, <1>5, <1>7, <2>1, <2>2 DEF Cancelled, Outward, Live
<1>8. CASE Refused(c)
  <2> DEFINE o == FrontConsumer(c)
  <2>1. o \in IoOp /\ ChannelClosed(o).which = o
    BY <1>4, <1>8 DEF Refused, IoOp, ChannelClosed
  <2>2. ~completed[CallOf[o]] /\ Ends(o, ChannelClosed(o))
    BY <1>1, <1>8, <2>1, FinishesOneExcept DEF Refused
  <2> QED BY <1>4, <1>5, <1>8, <2>1, <2>2 DEF Refused, Outward, Live
<1>9. CASE Transferred(c)
  <2> DEFINE p == FrontProducer(c)
             o == FrontConsumer(c)
  <2>1. p \in Producer /\ o \in Consumer /\ CallOf[p] # CallOf[o]
    BY <1>3, <1>4, <1>9 DEF Transferred
  <2>2. ~completed[CallOf[p]] /\ ~completed[CallOf[o]] /\ Meets(p, o)
    BY <1>1, <1>9, <2>1, FinishesTwoExcept DEF Transferred
  <2>3. Live(p, c) /\ Live(o, c)
    BY <1>3, <1>4, <1>9, <2>2 DEF Transferred, Live
  <2> QED BY <1>5, <1>9, <2>1, <2>2, <2>3 DEF Transferred, Outward
<1>10. ~Delivered(c) /\ ~Accepted(c)
  BY <1>2 DEF Delivered, Accepted
<1> QED BY <1>1, <1>6, <1>7, <1>8, <1>9, <1>10 DEF FlushEffect

\* What an answer to one call, or to two, leaves alone.
LEMMA EndsOne ==
  ASSUME TypeOK, NEW o \in IoOp, NEW r, Ends(o, r)
  PROVE  /\ completed'[CallOf[o]] /\ posted'[CallOf[o]] = <<r>>
         /\ \A k \in Call : k # CallOf[o] =>
              completed'[k] = completed[k] /\ posted'[k] = posted[k]
BY FunctionsAssumption DEF TypeOK, Ends

LEMMA EndsTwo ==
  ASSUME TypeOK, NEW p \in Producer, NEW o \in Consumer, Meets(p, o)
  PROVE  /\ completed'[CallOf[p]] /\ posted'[CallOf[p]] = <<Ok(p, NoValue)>>
         /\ completed'[CallOf[o]] /\ posted'[CallOf[o]] = <<Ok(o, p)>>
         /\ \A k \in Call : k # CallOf[p] /\ k # CallOf[o] =>
              completed'[k] = completed[k] /\ posted'[k] = posted[k]
<1>1. CallOf[p] \in Call /\ CallOf[o] \in Call
  BY FunctionsAssumption DEF IoOp
<1> QED BY <1>1 DEF TypeOK, Meets

\* What a submission does.
LEMMA SubmitBegins ==
  ASSUME NEW o \in IoOp, Submit(o)
  PROVE  /\ UNCHANGED <<closed, completed, posted>>
         /\ \A k : Begun(k)' <=> Begun(k) \/ k = CallOf[o]
<1>1. o \in unsubmitted /\ unsubmitted' = unsubmitted \ {o}
      /\ UNCHANGED <<closed, completed, posted>>
  BY DEF Submit, callVars
<1> QED BY <1>1 DEF Begun

\* An operation succeeds exactly by a result that says so.
LEMMA FinishesSucceeded ==
  ASSUME NEW rs, Finishes(rs), NEW o \in IoOp
  PROVE  Succeeded(o)' <=> Succeeded(o) \/ \E r \in rs : r.which = o /\ r.ec = "ok"
<1> DEFINE k == CallOf[o]
<1>1. k \in Call
  BY FunctionsAssumption
<1>2. CASE \E r \in rs : /\ CallOf[r.which] = k
                         /\ posted[k] = <<>> /\ posted'[k] = <<r>>
  <2>1. PICK r \in rs : /\ CallOf[r.which] = k
                        /\ posted[k] = <<>> /\ posted'[k] = <<r>>
    BY <1>2
  <2>2. DOMAIN posted[k] = {} /\ DOMAIN posted'[k] = {1} /\ posted'[k][1] = r
    BY <2>1
  <2>3. ~Succeeded(o)
    BY <2>2 DEF Succeeded
  <2>4. Succeeded(o)' <=> r.which = o /\ r.ec = "ok"
    BY <2>2 DEF Succeeded
  <2>5. \A s \in rs : s.which = o => s = r
    BY <2>1 DEF Finishes
  <2> QED BY <2>3, <2>4, <2>5
<1>3. CASE (\A r \in rs : CallOf[r.which] # k) /\ posted'[k] = posted[k]
  BY <1>3 DEF Succeeded
<1> QED BY <1>1, <1>2, <1>3 DEF Finishes

\* And fails exactly by a result that says so.
LEMMA FinishesFailed ==
  ASSUME NEW rs, Finishes(rs), NEW o \in IoOp
  PROVE  Failed(o)' <=> Failed(o) \/ \E r \in rs : r.which = o /\ r.ec = "closed"
<1> DEFINE k == CallOf[o]
<1>1. k \in Call
  BY FunctionsAssumption
<1>2. CASE \E r \in rs : /\ CallOf[r.which] = k
                         /\ posted[k] = <<>> /\ posted'[k] = <<r>>
  <2>1. PICK r \in rs : /\ CallOf[r.which] = k
                        /\ posted[k] = <<>> /\ posted'[k] = <<r>>
    BY <1>2
  <2>2. DOMAIN posted[k] = {} /\ DOMAIN posted'[k] = {1} /\ posted'[k][1] = r
    BY <2>1
  <2>3. ~Failed(o)
    BY <2>2 DEF Failed
  <2>4. Failed(o)' <=> r.which = o /\ r.ec = "closed"
    BY <2>2 DEF Failed
  <2>5. \A s \in rs : s.which = o => s = r
    BY <2>1 DEF Finishes
  <2> QED BY <2>3, <2>4, <2>5
<1>3. CASE (\A r \in rs : CallOf[r.which] # k) /\ posted'[k] = posted[k]
  BY <1>3 DEF Failed
<1> QED BY <1>1, <1>2, <1>3 DEF Finishes

-----------------------------------------------------------------------------
(***************************************************************************)
(* A receiver that is told that its channel is closed has missed nothing.  *)
(***************************************************************************)
\* Only the first consumer of a closed and drained channel is told.
LEMMA FlushTells ==
  ASSUME TypeOK, QueuedOnce, NEW c \in Chan, FlushEffect(c), NEW o \in Consumer,
         ~Failed(o), Failed(o)'
  PROVE  ChanOf[o] = c /\ closed[c] /\ buffer[c] = <<>>
<1>1. o \in IoOp
  BY DEF IoOp
<1>2. \A rs : Finishes(rs) => \E r \in rs : r.which = o /\ r.ec = "closed"
  BY <1>1, FinishesFailed
<1>3. ~Dropped(c)
  BY <1>2 DEF Dropped
<1>4. ~Cancelled(c)
  <2> SUFFICES ASSUME Cancelled(c) PROVE FALSE
    OBVIOUS
  <2>1. FrontProducer(c) \in Producer
    BY HeadsType DEF Cancelled
  <2>2. ChannelClosed(FrontProducer(c)).which = o
    BY <1>2 DEF Cancelled
  <2> QED BY <2>1, <2>2, SetsAssumption DEF ChannelClosed
<1>5. ~Delivered(c) /\ ~Accepted(c) /\ ~Transferred(c)
  BY <1>2 DEF Delivered, Accepted, Transferred, Ok
<1>6. Refused(c)
  BY <1>3, <1>4, <1>5 DEF FlushEffect
<1>7. ChannelClosed(FrontConsumer(c)).which = o
  BY <1>2, <1>6 DEF Refused
<1> QED BY <1>6, <1>7, PopConsumerDistinct DEF Refused, ChannelClosed

\* Every step keeps the buffer of a closed channel empty once it was, and tells
\* nobody of the close earlier than that.
LEMMA NextDrained ==
  ASSUME SafeUse, TypeOK, CallsInv, ClosedMeansDrained, [Next]_vars
  PROVE  ClosedMeansDrained'
<1> SUFFICES ASSUME NEW d \in Chan, ToldClosed(d)'
             PROVE  closed'[d] /\ buffer'[d] = <<>>
  BY DEF ClosedMeansDrained
<1>1. ToldClosed(d) => closed[d] /\ buffer[d] = <<>>
  BY DEF ClosedMeansDrained
<1>2. CASE \E c \in Chan : FlushEffect(c)
  <2>1. PICK c \in Chan : FlushEffect(c)
    BY <1>2
  <2>2. closed' = closed /\ polled' = polled
    BY <2>1 DEF FlushEffect
  <2>3. closed[d] /\ buffer[d] = <<>>
    <3>1. CASE ToldClosed(d)
      BY <1>1, <3>1
    <3>2. CASE ~ToldClosed(d)
      <4>1. PICK o \in Consumer : ChanOf[o] = d /\ Failed(o)'
        BY <2>2, <3>2 DEF ToldClosed
      <4>2. ~Failed(o)
        BY <3>2, <4>1 DEF ToldClosed
      <4> QED BY <2>1, <4>1, <4>2, FlushTells DEF CallsInv
    <3> QED BY <3>1, <3>2
  <2>4. buffer'[d] = <<>>
    <3>1. CASE buffer' = buffer
      BY <2>3, <3>1
    <3>2. CASE Delivered(c)
      BY <2>3, <3>2 DEF Delivered, TypeOK
    <3>3. CASE Accepted(c)
      BY <2>3, <3>3 DEF Accepted, TypeOK
    <3> QED BY <2>1, <3>1, <3>2, <3>3
            DEF FlushEffect, Dropped, Cancelled, Refused, Transferred
  <2> QED BY <2>2, <2>3, <2>4
<1>3. CASE \E q \in Poller : ConsumeIf(q)
  <2>1. PICK q \in Poller : ConsumeIf(q)
    BY <1>3
  <2> DEFINE c == Target[q]
  <2>2. c \in Chan /\ closed' = closed
    BY <2>1, FunctionsAssumption
    DEF ConsumeIf, PollBuffer, PollProducer, PollNothing, Poll
  <2>3. \A o \in Consumer : Failed(o)' => Failed(o)
    <3>1. CASE PollProducer(q)
      <4> TAKE o \in Consumer
      <4>1. o \in IoOp
        BY DEF IoOp
      <4>2. Finishes({Ok(FrontProducer(c), NoValue)})
        BY <3>1, PollFinishes
      <4>3. Ok(FrontProducer(c), NoValue).ec = "ok"
        BY DEF Ok
      <4> QED BY <4>1, <4>2, <4>3, FinishesFailed
    <3>2. CASE PollBuffer(q) \/ PollNothing(q)
      BY <3>2 DEF PollBuffer, PollNothing, callVars, Failed
    <3> QED BY <2>1, <3>1, <3>2 DEF ConsumeIf
  <2>4. CASE PollBuffer(q) \/ PollProducer(q)
    <3>1. PICK v : polled' = [polled EXCEPT ![q] = <<[ec |-> "ok", val |-> v]>>]
      BY <2>4 DEF PollBuffer, PollProducer, Return
    <3>2. \A i \in DOMAIN polled'[q] : polled'[q][i].ec = "ok"
      BY <3>1 DEF TypeOK
    <3>3. \A s \in Poller : s # q => polled'[s] = polled[s]
      BY <3>1 DEF TypeOK
    <3>4. ToldClosed(d)
      BY <2>3, <3>2, <3>3 DEF ToldClosed
    <3>5. closed[d] /\ buffer[d] = <<>>
      BY <1>1, <3>4
    <3>6. buffer'[d] = <<>>
      BY <2>4, <3>5 DEF PollBuffer, PollProducer, TypeOK
    <3> QED BY <2>2, <3>5, <3>6
  <2>5. CASE PollNothing(q)
    <3>1. buffer' = buffer /\ buffer[c] = <<>>
      BY <2>5 DEF PollNothing
    <3>2. polled' = [polled EXCEPT ![q] =
                       <<[ec |-> IF closed[c] THEN "closed" ELSE "ok", val |-> NoValue]>>]
      BY <2>5 DEF PollNothing, Return
    <3>3. \A i \in DOMAIN polled'[q] : polled'[q][i].ec = "closed" => closed[c]
      BY <3>2 DEF TypeOK
    <3>4. \A s \in Poller : s # q => polled'[s] = polled[s]
      BY <3>2 DEF TypeOK
    <3>5. ToldClosed(d) \/ (d = c /\ closed[c])
      BY <2>3, <3>3, <3>4 DEF ToldClosed
    <3> QED BY <1>1, <2>2, <3>1, <3>5
  <2> QED BY <2>1, <2>4, <2>5 DEF ConsumeIf
<1>4. CASE \E c \in Chan : ClosedOnly(c)
  <2>1. ToldClosed(d)
    BY <1>4 DEF ClosedOnly, ToldClosed, Failed
  <2> QED BY <1>1, <1>4, <2>1 DEF ClosedOnly, TypeOK
<1>5. CASE (\E o \in IoOp : Submitted(o)) \/ Quiet
  <2>1. UNCHANGED <<closed, buffer, posted, polled>>
    BY <1>5 DEF Submitted, Quiet
  <2>2. ToldClosed(d)
    BY <2>1 DEF ToldClosed, Failed
  <2> QED BY <1>1, <2>1, <2>2
<1> QED BY <1>2, <1>3, <1>4, <1>5, NextHasEffect

\* Whoever is told channel_closed - a consumer by its handler, a poll by its
\* result - learns it from a channel whose buffer is empty, and stays so.
THEOREM ClosedIsDrained ==
  ASSUME SafeUse
  PROVE  Spec => []ClosedMeansDrained
<1>1. Init => ClosedMeansDrained
  <2> SUFFICES ASSUME Init PROVE ClosedMeansDrained
    OBVIOUS
  <2>1. \A o \in Consumer : ~Failed(o)
    BY FunctionsAssumption DEF Init, Failed, IoOp
  <2>2. \A q \in Poller : polled[q] = <<>>
    BY DEF Init
  <2> QED BY <2>1, <2>2 DEF ClosedMeansDrained, ToldClosed
<1>2. TypeOK /\ CallsInv /\ ClosedMeansDrained /\ [Next]_vars => ClosedMeansDrained'
  BY NextDrained
<1> QED BY <1>1, <1>2, TypeCorrect, CallsInvariant, PTL DEF Spec

-----------------------------------------------------------------------------
(***************************************************************************)
(* Senders wait only for a full buffer, and for the room that polls made.  *)
(***************************************************************************)
\* The polls that took a value from channel c.
Takes(c) == {q \in Poller : Target[q] = c /\ PolledValue(q)}

\* The room that the senders of a free channel leave unused.
RoomLeft(c) ==
  mutex[c] = NoOne /\ producers[c] # <<>> =>
    Capacity[c] - Len(buffer[c]) <= Cardinality(Takes(c))

\* The invariant: only finitely many polls have been made so far.
RoomInv == \A c \in Chan : IsFiniteSet(Takes(c)) /\ RoomLeft(c)

\* A flush ends with the buffer full or no sender waiting.
LEMMA FlushRoom ==
  ASSUME TypeOK, RoomInv, NEW t \in Thread, NEW c \in Chan, FlushStep(t, c)
  PROVE  RoomInv'
<1>1. polled' = polled
  BY DEF FlushStep, LockHeads, Cancel, Serve, Accept, Deliver, TransferValue,
         TransferDropsStale, FlushDone, userVars
<1>2. \A d \in Chan : Takes(d)' = Takes(d)
  BY <1>1 DEF Takes, PolledValue
<1> SUFFICES ASSUME NEW d \in Chan, mutex'[d] = NoOne, producers'[d] # <<>>
             PROVE  Capacity[d] - Len(buffer'[d]) <= Cardinality(Takes(d))
  BY <1>2 DEF RoomInv, RoomLeft
<1>3. CASE d # c
  BY <1>3, FlushFrame DEF RoomInv, RoomLeft
<1>4. CASE d = c
  <2>1. FlushDone(t, c)
    BY <1>4, FlushFrame
  <2>2. /\ HeadCalls(c) = {} /\ producers' = producers /\ buffer' = buffer
        /\ closed' = closed
    BY <2>1 DEF FlushDone, chanVars
  <2>3. ~closed[c] /\ ~UsesProducer(c)
    BY <1>4, <2>2, NothingToDo DEF HeadCalls
  <2>4. ~(Len(buffer[c]) < Capacity[c])
    BY <1>4, <2>2, <2>3 DEF UsesProducer, AcceptTurn
  <2>5. Len(buffer[c]) \in Nat /\ Capacity[c] \in Nat
    BY FunctionsAssumption DEF TypeOK
  <2>6. Cardinality(Takes(c)) \in Nat
    BY FS_CardinalityType DEF RoomInv
  <2> QED BY <1>4, <2>2, <2>4, <2>5, <2>6
<1> QED BY <1>3, <1>4

\* A poll that takes a value from the buffer makes room, and is counted.
LEMMA PollRoom ==
  ASSUME TypeOK, RoomInv, NEW q \in Poller, ConsumeIf(q)
  PROVE  RoomInv'
<1> DEFINE c == Target[q]
<1>1. /\ c \in Chan /\ polled[q] = <<>> /\ mutex' = mutex /\ mutex[c] = NoOne
      /\ \A d \in Chan \ {c} : producers'[d] = producers[d] /\ buffer'[d] = buffer[d]
  BY FunctionsAssumption
  DEF ConsumeIf, PollBuffer, PollProducer, PollNothing, Poll, MayEnter, PopProducer,
      TypeOK
<1>2. PICK r : polled' = [polled EXCEPT ![q] = <<r>>]
  BY DEF ConsumeIf, PollBuffer, PollProducer, PollNothing, Return
<1>3. \A s \in Poller : s # q => polled'[s] = polled[s]
  BY <1>2 DEF TypeOK
<1>4. ~PolledValue(q)
  BY <1>1 DEF PolledValue
<1>5. \A d \in Chan : d # c => Takes(d)' = Takes(d)
  BY <1>3 DEF Takes, PolledValue
<1>6. polled'[q] = <<r>>
  BY <1>2 DEF TypeOK
<1>7. Takes(c)' = IF r.val # NoValue THEN Takes(c) \cup {q} ELSE Takes(c)
  <2>1. PolledValue(q)' <=> r.val # NoValue
    BY <1>6 DEF PolledValue
  <2>2. \A s \in Poller : s # q => (PolledValue(s)' <=> PolledValue(s))
    BY <1>3 DEF PolledValue
  <2> QED BY <1>4, <2>1, <2>2 DEF Takes
<1>8. /\ IsFiniteSet(Takes(c))
      /\ IsFiniteSet(Takes(c) \cup {q})
      /\ Cardinality(Takes(c)) \in Nat
      /\ Cardinality(Takes(c) \cup {q}) = Cardinality(Takes(c)) + 1
  <2>1. IsFiniteSet(Takes(c)) /\ q \notin Takes(c)
    BY <1>1, <1>4 DEF RoomInv, Takes
  <2> QED BY <2>1, FS_AddElement, FS_CardinalityType
<1>9. \A d \in Chan \ {c} : IsFiniteSet(Takes(d))' /\ RoomLeft(d)'
  BY <1>1, <1>5 DEF RoomInv, RoomLeft
<1>10. IsFiniteSet(Takes(c))'
  BY <1>7, <1>8
<1>11. RoomLeft(c)'
  <2> SUFFICES ASSUME producers'[c] # <<>>
               PROVE  Capacity[c] - Len(buffer'[c]) <= Cardinality(Takes(c))'
    BY DEF RoomLeft
  <2>1. Len(buffer[c]) \in Nat /\ Capacity[c] \in Nat
    BY <1>1, FunctionsAssumption DEF TypeOK
  <2>2. CASE PollBuffer(q)
    <3>1. /\ producers' = producers
          /\ buffer[c] # <<>> /\ buffer' = [buffer EXCEPT ![c] = Tail(@)]
          /\ polled' = [polled EXCEPT ![q] = <<[ec |-> "ok", val |-> Head(buffer[c])]>>]
      BY <2>2 DEF PollBuffer, Return
    <3>2. Head(buffer[c]) # NoValue
      BY <1>1, <3>1, HeadsType, SetsAssumption
    <3>3. polled'[q] = <<[ec |-> "ok", val |-> Head(buffer[c])]>>
      BY <3>1 DEF TypeOK
    <3>4. PolledValue(q)'
      BY <3>2, <3>3 DEF PolledValue
    <3>5. q \in Takes(c)'
      BY <3>4 DEF Takes
    <3>6. Takes(c)' = Takes(c) \cup {q}
      BY <1>7, <3>5
    <3>7. Capacity[c] - Len(buffer[c]) <= Cardinality(Takes(c))
      BY <1>1, <3>1 DEF RoomInv, RoomLeft
    <3>8. Len(buffer'[c]) = Len(buffer[c]) - 1
      <4>1. buffer[c] \in Seq(Producer)
        BY <1>1 DEF TypeOK
      <4>2. Len(Tail(buffer[c])) = Len(buffer[c]) - 1
        BY <3>1, <4>1, HeadTailProperties
      <4> QED BY <1>1, <3>1, <4>2 DEF TypeOK
    <3>9. Cardinality(Takes(c))' = Cardinality(Takes(c)) + 1 /\ Cardinality(Takes(c)) \in Nat
      BY <1>8, <3>6
    <3>10. \A x, y, z \in Nat : x - y <= z => x - (y - 1) <= z + 1
      OBVIOUS
    <3>11. Capacity[c] - (Len(buffer[c]) - 1) <= Cardinality(Takes(c)) + 1
      BY ONLY <2>1, <3>7, <3>9, <3>10
    <3> QED BY ONLY <3>8, <3>9, <3>11
  <2>3. CASE PollProducer(q) \/ PollNothing(q)
    <3>1. buffer' = buffer /\ producers[c] # <<>>
      BY <2>3 DEF PollProducer, PollNothing
    <3>2. Capacity[c] - Len(buffer[c]) <= Cardinality(Takes(c))
      BY <1>1, <3>1 DEF RoomInv, RoomLeft
    <3>3. Cardinality(Takes(c)) <= Cardinality(Takes(c))'
      BY <1>7, <1>8
    <3> QED BY <1>7, <1>8, <2>1, <3>1, <3>2, <3>3
  <2> QED BY <2>2, <2>3 DEF ConsumeIf
<1> QED BY <1>9, <1>10, <1>11 DEF RoomInv

\* Every step preserves the invariant.
LEMMA NextRoom ==
  ASSUME TypeOK, RoomInv, [Next]_vars
  PROVE  RoomInv'
<1> USE DEF chanVars
<1>1. CASE \E t \in Thread, c \in Chan : FlushStep(t, c)
  BY <1>1, FlushRoom
<1>2. CASE \E q \in Poller : ConsumeIf(q)
  BY <1>2, PollRoom
<1>3. ASSUME polled' = polled,
             \A c \in Chan : \/ mutex'[c] # NoOne
                             \/ /\ mutex'[c] = mutex[c]
                                /\ producers'[c] = producers[c]
                                /\ buffer'[c] = buffer[c]
      PROVE  RoomInv'
  <2>1. \A c \in Chan : Takes(c)' = Takes(c)
    BY <1>3 DEF Takes, PolledValue
  <2> QED BY <1>3, <2>1 DEF RoomInv, RoomLeft
<1>4. CASE \E o \in IoOp : SubmitProduce(o) \/ SubmitConsume(o)
  <2>1. PICK o \in IoOp : SubmitProduce(o) \/ SubmitConsume(o)
    BY <1>4
  <2>2. ChanOf[o] \in Chan /\ CallOf[o] # NoOne
    BY FunctionsAssumption, SetsAssumption DEF Thread
  <2>3. mutex'[ChanOf[o]] # NoOne /\ polled' = polled
    BY <2>1, <2>2
    DEF SubmitProduce, PushProducer, SubmitConsume, PushConsumer, Submit, Enter, TypeOK
  <2>4. ASSUME NEW d \in Chan, d # ChanOf[o]
        PROVE  /\ mutex'[d] = mutex[d] /\ producers'[d] = producers[d]
               /\ buffer'[d] = buffer[d]
    BY <2>1, <2>4
    DEF SubmitProduce, PushProducer, SubmitConsume, PushConsumer, Submit, Enter, TypeOK
  <2> QED BY <1>3, <2>3, <2>4
<1>5. CASE \E t \in Closer : CallClose(t) \/ RunClose(t) \/ CloseAgain(t)
  <2>1. PICK t \in Closer : CallClose(t) \/ RunClose(t) \/ CloseAgain(t)
    BY <1>5
  <2>2. CASE CallClose(t) \/ CloseAgain(t)
    BY <1>3, <2>2 DEF CallClose, CloseAgain
  <2>3. CASE RunClose(t)
    <3>1. Target[t] \in Chan /\ t # NoOne
      BY FunctionsAssumption, SetsAssumption DEF Thread
    <3>2. UNCHANGED <<polled, producers, buffer>> /\ mutex'[Target[t]] # NoOne
          /\ \A d \in Chan : d # Target[t] => mutex'[d] = mutex[d]
      BY <2>3, <3>1 DEF RunClose, Enter, TypeOK
    <3> QED BY <1>3, <3>2
  <2> QED BY <2>1, <2>2, <2>3
<1>6. CASE UNCHANGED vars
  BY <1>3, <1>6 DEF vars
<1> QED BY <1>1, <1>2, <1>4, <1>5, <1>6 DEF Next, Stopped, IoOp

\* Senders wait on a free channel only for a full buffer, or beside slots that
\* polls have emptied since: at most one slot for each.
THEOREM RoomIsMadeByPolls == Spec => []RoomOnlyByPoll
<1>1. Init => RoomInv
  <2> SUFFICES ASSUME Init PROVE RoomInv
    OBVIOUS
  <2>1. \A q \in Poller : ~PolledValue(q)
    BY DEF Init, PolledValue
  <2>2. \A c \in Chan : Takes(c) = {} /\ producers[c] = <<>>
    BY <2>1 DEF Init, Takes
  <2> QED BY <2>2, FS_EmptySet DEF RoomInv, RoomLeft
<1>2. TypeOK /\ RoomInv /\ [Next]_vars => RoomInv'
  BY NextRoom
<1>3. RoomInv => RoomOnlyByPoll
  BY DEF RoomInv, RoomLeft, Takes, RoomOnlyByPoll
<1> QED BY <1>1, <1>2, <1>3, TypeCorrect, PTL DEF Spec

-----------------------------------------------------------------------------
(***************************************************************************)
(* No value is lost, duplicated or sent by a failed call.                  *)
(***************************************************************************)
\* The value of p is in the buffer of its channel.
Buffered(p) == p \in Range(buffer[ChanOf[p]])

\* The calls and the polls whose results carry the value of p.
Takers(p) ==
  {k \in Call : \E i \in DOMAIN posted[k] : posted[k][i].val = p}
    \cup {q \in Poller : \E i \in DOMAIN polled[q] : polled[q][i].val = p}

\* A buffer repeats no value and has none of another channel.
BuffersInv ==
  \A c \in Chan : IsInjective(buffer[c]) /\ \A p \in Range(buffer[c]) : ChanOf[p] = c

PolledOnce == \A q \in Poller : Len(polled[q]) <= 1

\* The invariant for one value: it left its sender exactly when the send
\* succeeded, and it is in the buffer or with one taker.
OnePlace(p) ==
  /\ Succeeded(p) <=> Buffered(p) \/ Takers(p) # {}
  /\ Buffered(p) => Takers(p) = {}
  /\ \A x, y \in Takers(p) : x = y

ValuesInv == BuffersInv /\ PolledOnce /\ \A p \in Producer : OnePlace(p)

\* The results rs add their calls to the takers of the values they carry.
LEMMA FinishesTakers ==
  ASSUME NEW rs, Finishes(rs), polled' = polled, NEW p \in Producer
  PROVE  Takers(p)' = Takers(p) \cup {CallOf[r.which] : r \in {s \in rs : s.val = p}}
<1>1. ASSUME NEW k \in Call
      PROVE  (\E i \in DOMAIN posted'[k] : posted'[k][i].val = p)
               <=> \/ \E i \in DOMAIN posted[k] : posted[k][i].val = p
                   \/ \E r \in rs : CallOf[r.which] = k /\ r.val = p
  <2>1. CASE \E r \in rs : /\ CallOf[r.which] = k
                           /\ posted[k] = <<>> /\ posted'[k] = <<r>>
    <3>1. PICK r \in rs : /\ CallOf[r.which] = k
                          /\ posted[k] = <<>> /\ posted'[k] = <<r>>
      BY <2>1
    <3>2. DOMAIN posted[k] = {} /\ DOMAIN posted'[k] = {1} /\ posted'[k][1] = r
      BY <3>1
    <3>3. \A s \in rs : CallOf[s.which] = k => s = r
      BY <3>1 DEF Finishes
    <3> QED BY <3>1, <3>2, <3>3
  <2>2. CASE (\A r \in rs : CallOf[r.which] # k) /\ posted'[k] = posted[k]
    BY <2>2
  <2> QED BY <2>1, <2>2 DEF Finishes
<1>2. \A r \in rs : CallOf[r.which] \in Call
  BY FunctionsAssumption DEF Finishes, Outcome
<1> QED BY <1>1, <1>2 DEF Takers

\* So results that do not carry a value leave its takers alone.
LEMMA TakersKept ==
  ASSUME NEW rs, Finishes(rs), polled' = polled, NEW p \in Producer,
         \A r \in rs : r.val # p
  PROVE  Takers(p)' = Takers(p)
<1>1. {s \in rs : s.val = p} = {}
  OBVIOUS
<1>2. {CallOf[r.which] : r \in {s \in rs : s.val = p}} = {}
  BY <1>1
<1> QED BY <1>2, FinishesTakers

\* And the one that carries it adds its call.
LEMMA TakersAdded ==
  ASSUME NEW rs, Finishes(rs), polled' = polled, NEW p \in Producer, Takers(p) = {},
         NEW r \in rs, r.val = p, \A s \in rs : s.val = p => s = r
  PROVE  Takers(p)' = {CallOf[r.which]}
<1>1. {s \in rs : s.val = p} = {r}
  OBVIOUS
<1>2. {CallOf[t.which] : t \in {s \in rs : s.val = p}} = {CallOf[r.which]}
  BY <1>1
<1> QED BY <1>2, FinishesTakers

\* The oldest value leaves the buffer of c.
LEMMA BufferPops ==
  ASSUME TypeOK, BuffersInv, NEW c \in Chan,
         buffer[c] # <<>>, buffer' = [buffer EXCEPT ![c] = Tail(@)]
  PROVE  /\ BuffersInv'
         /\ Head(buffer[c]) \in Producer /\ Buffered(Head(buffer[c]))
         /\ \A p \in Producer : Buffered(p)' <=> Buffered(p) /\ p # Head(buffer[c])
<1>1. buffer[c] \in Seq(Producer) /\ IsInjective(buffer[c])
  BY DEF TypeOK, BuffersInv
<1>2. /\ IsInjective(Tail(buffer[c]))
      /\ Range(Tail(buffer[c])) = Range(buffer[c]) \ {Head(buffer[c])}
      /\ Head(buffer[c]) \in Range(buffer[c])
  BY <1>1, TailDistinct
<1>3. \A d \in Chan : buffer'[d] = IF d = c THEN Tail(buffer[c]) ELSE buffer[d]
  BY DEF TypeOK
<1>4. Head(buffer[c]) \in Producer /\ ChanOf[Head(buffer[c])] = c
  BY <1>2, HeadsType DEF BuffersInv
<1>5. \A p \in Producer : ChanOf[p] \in Chan
  BY FunctionsAssumption DEF IoOp
<1>6. BuffersInv'
  BY <1>2, <1>3 DEF BuffersInv
<1> QED BY <1>2, <1>3, <1>4, <1>5, <1>6 DEF Buffered

\* A value of c that is not there enters the buffer.
LEMMA BufferPushes ==
  ASSUME TypeOK, BuffersInv, NEW v \in Producer, ~Buffered(v),
         buffer' = [buffer EXCEPT ![ChanOf[v]] = Append(@, v)]
  PROVE  /\ BuffersInv'
         /\ \A p \in Producer : Buffered(p)' <=> Buffered(p) \/ p = v
<1> DEFINE c == ChanOf[v]
<1>1. \A p \in Producer : ChanOf[p] \in Chan
  BY FunctionsAssumption DEF IoOp
<1>2. buffer[c] \in Seq(Producer) /\ IsInjective(buffer[c]) /\ v \notin Range(buffer[c])
  BY <1>1 DEF TypeOK, BuffersInv, Buffered
<1>3. /\ IsInjective(Append(buffer[c], v))
      /\ Range(Append(buffer[c], v)) = Range(buffer[c]) \cup {v}
  BY <1>2, AppendDistinct
<1>4. \A d \in Chan : buffer'[d] = IF d = c THEN Append(buffer[c], v) ELSE buffer[d]
  BY DEF TypeOK
<1>5. BuffersInv'
  BY <1>3, <1>4 DEF BuffersInv
<1> QED BY <1>1, <1>3, <1>4, <1>5 DEF Buffered

\* A step that moves the value of v alone, to one place, keeps the invariant.
LEMMA OneMoves ==
  ASSUME ValuesInv, BuffersInv', PolledOnce', NEW v \in Producer, NEW x,
         \A p \in Producer : p # v => /\ Succeeded(p)' <=> Succeeded(p)
                                      /\ Buffered(p)' <=> Buffered(p)
                                      /\ Takers(p)' = Takers(p),
         Succeeded(v)',
         \/ Buffered(v)' /\ Takers(v)' = {}
         \/ ~Buffered(v)' /\ Takers(v)' = {x}
  PROVE  ValuesInv'
<1>1. ASSUME NEW p \in Producer PROVE OnePlace(p)'
  <2>1. CASE p = v
    BY <2>1 DEF OnePlace
  <2>2. CASE p # v
    BY <2>2 DEF ValuesInv, OnePlace
  <2> QED BY <2>1, <2>2
<1> QED BY <1>1 DEF ValuesInv

\* A step that moves no value keeps it, too.
LEMMA NoneMoves ==
  ASSUME ValuesInv, buffer' = buffer, PolledOnce',
         \A p \in Producer : /\ Succeeded(p)' <=> Succeeded(p)
                             /\ Takers(p)' = Takers(p)
  PROVE  ValuesInv'
<1>1. BuffersInv'
  BY DEF ValuesInv, BuffersInv
<1>2. ASSUME NEW p \in Producer PROVE OnePlace(p)'
  BY DEF ValuesInv, OnePlace, Buffered
<1> QED BY <1>1, <1>2 DEF ValuesInv

\* An operation whose call finishes now has not succeeded before.
LEMMA FinishesFresh ==
  ASSUME NEW rs, Finishes(rs), NEW r \in rs, NEW o \in IoOp, CallOf[o] = CallOf[r.which]
  PROVE  ~Succeeded(o) /\ ~completed[CallOf[o]]
<1>1. CallOf[o] \in Call
  BY FunctionsAssumption
<1>2. posted[CallOf[o]] = <<>> /\ ~completed[CallOf[o]]
  BY <1>1 DEF Finishes
<1> QED BY <1>2 DEF Succeeded

\* Each step of a flush moves one value at most.
LEMMA FlushValues ==
  ASSUME TypeOK, QueuedOnce, ValuesInv, NEW c \in Chan, FlushEffect(c)
  PROVE  ValuesInv'
<1>1. polled' = polled /\ PolledOnce'
  BY DEF FlushEffect, ValuesInv, PolledOnce
<1>2. \A s \in Producer : s \in IoOp /\ s # NoValue
  BY SetsAssumption DEF IoOp
<1>3. producers[c] # <<>> => \E p \in Producer : p = FrontProducer(c)
  BY HeadsType
<1>4. consumers[c] # <<>> => \E o \in IoOp \ Producer : o = FrontConsumer(c)
  BY HeadsType, SetsAssumption DEF IoOp
<1>5. CASE Dropped(c) \/ Cancelled(c) \/ Refused(c)
  <2>1. /\ buffer' = buffer
        /\ \E rs : /\ Finishes(rs)
                   /\ \A r \in rs : r.ec = "closed" /\ r.val = NoValue
    <3>1. CASE Dropped(c)
      BY <3>1 DEF Dropped
    <3>2. CASE Cancelled(c)
      BY <3>2 DEF Cancelled, ChannelClosed
    <3>3. CASE Refused(c)
      BY <3>3 DEF Refused, ChannelClosed
    <3> QED BY <1>5, <3>1, <3>2, <3>3
  <2>2. PICK rs : Finishes(rs) /\ \A r \in rs : r.ec = "closed" /\ r.val = NoValue
    BY <2>1
  <2>3. \A s \in Producer : Succeeded(s)' <=> Succeeded(s)
    BY <1>2, <2>2, FinishesSucceeded
  <2>4. ASSUME NEW s \in Producer PROVE Takers(s)' = Takers(s)
    <3>1. \A r \in rs : r.val # s
      BY <1>2, <2>2
    <3> QED BY <1>1, <2>2, <3>1, TakersKept
  <2> QED BY <1>1, <2>1, <2>3, <2>4, NoneMoves
<1>6. CASE Delivered(c)
  <2>1. /\ buffer[c] # <<>> /\ buffer' = [buffer EXCEPT ![c] = Tail(@)]
        /\ consumers[c] # <<>>
        /\ Finishes({Ok(FrontConsumer(c), Head(buffer[c]))})
    BY <1>6 DEF Delivered
  <2>2. PICK v \in Producer : v = Head(buffer[c])
    BY <2>1, HeadsType
  <2>3. PICK o \in IoOp \ Producer : o = FrontConsumer(c)
    BY <1>4, <2>1
  <2> PICK r : r = Ok(FrontConsumer(c), Head(buffer[c]))
    OBVIOUS
  <2>4. Finishes({r}) /\ r.which = o /\ r.val = v
    BY <2>1, <2>2, <2>3 DEF Ok
  <2>5. /\ BuffersInv' /\ Buffered(v)
        /\ \A s \in Producer : Buffered(s)' <=> Buffered(s) /\ s # v
    BY <2>1, <2>2, BufferPops DEF ValuesInv
  <2>6. \A s \in Producer : Succeeded(s)' <=> Succeeded(s)
    BY <1>2, <2>3, <2>4, FinishesSucceeded
  <2>7. \A s \in Producer : s # v => Takers(s)' = Takers(s)
    BY <1>1, <2>4, TakersKept
  <2>8. Takers(v)' = {CallOf[o]}
    <3>1. Takers(v) = {}
      BY <2>2, <2>5 DEF ValuesInv, OnePlace
    <3>2. r \in {r} /\ \A s \in {r} : s.val = v => s = r
      OBVIOUS
    <3>3. Takers(v)' = {CallOf[r.which]}
      BY <1>1, <2>2, <2>4, <3>1, <3>2, TakersAdded
    <3> QED BY <2>4, <3>3
  <2>9. Succeeded(v)' /\ ~Buffered(v)'
    BY <2>2, <2>5, <2>6 DEF ValuesInv, OnePlace
  <2> QED BY <1>1, <2>2, <2>5, <2>6, <2>7, <2>8, <2>9, OneMoves
<1>7. CASE Accepted(c)
  <2>1. /\ producers[c] # <<>> /\ PopProducer(c)
        /\ Finishes({Ok(FrontProducer(c), NoValue)})
        /\ buffer' = [buffer EXCEPT ![c] = Append(@, FrontProducer(c))]
    BY <1>7 DEF Accepted
  <2>2. PICK p \in Producer : p = FrontProducer(c)
    BY <1>3, <2>1
  <2> PICK r : r = Ok(FrontProducer(c), NoValue)
    OBVIOUS
  <2>3. Finishes({r}) /\ r.which = p /\ r.ec = "ok" /\ r.val = NoValue
    BY <2>1, <2>2 DEF Ok
  <2>4. ChanOf[p] = c
    BY <2>1, <2>2, PopProducerDistinct
  <2>5. ~Succeeded(p)
    BY <1>2, <2>3, FinishesFresh
  <2>6. ~Buffered(p) /\ Takers(p) = {}
    BY <2>2, <2>5 DEF ValuesInv, OnePlace
  <2>7. BuffersInv' /\ \A s \in Producer : Buffered(s)' <=> Buffered(s) \/ s = p
    BY <2>1, <2>2, <2>4, <2>6, BufferPushes DEF ValuesInv
  <2>8. \A s \in Producer : Succeeded(s)' <=> Succeeded(s) \/ s = p
    BY <1>2, <2>3, FinishesSucceeded
  <2>9. \A s \in Producer : Takers(s)' = Takers(s)
    BY <1>1, <1>2, <2>3, TakersKept
  <2>10. Succeeded(p)' /\ Buffered(p)' /\ Takers(p)' = {}
    BY <2>2, <2>6, <2>7, <2>8, <2>9
  <2> QED BY <1>1, <2>2, <2>7, <2>8, <2>9, <2>10, OneMoves
<1>8. CASE Transferred(c)
  <2>1. /\ producers[c] # <<>> /\ consumers[c] # <<>> /\ buffer' = buffer
        /\ Finishes({Ok(FrontProducer(c), NoValue),
                     Ok(FrontConsumer(c), FrontProducer(c))})
    BY <1>8 DEF Transferred
  <2>2. PICK p \in Producer : p = FrontProducer(c)
    BY <1>3, <2>1
  <2>3. PICK o \in IoOp \ Producer : o = FrontConsumer(c)
    BY <1>4, <2>1
  <2> PICK r : r = Ok(FrontProducer(c), NoValue)
    OBVIOUS
  <2> PICK t : t = Ok(FrontConsumer(c), FrontProducer(c))
    OBVIOUS
  <2>4. /\ Finishes({r, t})
        /\ r.which = p /\ r.ec = "ok" /\ r.val = NoValue
        /\ t.which = o /\ t.val = p
    BY <2>1, <2>2, <2>3 DEF Ok
  <2>5. ~Succeeded(p)
    BY <1>2, <2>4, FinishesFresh
  <2>6. ~Buffered(p) /\ Takers(p) = {}
    BY <2>2, <2>5 DEF ValuesInv, OnePlace
  <2>7. BuffersInv' /\ \A s \in Producer : Buffered(s)' <=> Buffered(s)
    BY <2>1 DEF ValuesInv, BuffersInv, Buffered
  <2>8. \A s \in Producer : Succeeded(s)' <=> Succeeded(s) \/ s = p
    BY <1>2, <2>3, <2>4, FinishesSucceeded
  <2>9. \A s \in Producer : s # p => Takers(s)' = Takers(s)
    BY <1>1, <1>2, <2>4, TakersKept
  <2>10. Takers(p)' = {CallOf[o]}
    <3>1. t \in {r, t} /\ \A s \in {r, t} : s.val = p => s = t
      BY <1>2, <2>2, <2>4
    <3>2. Takers(p)' = {CallOf[t.which]}
      BY <1>1, <2>2, <2>4, <2>6, <3>1, TakersAdded
    <3> QED BY <2>4, <3>2
  <2>11. Succeeded(p)' /\ ~Buffered(p)'
    BY <2>2, <2>6, <2>7, <2>8
  <2> QED BY <1>1, <2>2, <2>7, <2>8, <2>9, <2>10, <2>11, OneMoves
<1> QED BY <1>5, <1>6, <1>7, <1>8 DEF FlushEffect

\* A poll moves the value that it returns, if any.
LEMMA PollValues ==
  ASSUME TypeOK, CallsInv, ValuesInv, NEW q \in Poller, ConsumeIf(q)
  PROVE  ValuesInv'
<1> DEFINE c == Target[q]
<1>1. c \in Chan /\ polled[q] = <<>>
  BY FunctionsAssumption DEF ConsumeIf, PollBuffer, PollProducer, PollNothing, Poll
<1>2. PICK r : polled' = [polled EXCEPT ![q] = <<r>>]
  BY DEF ConsumeIf, PollBuffer, PollProducer, PollNothing, Return
<1>3. /\ polled'[q] = <<r>>
      /\ \A s \in Poller : s # q => polled'[s] = polled[s]
  BY <1>2 DEF TypeOK
<1>4. PolledOnce'
  <2>1. polled'[q] \in Seq({r}) /\ Len(polled'[q]) = 1
    BY <1>3
  <2>2. ASSUME NEW s \in Poller PROVE Len(polled'[s]) <= 1
    <3>1. CASE s = q
      <4>1. Len(polled'[s]) = 1
        BY <2>1, <3>1
      <4>2. \A n : n = 1 => n <= 1
        OBVIOUS
      <4> QED BY <4>1, <4>2
    <3>2. CASE s # q
      BY <1>3, <3>2 DEF ValuesInv, PolledOnce
    <3> QED BY <3>1, <3>2
  <2> QED BY <2>2 DEF PolledOnce
<1>5. ASSUME NEW s \in Producer, posted' = posted
      PROVE  Takers(s)' = IF r.val = s THEN Takers(s) \cup {q} ELSE Takers(s)
  <2>1. \A k \in Call : (\E i \in DOMAIN posted'[k] : posted'[k][i].val = s)
                          <=> (\E i \in DOMAIN posted[k] : posted[k][i].val = s)
    BY <1>5
  <2>2. \A t \in Poller :
          (\E i \in DOMAIN polled'[t] : polled'[t][i].val = s)
            <=> \/ \E i \in DOMAIN polled[t] : polled[t][i].val = s
                \/ t = q /\ r.val = s
    BY <1>1, <1>3
  <2> QED BY <2>1, <2>2 DEF Takers
<1>6. \A s \in Producer : s \in IoOp /\ s # NoValue
  BY SetsAssumption DEF IoOp
<1>7. CASE PollBuffer(q)
  <2>1. /\ buffer[c] # <<>> /\ buffer' = [buffer EXCEPT ![c] = Tail(@)]
        /\ polled' = [polled EXCEPT ![q] = <<[ec |-> "ok", val |-> Head(buffer[c])]>>]
        /\ posted' = posted
    BY <1>7 DEF PollBuffer, Return, callVars
  <2>2. PICK v \in Producer : v = Head(buffer[c])
    BY <1>1, <2>1, HeadsType
  <2>3. r.val = v
    <3>1. polled'[q] = <<[ec |-> "ok", val |-> v]>>
      BY <2>1, <2>2 DEF TypeOK
    <3> QED BY <1>3, <3>1
  <2>4. /\ BuffersInv' /\ Buffered(v)
        /\ \A s \in Producer : Buffered(s)' <=> Buffered(s) /\ s # v
    BY <1>1, <2>1, <2>2, BufferPops DEF ValuesInv
  <2>5. \A s \in Producer : Succeeded(s)' <=> Succeeded(s)
    BY <2>1 DEF Succeeded
  <2>6. \A s \in Producer : s # v => Takers(s)' = Takers(s)
    BY <1>5, <2>1, <2>3
  <2>7. Takers(v)' = {q}
    BY <1>5, <2>1, <2>2, <2>3, <2>4 DEF ValuesInv, OnePlace
  <2>8. Succeeded(v)' /\ ~Buffered(v)'
    BY <2>2, <2>4, <2>5 DEF ValuesInv, OnePlace
  <2> QED BY <1>4, <2>2, <2>4, <2>5, <2>6, <2>7, <2>8, OneMoves
<1>8. CASE PollProducer(q)
  <2>1. /\ producers[c] # <<>> /\ buffer' = buffer
        /\ polled' = [polled EXCEPT ![q] = <<[ec |-> "ok", val |-> FrontProducer(c)]>>]
        /\ Finishes({Ok(FrontProducer(c), NoValue)})
    BY <1>8, PollFinishes DEF PollProducer, Return
  <2>2. PICK p \in Producer : p = FrontProducer(c)
    BY <1>1, <2>1, HeadsType
  <2>3. r.val = p
    <3>1. polled'[q] = <<[ec |-> "ok", val |-> p]>>
      BY <2>1, <2>2 DEF TypeOK
    <3> QED BY <1>3, <3>1
  <2> PICK u : u = Ok(FrontProducer(c), NoValue)
    OBVIOUS
  <2>4. Finishes({u}) /\ u.which = p /\ u.ec = "ok" /\ u.val = NoValue
    BY <2>1, <2>2 DEF Ok
  <2>5. ~Succeeded(p)
    BY <1>6, <2>4, FinishesFresh
  <2>6. ~Buffered(p) /\ Takers(p) = {}
    BY <2>2, <2>5 DEF ValuesInv, OnePlace
  <2>7. BuffersInv' /\ \A s \in Producer : Buffered(s)' <=> Buffered(s)
    BY <2>1 DEF ValuesInv, BuffersInv, Buffered
  <2>8. \A s \in Producer : Succeeded(s)' <=> Succeeded(s) \/ s = p
    BY <1>6, <2>4, FinishesSucceeded
  <2>9. ASSUME NEW s \in Producer
        PROVE  Takers(s)' = IF s = p THEN Takers(s) \cup {q} ELSE Takers(s)
    <3>1. ASSUME NEW k \in Call
          PROVE  (\E i \in DOMAIN posted'[k] : posted'[k][i].val = s)
                   <=> (\E i \in DOMAIN posted[k] : posted[k][i].val = s)
      <4>1. CASE posted[k] = <<>> /\ posted'[k] = <<u>>
        BY <1>6, <2>4, <4>1
      <4>2. CASE posted'[k] = posted[k]
        BY <4>2
      <4> QED BY <2>4, <4>1, <4>2 DEF Finishes
    <3>2. \A t \in Poller :
            (\E i \in DOMAIN polled'[t] : polled'[t][i].val = s)
              <=> \/ \E i \in DOMAIN polled[t] : polled[t][i].val = s
                  \/ t = q /\ s = p
      BY <1>1, <1>3, <2>3
    <3> QED BY <3>1, <3>2 DEF Takers
  <2>10. Succeeded(p)' /\ ~Buffered(p)' /\ Takers(p)' = {q}
    BY <2>2, <2>6, <2>7, <2>8, <2>9
  <2>11. \A s \in Producer : s # p => Takers(s)' = Takers(s)
    BY <2>9
  <2> QED BY <1>4, <2>2, <2>7, <2>8, <2>10, <2>11, OneMoves
<1>9. CASE PollNothing(q)
  <2>1. /\ buffer' = buffer /\ posted' = posted
        /\ \E e : polled' = [polled EXCEPT ![q] = <<[ec |-> e, val |-> NoValue]>>]
    BY <1>9 DEF PollNothing, Return, callVars
  <2>2. r.val = NoValue
    <3>1. \E e : polled'[q] = <<[ec |-> e, val |-> NoValue]>>
      BY <2>1 DEF TypeOK
    <3> QED BY <1>3, <3>1
  <2>3. \A s \in Producer : Takers(s)' = Takers(s)
    BY <1>5, <1>6, <2>1, <2>2
  <2>4. \A s \in Producer : Succeeded(s)' <=> Succeeded(s)
    BY <2>1 DEF Succeeded
  <2> QED BY <1>4, <2>1, <2>3, <2>4, NoneMoves
<1> QED BY <1>7, <1>8, <1>9 DEF ConsumeIf

\* Every step preserves the invariant.
LEMMA NextValues ==
  ASSUME SafeUse, TypeOK, CallsInv, ValuesInv, [Next]_vars
  PROVE  ValuesInv'
<1>1. CASE \E c \in Chan : FlushEffect(c)
  BY <1>1, FlushValues DEF CallsInv
<1>2. CASE \E q \in Poller : ConsumeIf(q)
  BY <1>2, PollValues
<1>3. CASE \/ \E o \in IoOp : Submitted(o)
           \/ \E c \in Chan : ClosedOnly(c)
           \/ Quiet
  <2>1. UNCHANGED <<buffer, posted, polled>>
    BY <1>3 DEF Submitted, ClosedOnly, Quiet
  <2>2. PolledOnce'
    BY <2>1 DEF ValuesInv, PolledOnce
  <2>3. \A s \in Producer : (Succeeded(s)' <=> Succeeded(s)) /\ Takers(s)' = Takers(s)
    BY <2>1 DEF Succeeded, Takers
  <2> QED BY <2>1, <2>2, <2>3, NoneMoves
<1> QED BY <1>1, <1>2, <1>3, NextHasEffect

\* At first every value is with its sender.
LEMMA InitValues == Init => ValuesInv
<1> SUFFICES ASSUME Init PROVE ValuesInv
  OBVIOUS
<1>1. Range(<<>>) = {} /\ IsInjective(<<>>)
  BY DEF Range, IsInjective
<1>2. \A c \in Chan : buffer[c] = <<>>
  BY DEF Init
<1>3. BuffersInv
  BY <1>1, <1>2 DEF BuffersInv
<1>4. PolledOnce
  BY DEF Init, PolledOnce
<1>5. ASSUME NEW p \in Producer PROVE OnePlace(p)
  <2>1. CallOf[p] \in Call /\ ChanOf[p] \in Chan
    BY FunctionsAssumption DEF IoOp
  <2>2. ~Buffered(p)
    BY <1>1, <1>2, <2>1 DEF Buffered
  <2>3. Takers(p) = {}
    BY DEF Init, Takers
  <2>4. ~Succeeded(p)
    BY <2>1 DEF Init, Succeeded
  <2> QED BY <2>2, <2>3, <2>4 DEF OnePlace
<1> QED BY <1>3, <1>4, <1>5 DEF ValuesInv

\* What it is to be a place of a value.
LEMMA PlaceIs ==
  ASSUME NEW p, NEW x
  PROVE  x \in Places(p) <=>
           \/ \E c \in Chan : \E i \in DOMAIN buffer[c] :
                buffer[c][i] = p /\ x = <<c, i>>
           \/ \E k \in Call : \E i \in DOMAIN posted[k] :
                posted[k][i].val = p /\ x = <<k, i>>
           \/ \E q \in Poller : \E i \in DOMAIN polled[q] :
                polled[q][i].val = p /\ x = <<q, i>>
<1> DEFINE Slots(c) == {<<c, i>> : i \in {j \in DOMAIN buffer[c] : buffer[c][j] = p}}
           Results(k) == {<<k, i>> : i \in {j \in DOMAIN posted[k] : posted[k][j].val = p}}
           Polls(q) == {<<q, i>> : i \in {j \in DOMAIN polled[q] : polled[q][j].val = p}}
<1>1. \A c \in Chan : x \in Slots(c) <=>
                        \E i \in DOMAIN buffer[c] : buffer[c][i] = p /\ x = <<c, i>>
  OBVIOUS
<1>2. \A k \in Call : x \in Results(k) <=>
                        \E i \in DOMAIN posted[k] : posted[k][i].val = p /\ x = <<k, i>>
  OBVIOUS
<1>3. \A q \in Poller : x \in Polls(q) <=>
                          \E i \in DOMAIN polled[q] : polled[q][i].val = p /\ x = <<q, i>>
  OBVIOUS
<1>4. Places(p) = (UNION {Slots(c) : c \in Chan}) \cup (UNION {Results(k) : k \in Call})
                    \cup (UNION {Polls(q) : q \in Poller})
  BY DEF Places
<1> HIDE DEF Slots, Results, Polls
<1>5. x \in Places(p) <=> \/ \E c \in Chan : x \in Slots(c)
                          \/ \E k \in Call : x \in Results(k)
                          \/ \E q \in Poller : x \in Polls(q)
  BY <1>4
<1> QED BY <1>1, <1>2, <1>3, <1>5

\* The places of a value, one by one.
LEMMA PlacesOfValue ==
  ASSUME TypeOK, CompletedOnce, ValuesInv, NEW p \in Producer
  PROVE  /\ Places(p) # {} <=> Buffered(p) \/ Takers(p) # {}
         /\ \A x, y \in Places(p) : x = y
<1>1. ASSUME NEW c \in Chan, NEW i \in DOMAIN buffer[c], buffer[c][i] = p
      PROVE  c = ChanOf[p] /\ Buffered(p)
  <2>1. p \in Range(buffer[c])
    BY <1>1 DEF Range
  <2> QED BY <2>1 DEF ValuesInv, BuffersInv, Buffered
<1>2. ASSUME NEW k \in Call, NEW i \in DOMAIN posted[k], posted[k][i].val = p
      PROVE  i = 1 /\ k \in Takers(p)
  <2>1. posted[k] \in Seq(Outcome) /\ (Len(posted[k]) = 0 \/ Len(posted[k]) = 1)
    BY DEF TypeOK, CompletedOnce
  <2> QED BY <1>2, <2>1 DEF Takers
<1>3. ASSUME NEW q \in Poller, NEW i \in DOMAIN polled[q], polled[q][i].val = p
      PROVE  i = 1 /\ q \in Takers(p)
  <2>1. polled[q] \in Seq(PollResult) /\ Len(polled[q]) <= 1 /\ Len(polled[q]) \in Nat
    BY DEF TypeOK, ValuesInv, PolledOnce
  <2> QED BY <1>3, <2>1 DEF Takers
<1>4. ASSUME NEW x \in Places(p)
      PROVE  \/ \E i \in DOMAIN buffer[ChanOf[p]] :
                  /\ buffer[ChanOf[p]][i] = p
                  /\ x = <<ChanOf[p], i>> /\ Buffered(p)
             \/ \E t \in Takers(p) : x = <<t, 1>>
  <2>1. CASE \E c \in Chan : \E i \in DOMAIN buffer[c] : buffer[c][i] = p /\ x = <<c, i>>
    BY <1>1, <2>1
  <2>2. CASE \E k \in Call : \E i \in DOMAIN posted[k] :
               posted[k][i].val = p /\ x = <<k, i>>
    BY <1>2, <2>2
  <2>3. CASE \E q \in Poller : \E i \in DOMAIN polled[q] :
               polled[q][i].val = p /\ x = <<q, i>>
    BY <1>3, <2>3
  <2> QED BY <2>1, <2>2, <2>3, PlaceIs
<1>5. IsInjective(buffer[ChanOf[p]])
  BY FunctionsAssumption DEF ValuesInv, BuffersInv, IoOp
<1>6. \A x, y \in Places(p) : x = y
  BY <1>4, <1>5 DEF IsInjective, ValuesInv, OnePlace
<1>7. Places(p) # {} => Buffered(p) \/ Takers(p) # {}
  BY <1>4
<1>8. Buffered(p) => Places(p) # {}
  <2> SUFFICES ASSUME Buffered(p) PROVE Places(p) # {}
    OBVIOUS
  <2>1. PICK i \in DOMAIN buffer[ChanOf[p]] : buffer[ChanOf[p]][i] = p
    BY DEF Buffered, Range
  <2>2. ChanOf[p] \in Chan
    BY FunctionsAssumption DEF IoOp
  <2>3. <<ChanOf[p], i>> \in Places(p)
    BY <2>1, <2>2, PlaceIs
  <2> QED BY <2>3
<1>9. Takers(p) # {} => Places(p) # {}
  <2>1. ASSUME NEW k \in Call, NEW i \in DOMAIN posted[k], posted[k][i].val = p
        PROVE  <<k, i>> \in Places(p)
    BY <2>1, PlaceIs
  <2>2. ASSUME NEW q \in Poller, NEW i \in DOMAIN polled[q], polled[q][i].val = p
        PROVE  <<q, i>> \in Places(p)
    BY <2>2, PlaceIs
  <2> QED BY <2>1, <2>2 DEF Takers
<1> QED BY <1>6, <1>7, <1>8, <1>9

\* A value has left its sender exactly when its send succeeded, and is then in
\* exactly one place: a slot of a buffer, a result of a consumer or of a poll.
THEOREM OneValueOnePlace ==
  ASSUME SafeUse
  PROVE  Spec => []ValueInOnePlace
<1>1. TypeOK /\ CallsInv /\ ValuesInv /\ [Next]_vars => ValuesInv'
  BY NextValues
<1>2. TypeOK /\ CallsInv /\ ValuesInv => ValueInOnePlace
  BY PlacesOfValue DEF CallsInv, ValueInOnePlace, ValuesInv, OnePlace
<1> QED BY <1>1, <1>2, InitValues, TypeCorrect, CallsInvariant, PTL DEF Spec

-----------------------------------------------------------------------------
(***************************************************************************)
(* First come, first served.                                               *)
(***************************************************************************)
\* Operation x was submitted to channel c before y.
Before(c, x, y) ==
  \E i, j \in DOMAIN arrived[c] : i < j /\ arrived[c][i] = x /\ arrived[c][j] = y

\* The operations in s are in the order of their submission to c.
InOrder(s, c) == \A m, n \in DOMAIN s : m < n => Before(c, s[m], s[n])

InQueue(o) == o \in Range(producers[ChanOf[o]]) \cup Range(consumers[ChanOf[o]])

Came(o) == o \in Range(arrived[ChanOf[o]])

\* Each operation is submitted once, and to its own channel.
ArrivedInv ==
  \A c \in Chan :
    /\ IsInjective(arrived[c])
    /\ \A o \in Range(arrived[c]) : ChanOf[o] = c /\ o \notin unsubmitted

\* The queues are in order, an operation leaves its queue when its call is
\* completed, and none before an older one of its kind.
QueueOrder ==
  /\ \A c \in Chan : InOrder(producers[c], c) /\ InOrder(consumers[c], c)
  /\ \A o \in IoOp :
       /\ InQueue(o) => Came(o) /\ ~Succeeded(o)
       /\ Came(o) /\ ~InQueue(o) => completed[CallOf[o]]
       /\ Succeeded(o) => Came(o)
  /\ \A c \in Chan, x, y \in IoOp :
       Before(c, x, y) /\ SameKind(x, y) /\ InQueue(x) => InQueue(y)

\* The buffer is in order, and no value in it was overtaken by a later one.
BufferOrder ==
  \A c \in Chan :
    /\ InOrder(buffer[c], c)
    /\ \A x \in Range(buffer[c]), y \in Producer :
         Before(c, x, y) /\ Succeeded(y) => y \in Range(buffer[c])

OrderInv == ArrivedInv /\ QueueOrder /\ BufferOrder

\* The order of submission is a strict order, total on what came.
LEMMA BeforeIsOrder ==
  ASSUME TypeOK, ArrivedInv, NEW c \in Chan
  PROVE  /\ \A x, y : Before(c, x, y) => /\ ~Before(c, y, x)
                                         /\ x \in Range(arrived[c])
                                         /\ y \in Range(arrived[c])
         /\ \A x, y \in Range(arrived[c]) : x # y => Before(c, x, y) \/ Before(c, y, x)
<1>1. /\ DOMAIN arrived[c] = 1 .. Len(arrived[c]) /\ Len(arrived[c]) \in Nat
      /\ IsInjective(arrived[c])
  BY DEF TypeOK, ArrivedInv
<1>2. ASSUME NEW x, NEW y, Before(c, x, y)
      PROVE  /\ ~Before(c, y, x) /\ x \in Range(arrived[c]) /\ y \in Range(arrived[c])
  <2>1. PICK i, j \in DOMAIN arrived[c] :
          i < j /\ arrived[c][i] = x /\ arrived[c][j] = y
    BY <1>2 DEF Before
  <2>2. \A m, n \in DOMAIN arrived[c] :
          arrived[c][m] = y /\ arrived[c][n] = x => m = j /\ n = i
    BY <1>1, <2>1 DEF IsInjective
  <2>3. ~Before(c, y, x)
    BY <1>1, <2>1, <2>2 DEF Before
  <2> QED BY <2>1, <2>3 DEF Range
<1>3. ASSUME NEW x \in Range(arrived[c]), NEW y \in Range(arrived[c]), x # y
      PROVE  Before(c, x, y) \/ Before(c, y, x)
  <2>1. PICK i \in DOMAIN arrived[c] : arrived[c][i] = x
    BY DEF Range
  <2>2. PICK j \in DOMAIN arrived[c] : arrived[c][j] = y
    BY DEF Range
  <2>3. i < j \/ j < i
    BY <1>1, <1>3, <2>1, <2>2
  <2> QED BY <2>1, <2>2, <2>3 DEF Before
<1> QED BY <1>2, <1>3

\* The head of a sequence in order came before the rest of it.
LEMMA TailInOrder ==
  ASSUME NEW S, NEW s \in Seq(S), s # <<>>, NEW c, InOrder(s, c)
  PROVE  /\ InOrder(Tail(s), c)
         /\ \A x \in Range(Tail(s)) : Before(c, Head(s), x)
<1>1. /\ Len(Tail(s)) = Len(s) - 1
      /\ \A i \in 1 .. Len(Tail(s)) : Tail(s)[i] = s[i+1]
      /\ Tail(s) \in Seq(S)
  BY HeadTailProperties
<1>2. /\ Len(s) \in Nat /\ Len(s) > 0
      /\ DOMAIN s = 1 .. Len(s)
      /\ DOMAIN Tail(s) = 1 .. Len(s) - 1
      /\ Head(s) = s[1]
  BY <1>1, EmptySeq
<1>3. ASSUME NEW m \in DOMAIN Tail(s), NEW n \in DOMAIN Tail(s), m < n
      PROVE  Before(c, Tail(s)[m], Tail(s)[n])
  <2>1. m + 1 \in DOMAIN s /\ n + 1 \in DOMAIN s /\ m + 1 < n + 1
    BY <1>2, <1>3
  <2>2. Tail(s)[m] = s[m + 1] /\ Tail(s)[n] = s[n + 1]
    BY <1>1, <1>2
  <2> QED BY <2>1, <2>2 DEF InOrder
<1>4. ASSUME NEW x \in Range(Tail(s))
      PROVE  Before(c, Head(s), x)
  <2>1. PICK i \in DOMAIN Tail(s) : x = Tail(s)[i]
    BY DEF Range
  <2>2. i + 1 \in DOMAIN s /\ 1 \in DOMAIN s /\ 1 < i + 1 /\ s[i + 1] = x
    BY <1>1, <1>2, <2>1
  <2> QED BY <1>2, <2>2 DEF InOrder
<1> QED BY <1>3, <1>4 DEF InOrder

\* A sequence in order is so with a later operation at its end.
LEMMA AppendInOrder ==
  ASSUME NEW S, NEW s \in Seq(S), NEW e, NEW c, InOrder(s, c),
         \A x \in Range(s) : Before(c, x, e)
  PROVE  InOrder(Append(s, e), c)
<1> DEFINE t == Append(s, e)
<1>1. /\ DOMAIN s = 1 .. Len(s) /\ Len(s) \in Nat
      /\ DOMAIN t = 1 .. Len(s) + 1
      /\ \A i \in 1 .. Len(s) : t[i] = s[i]
      /\ t[Len(s) + 1] = e
  OBVIOUS
<1> HIDE DEF t
<1>2. ASSUME NEW m \in DOMAIN t, NEW n \in DOMAIN t, m < n
      PROVE  Before(c, t[m], t[n])
  <2>1. m \in DOMAIN s /\ t[m] = s[m]
    BY <1>1, <1>2
  <2>2. CASE n \in DOMAIN s
    BY <1>1, <1>2, <2>1, <2>2 DEF InOrder
  <2>3. CASE n = Len(s) + 1
    BY <1>1, <2>1, <2>3 DEF Range
  <2> QED BY <1>1, <2>2, <2>3
<1> QED BY <1>2 DEF InOrder, t

\* What flushes and polls of c do to the queues: at most the heads leave them,
\* with completed calls, and only they succeed.
QueuesMove(c, rs) ==
  /\ \/ producers' = producers
     \/ /\ producers[c] # <<>> /\ PopProducer(c)
        /\ completed'[CallOf[FrontProducer(c)]]
  /\ \/ consumers' = consumers
     \/ /\ consumers[c] # <<>> /\ PopConsumer(c)
        /\ completed'[CallOf[FrontConsumer(c)]]
  /\ Finishes(rs)
  /\ \A r \in rs : r.ec = "ok" =>
       \/ producers[c] # <<>> /\ PopProducer(c) /\ r.which = FrontProducer(c)
       \/ consumers[c] # <<>> /\ PopConsumer(c) /\ r.which = FrontConsumer(c)
  /\ UNCHANGED <<arrived, unsubmitted>>

\* The kind of an operation says in which queue it is.
LEMMA InQueueByKind ==
  ASSUME TypeOK, NEW o \in IoOp
  PROVE  /\ o \in Producer => (InQueue(o) <=> o \in Range(producers[ChanOf[o]]))
         /\ o \notin Producer => (InQueue(o) <=> o \in Range(consumers[ChanOf[o]]))
<1>1. ChanOf[o] \in Chan
  BY FunctionsAssumption
<1>2. /\ Range(producers[ChanOf[o]]) \subseteq Producer
      /\ Range(consumers[ChanOf[o]]) \subseteq Consumer
  BY <1>1 DEF TypeOK, Range
<1> QED BY <1>2, SetsAssumption DEF InQueue

\* Who leaves a queue is the first in it.
LEMMA HeadsLeave ==
  ASSUME TypeOK, QueuedOnce, ArrivedInv, QueueOrder, NEW c \in Chan, NEW rs,
         QueuesMove(c, rs), NEW o \in IoOp
  PROVE  /\ InQueue(o)' => InQueue(o)
         /\ InQueue(o) /\ ~InQueue(o)' =>
              /\ completed'[CallOf[o]]
              /\ \A d \in Chan, y \in IoOp :
                   SameKind(o, y) /\ InQueue(y)' => ~Before(d, y, o)
<1>1. ChanOf[o] \in Chan
  BY FunctionsAssumption
<1>2. CASE o \in Producer
  <2>1. ASSUME NEW y \in Producer
        PROVE  InQueue(y)' <=> y \in Range(producers'[ChanOf[y]])
    <3>1. Range(consumers'[ChanOf[y]]) \subseteq Consumer
      <4>1. ChanOf[y] \in Chan
        BY FunctionsAssumption DEF IoOp
      <4>2. Range(consumers[ChanOf[y]]) \subseteq Consumer
        BY <4>1 DEF TypeOK, Range
      <4>3. Range(consumers'[ChanOf[y]]) \subseteq Range(consumers[ChanOf[y]])
        BY <4>1, PopConsumerDistinct DEF QueuesMove
      <4> QED BY <4>2, <4>3
    <3> QED BY <3>1, SetsAssumption DEF InQueue
  <2>2. CASE producers' = producers
    BY <1>2, <2>1, <2>2, InQueueByKind
  <2>3. CASE producers' # producers
    <3>1. /\ producers[c] # <<>> /\ PopProducer(c)
          /\ completed'[CallOf[FrontProducer(c)]]
      BY <2>3 DEF QueuesMove
    <3>2. /\ Range(Tail(producers[c])) = Range(producers[c]) \ {FrontProducer(c)}
          /\ \A x \in Range(Tail(producers[c])) : Before(c, FrontProducer(c), x)
      BY <3>1, TailDistinct, TailInOrder DEF TypeOK, QueuedOnce, QueueOrder, FrontProducer
    <3>3. \A d \in Chan : producers'[d] = IF d = c THEN Tail(producers[c]) ELSE producers[d]
      BY <3>1 DEF PopProducer, TypeOK
    <3>4. InQueue(o)' => InQueue(o)
      BY <1>1, <1>2, <2>1, <3>2, <3>3, InQueueByKind
    <3>5. ASSUME InQueue(o), ~InQueue(o)'
          PROVE  o = FrontProducer(c) /\ ChanOf[o] = c
      BY <1>1, <1>2, <2>1, <3>2, <3>3, <3>5, InQueueByKind
    <3>6. ASSUME InQueue(o), ~InQueue(o)', NEW d \in Chan, NEW y \in IoOp,
                 SameKind(o, y), InQueue(y)', Before(d, y, o)
          PROVE  FALSE
      <4>1. o = FrontProducer(c) /\ ChanOf[o] = c /\ y \in Producer
        BY <1>2, <3>5, <3>6 DEF SameKind
      <4>2. /\ o \in Range(arrived[d]) /\ y \in Range(arrived[d]) /\ ~Before(d, o, y)
        BY <3>6, BeforeIsOrder
      <4>3. d = c /\ ChanOf[y] = c
        BY <4>1, <4>2 DEF ArrivedInv
      <4>4. y \in Range(Tail(producers[c]))
        BY <2>1, <3>3, <3>6, <4>1, <4>3
      <4> QED BY <3>2, <4>1, <4>2, <4>3, <4>4
    <3> QED BY <3>1, <3>4, <3>5, <3>6
  <2> QED BY <2>2, <2>3
<1>3. CASE o \notin Producer
  <2>1. ASSUME NEW y \in IoOp \ Producer
        PROVE  InQueue(y)' <=> y \in Range(consumers'[ChanOf[y]])
    <3>1. Range(producers'[ChanOf[y]]) \subseteq Producer
      <4>1. ChanOf[y] \in Chan
        BY FunctionsAssumption
      <4>2. Range(producers[ChanOf[y]]) \subseteq Producer
        BY <4>1 DEF TypeOK, Range
      <4>3. Range(producers'[ChanOf[y]]) \subseteq Range(producers[ChanOf[y]])
        BY <4>1, PopProducerDistinct DEF QueuesMove
      <4> QED BY <4>2, <4>3
    <3> QED BY <3>1 DEF InQueue
  <2>2. CASE consumers' = consumers
    BY <1>3, <2>1, <2>2, InQueueByKind
  <2>3. CASE consumers' # consumers
    <3>1. /\ consumers[c] # <<>> /\ PopConsumer(c)
          /\ completed'[CallOf[FrontConsumer(c)]]
      BY <2>3 DEF QueuesMove
    <3>2. /\ Range(Tail(consumers[c])) = Range(consumers[c]) \ {FrontConsumer(c)}
          /\ \A x \in Range(Tail(consumers[c])) : Before(c, FrontConsumer(c), x)
      BY <3>1, TailDistinct, TailInOrder DEF TypeOK, QueuedOnce, QueueOrder, FrontConsumer
    <3>3. \A d \in Chan : consumers'[d] = IF d = c THEN Tail(consumers[c]) ELSE consumers[d]
      BY <3>1 DEF PopConsumer, TypeOK
    <3>4. InQueue(o)' => InQueue(o)
      BY <1>1, <1>3, <2>1, <3>2, <3>3, InQueueByKind
    <3>5. ASSUME InQueue(o), ~InQueue(o)'
          PROVE  o = FrontConsumer(c) /\ ChanOf[o] = c
      BY <1>1, <1>3, <2>1, <3>2, <3>3, <3>5, InQueueByKind
    <3>6. ASSUME InQueue(o), ~InQueue(o)', NEW d \in Chan, NEW y \in IoOp,
                 SameKind(o, y), InQueue(y)', Before(d, y, o)
          PROVE  FALSE
      <4>1. o = FrontConsumer(c) /\ ChanOf[o] = c /\ y \in IoOp \ Producer
        BY <1>3, <3>5, <3>6 DEF SameKind
      <4>2. /\ o \in Range(arrived[d]) /\ y \in Range(arrived[d]) /\ ~Before(d, o, y)
        BY <3>6, BeforeIsOrder
      <4>3. d = c /\ ChanOf[y] = c
        BY <4>1, <4>2 DEF ArrivedInv
      <4>4. y \in Range(Tail(consumers[c]))
        BY <2>1, <3>3, <3>6, <4>1, <4>3
      <4> QED BY <3>2, <4>1, <4>2, <4>3, <4>4
    <3> QED BY <3>1, <3>4, <3>5, <3>6
  <2> QED BY <2>2, <2>3
<1> QED BY <1>2, <1>3

\* So flushes and polls keep the queues in order.
LEMMA QueuesMoveInOrder ==
  ASSUME TypeOK, QueuedOnce, ArrivedInv, QueueOrder, NEW c \in Chan, NEW rs,
         QueuesMove(c, rs)
  PROVE  ArrivedInv' /\ QueueOrder'
<1>1. ArrivedInv'
  BY DEF ArrivedInv, QueuesMove
<1>2. /\ \A d, x, y : Before(d, x, y)' <=> Before(d, x, y)
      /\ \A o : Came(o)' <=> Came(o)
  BY DEF QueuesMove, Before, Came
<1>3. ASSUME NEW d \in Chan
      PROVE  (InOrder(producers[d], d) /\ InOrder(consumers[d], d))'
  <2>1. InOrder(producers[d], d) /\ InOrder(consumers[d], d)
    BY DEF QueueOrder
  <2>2. producers'[d] = producers[d]
          \/ (producers[d] # <<>> /\ producers'[d] = Tail(producers[d]))
    BY DEF QueuesMove, PopProducer, TypeOK
  <2>3. consumers'[d] = consumers[d]
          \/ (consumers[d] # <<>> /\ consumers'[d] = Tail(consumers[d]))
    BY DEF QueuesMove, PopConsumer, TypeOK
  <2>4. producers[d] \in Seq(Producer) /\ consumers[d] \in Seq(Consumer)
    BY DEF TypeOK
  <2>5. InOrder(producers'[d], d) /\ InOrder(consumers'[d], d)
    BY <2>1, <2>2, <2>3, <2>4, TailInOrder
  <2> QED BY <1>2, <2>5 DEF InOrder
<1>4. ASSUME NEW o \in IoOp
      PROVE  Succeeded(o)' => Succeeded(o) \/ (InQueue(o) /\ ~InQueue(o)')
  <2> SUFFICES ASSUME Succeeded(o)', ~Succeeded(o)
               PROVE  InQueue(o) /\ ~InQueue(o)'
    OBVIOUS
  <2>1. PICK r \in rs : r.which = o /\ r.ec = "ok"
    BY FinishesSucceeded DEF QueuesMove
  <2>2. CASE producers[c] # <<>> /\ PopProducer(c) /\ o = FrontProducer(c)
    <3>1. /\ o \in Range(producers[c]) /\ ChanOf[o] = c /\ o \in Producer
          /\ o \notin Range(producers'[c])
      <4>1. FrontProducer(c) \in Range(producers[c])
        BY <2>2, TailDistinct DEF TypeOK, QueuedOnce, FrontProducer
      <4>2. /\ ChanOf[FrontProducer(c)] = c
            /\ Range(producers'[c]) = Range(producers[c]) \ {FrontProducer(c)}
        BY <2>2, PopProducerDistinct
      <4> QED BY <2>2, <4>1, <4>2, HeadsType
    <3>2. o \notin Range(consumers'[c])
      <4>1. Range(consumers[c]) \subseteq Consumer
        BY DEF TypeOK, Range
      <4>2. Range(consumers'[c]) \subseteq Range(consumers[c])
        BY PopConsumerDistinct DEF QueuesMove
      <4> QED BY <3>1, <4>1, <4>2, SetsAssumption
    <3> QED BY <3>1, <3>2 DEF InQueue
  <2>3. CASE consumers[c] # <<>> /\ PopConsumer(c) /\ o = FrontConsumer(c)
    <3>1. /\ o \in Range(consumers[c]) /\ ChanOf[o] = c /\ o \in Consumer
          /\ o \notin Range(consumers'[c])
      <4>1. FrontConsumer(c) \in Range(consumers[c])
        BY <2>3, TailDistinct DEF TypeOK, QueuedOnce, FrontConsumer
      <4>2. /\ ChanOf[FrontConsumer(c)] = c
            /\ Range(consumers'[c]) = Range(consumers[c]) \ {FrontConsumer(c)}
        BY <2>3, PopConsumerDistinct
      <4> QED BY <2>3, <4>1, <4>2, HeadsType
    <3>2. o \notin Range(producers'[c])
      <4>1. Range(producers[c]) \subseteq Producer
        BY DEF TypeOK, Range
      <4>2. Range(producers'[c]) \subseteq Range(producers[c])
        BY PopProducerDistinct DEF QueuesMove
      <4> QED BY <3>1, <4>1, <4>2, SetsAssumption
    <3> QED BY <3>1, <3>2 DEF InQueue
  <2> QED BY <2>1, <2>2, <2>3 DEF QueuesMove
<1>5. ASSUME NEW o \in IoOp
      PROVE  /\ InQueue(o)' => Came(o)' /\ ~Succeeded(o)'
             /\ Came(o)' /\ ~InQueue(o)' => completed'[CallOf[o]]
             /\ Succeeded(o)' => Came(o)'
  <2>1. /\ InQueue(o) => Came(o) /\ ~Succeeded(o)
        /\ Came(o) /\ ~InQueue(o) => completed[CallOf[o]]
        /\ Succeeded(o) => Came(o)
    BY DEF QueueOrder
  <2>2. /\ InQueue(o)' => InQueue(o)
        /\ InQueue(o) /\ ~InQueue(o)' => completed'[CallOf[o]]
    BY HeadsLeave
  <2>3. completed[CallOf[o]] => completed'[CallOf[o]]
    BY FunctionsAssumption DEF QueuesMove, Finishes
  <2>4. InQueue(o)' => Came(o)' /\ ~Succeeded(o)'
    BY <1>2, <1>4, <2>1, <2>2
  <2>5. Came(o)' /\ ~InQueue(o)' => completed'[CallOf[o]]
    BY <1>2, <2>1, <2>2, <2>3
  <2>6. Succeeded(o)' => Came(o)'
    BY <1>2, <1>4, <2>1
  <2> QED BY <2>4, <2>5, <2>6
<1>6. ASSUME NEW d \in Chan, NEW x \in IoOp, NEW y \in IoOp,
             Before(d, x, y)', SameKind(x, y), InQueue(x)'
      PROVE  InQueue(y)'
  <2>1. InQueue(y)
    BY <1>2, <1>6, HeadsLeave DEF QueueOrder
  <2>2. SameKind(y, x)
    BY <1>6 DEF SameKind
  <2> QED BY <1>2, <1>6, <2>1, <2>2, HeadsLeave
<1> QED BY <1>1, <1>3, <1>5, <1>6 DEF QueueOrder, SameKind

\* What a submission adds to the order.
LEMMA SubmitBefore ==
  ASSUME TypeOK, ArrivedInv, NEW o \in IoOp, Submitted(o)
  PROVE  /\ ArrivedInv'
         /\ ~Came(o) /\ unsubmitted' = unsubmitted \ {o}
         /\ \A d \in Chan : \A x, y :
              Before(d, x, y)' <=> \/ Before(d, x, y)
                                   \/ d = ChanOf[o] /\ x \in Range(arrived[d]) /\ y = o
         /\ \A x \in IoOp : Came(x)' <=> Came(x) \/ x = o
<1> DEFINE c == ChanOf[o]
<1>1. c \in Chan /\ \A x \in IoOp : ChanOf[x] \in Chan
  BY FunctionsAssumption
<1>2. /\ o \in unsubmitted /\ unsubmitted' = unsubmitted \ {o}
      /\ arrived' = [arrived EXCEPT ![c] = Append(@, o)]
  BY DEF Submitted, SubmitProduce, SubmitConsume, Submit
<1>3. ~Came(o) /\ o \notin Range(arrived[c])
  BY <1>1, <1>2 DEF ArrivedInv, Came
<1>4. \A d \in Chan : arrived'[d] = IF d = c THEN Append(arrived[c], o) ELSE arrived[d]
  BY <1>2 DEF TypeOK
<1>5. arrived[c] \in Seq(IoOp) /\ IsInjective(arrived[c])
  BY <1>1 DEF TypeOK, ArrivedInv
<1>6. /\ IsInjective(Append(arrived[c], o))
      /\ Range(Append(arrived[c], o)) = Range(arrived[c]) \cup {o}
  BY <1>3, <1>5, AppendDistinct
<1>7. ArrivedInv'
  BY <1>2, <1>4, <1>6 DEF ArrivedInv
<1>8. \A x \in IoOp : Came(x)' <=> Came(x) \/ x = o
  BY <1>1, <1>4, <1>6 DEF Came
<1>9. /\ DOMAIN arrived[c] = 1 .. Len(arrived[c]) /\ Len(arrived[c]) \in Nat
      /\ DOMAIN Append(arrived[c], o) = 1 .. Len(arrived[c]) + 1
      /\ \A i \in 1 .. Len(arrived[c]) : Append(arrived[c], o)[i] = arrived[c][i]
      /\ Append(arrived[c], o)[Len(arrived[c]) + 1] = o
  BY <1>5, AppendProperties
<1>10. ASSUME NEW x, NEW y
       PROVE  Before(c, x, y)' <=> Before(c, x, y) \/ (x \in Range(arrived[c]) /\ y = o)
  <2> DEFINE a == arrived[c]
             b == Append(arrived[c], o)
             n == Len(arrived[c]) + 1
  <2>1. arrived'[c] = b
    BY <1>1, <1>4
  <2>2. /\ DOMAIN b = DOMAIN a \cup {n} /\ b[n] = o
        /\ \A i \in DOMAIN a : b[i] = a[i] /\ i < n /\ i \in Nat
        /\ n \in Nat
    BY <1>9
  <2>3. Before(c, x, y)' <=> \E i, j \in DOMAIN b : i < j /\ b[i] = x /\ b[j] = y
    BY <2>1 DEF Before
  <2>4. Before(c, x, y) <=> \E i, j \in DOMAIN a : i < j /\ a[i] = x /\ a[j] = y
    BY DEF Before
  <2>5. x \in Range(arrived[c]) <=> \E i \in DOMAIN a : a[i] = x
    BY DEF Range
  <2> HIDE DEF a, b, n
  <2>6. ASSUME NEW i \in DOMAIN b, NEW j \in DOMAIN b, i < j, b[i] = x, b[j] = y
        PROVE  \/ i \in DOMAIN a /\ j \in DOMAIN a /\ a[i] = x /\ a[j] = y
               \/ i \in DOMAIN a /\ a[i] = x /\ y = o
    BY <2>2, <2>6
  <2>7. Before(c, x, y)' => Before(c, x, y) \/ (x \in Range(arrived[c]) /\ y = o)
    BY <2>3, <2>4, <2>5, <2>6
  <2>8. Before(c, x, y) => Before(c, x, y)'
    BY <2>2, <2>3, <2>4
  <2>9. x \in Range(arrived[c]) /\ y = o => Before(c, x, y)'
    BY <2>2, <2>3, <2>5
  <2> QED BY <2>7, <2>8, <2>9
<1>11. \A d \in Chan : d # c => \A x, y : Before(d, x, y)' <=> Before(d, x, y)
  BY <1>4 DEF Before
<1> QED BY <1>2, <1>3, <1>7, <1>8, <1>10, <1>11

\* A submission puts its operation in its queue.
LEMMA SubmitQueues ==
  ASSUME TypeOK, NEW o \in IoOp, Submitted(o)
  PROVE  /\ \A x \in IoOp : InQueue(x)' <=> InQueue(x) \/ x = o
         /\ completed' = completed /\ \A x : Succeeded(x)' <=> Succeeded(x)
<1> DEFINE c == ChanOf[o]
<1>1. c \in Chan /\ \A x \in IoOp : ChanOf[x] \in Chan
  BY FunctionsAssumption
<1>2. \/ /\ o \in Producer /\ consumers' = consumers
         /\ producers' = [producers EXCEPT ![c] = Append(@, o)]
      \/ /\ o \in Consumer /\ producers' = producers
         /\ consumers' = [consumers EXCEPT ![c] = Append(@, o)]
  BY DEF Submitted, SubmitProduce, SubmitConsume, PushProducer, PushConsumer
<1>3. completed' = completed /\ \A x : Succeeded(x)' <=> Succeeded(x)
  BY DEF Submitted, Succeeded
<1>4. ASSUME NEW x \in IoOp
      PROVE  InQueue(x)' <=> InQueue(x) \/ x = o
  <2>1. \A S : \A s \in Seq(S) : Range(Append(s, o)) = Range(s) \cup {o}
    <3> SUFFICES ASSUME NEW S, NEW s \in Seq(S)
                 PROVE  Range(Append(s, o)) = Range(s) \cup {o}
      OBVIOUS
    <3>1. /\ DOMAIN Append(s, o) = DOMAIN s \cup {Len(s) + 1}
          /\ \A i \in DOMAIN s : Append(s, o)[i] = s[i]
          /\ Append(s, o)[Len(s) + 1] = o
      OBVIOUS
    <3> QED BY <3>1 DEF Range
  <2>2. producers[c] \in Seq(Producer) /\ consumers[c] \in Seq(Consumer)
    BY <1>1 DEF TypeOK
  <2>3. /\ Range(Append(producers[c], o)) = Range(producers[c]) \cup {o}
        /\ Range(Append(consumers[c], o)) = Range(consumers[c]) \cup {o}
    BY <2>1, <2>2
  <2>4. CASE /\ consumers' = consumers
             /\ producers' = [producers EXCEPT ![c] = Append(@, o)]
    <3>1. \A d \in Chan : producers'[d] = IF d = c THEN Append(producers[c], o)
                                          ELSE producers[d]
      BY <2>4 DEF TypeOK
    <3> QED BY <1>1, <2>3, <2>4, <3>1 DEF InQueue
  <2>5. CASE /\ producers' = producers
             /\ consumers' = [consumers EXCEPT ![c] = Append(@, o)]
    <3>1. \A d \in Chan : consumers'[d] = IF d = c THEN Append(consumers[c], o)
                                          ELSE consumers[d]
      BY <2>5 DEF TypeOK
    <3> QED BY <1>1, <2>3, <2>5, <3>1 DEF InQueue
  <2> QED BY <1>2, <2>4, <2>5
<1> QED BY <1>3, <1>4

\* A submission queues the latest operation.
LEMMA SubmitInOrder ==
  ASSUME TypeOK, QueuedOnce, ArrivedInv, QueueOrder, NEW o \in IoOp, Submitted(o)
  PROVE  QueueOrder'
<1> DEFINE c == ChanOf[o]
<1>1. c \in Chan /\ \A x \in IoOp : ChanOf[x] \in Chan
  BY FunctionsAssumption
<1>2. /\ ~Came(o)
      /\ \A d \in Chan : \A x, y :
           Before(d, x, y)' <=> \/ Before(d, x, y)
                                \/ d = c /\ x \in Range(arrived[d]) /\ y = o
      /\ \A x \in IoOp : Came(x)' <=> Came(x) \/ x = o
  BY SubmitBefore
<1>3. \/ /\ o \in Producer /\ consumers' = consumers
         /\ producers' = [producers EXCEPT ![c] = Append(@, o)]
      \/ /\ o \in Consumer /\ producers' = producers
         /\ consumers' = [consumers EXCEPT ![c] = Append(@, o)]
  BY DEF Submitted, SubmitProduce, SubmitConsume, PushProducer, PushConsumer
<1>4. completed' = completed /\ \A x : Succeeded(x)' <=> Succeeded(x)
  BY SubmitQueues
<1>5. ASSUME NEW d \in Chan
      PROVE  \A x \in Range(producers[d]) \cup Range(consumers[d]) :
               x \in Range(arrived[d])
  <2>1. \A x \in Range(producers[d]) \cup Range(consumers[d]) : x \in IoOp /\ ChanOf[x] = d
    BY DEF QueuedOnce, TypeOK, Range, IoOp
  <2> QED BY <2>1 DEF QueueOrder, InQueue, Came
<1>6. ASSUME NEW d \in Chan
      PROVE  (InOrder(producers[d], d) /\ InOrder(consumers[d], d))'
  <2>1. ASSUME NEW S, NEW s \in Seq(S), InOrder(s, d)
        PROVE  \A m, n \in DOMAIN s : m < n => Before(d, s[m], s[n])'
    BY <1>2, <2>1 DEF InOrder
  <2>2. producers[d] \in Seq(Producer) /\ consumers[d] \in Seq(Consumer)
    BY DEF TypeOK
  <2>3. ASSUME NEW S, NEW s \in Seq(S), InOrder(s, c), d = c,
               \A x \in Range(s) : x \in Range(arrived[c])
        PROVE  \A m, n \in DOMAIN Append(s, o) :
                 m < n => Before(d, Append(s, o)[m], Append(s, o)[n])'
    <3> DEFINE t == Append(s, o)
    <3>1. /\ DOMAIN s = 1 .. Len(s) /\ Len(s) \in Nat
          /\ DOMAIN t = 1 .. Len(s) + 1
          /\ \A i \in 1 .. Len(s) : t[i] = s[i]
          /\ t[Len(s) + 1] = o
      OBVIOUS
    <3> HIDE DEF t
    <3>2. ASSUME NEW m \in DOMAIN t, NEW n \in DOMAIN t, m < n
          PROVE  Before(d, t[m], t[n])'
      <4>1. m \in DOMAIN s /\ t[m] = s[m]
        BY <3>1, <3>2
      <4>2. CASE n \in DOMAIN s
        BY <1>2, <2>3, <3>1, <3>2, <4>1, <4>2 DEF InOrder
      <4>3. CASE n = Len(s) + 1
        <5>1. d = c /\ t[n] = o
          BY <2>3, <3>1, <4>3
        <5>2. t[m] \in Range(s)
          BY ONLY <4>1 DEF Range
        <5>3. t[m] \in Range(arrived[d])
          BY <2>3, <5>1, <5>2
        <5> QED BY ONLY <1>2, <5>1, <5>3
      <4> QED BY <3>1, <3>2, <4>2, <4>3
    <3> QED BY <3>2 DEF t
  <2>4. producers'[d] = producers[d]
          \/ (d = c /\ producers'[d] = Append(producers[c], o))
    BY <1>3 DEF TypeOK
  <2>5. consumers'[d] = consumers[d]
          \/ (d = c /\ consumers'[d] = Append(consumers[c], o))
    BY <1>3 DEF TypeOK
  <2>6. InOrder(producers[d], d) /\ InOrder(consumers[d], d)
    BY DEF QueueOrder
  <2>7. InOrder(producers[d], d)'
    BY <1>5, <2>1, <2>2, <2>3, <2>4, <2>6 DEF InOrder
  <2>8. InOrder(consumers[d], d)'
    BY <1>5, <2>1, <2>2, <2>3, <2>5, <2>6 DEF InOrder
  <2> QED BY <2>7, <2>8
<1>7. \A x \in IoOp : InQueue(x)' <=> InQueue(x) \/ x = o
  BY SubmitQueues
<1>8. ASSUME NEW x \in IoOp
      PROVE  /\ InQueue(x)' => Came(x)' /\ ~Succeeded(x)'
             /\ Came(x)' /\ ~InQueue(x)' => completed'[CallOf[x]]
             /\ Succeeded(x)' => Came(x)'
  BY <1>2, <1>4, <1>7 DEF QueueOrder
<1>9. ASSUME NEW d \in Chan, NEW x \in IoOp, NEW y \in IoOp,
             Before(d, x, y)', SameKind(x, y), InQueue(x)'
      PROVE  InQueue(y)'
  <2>1. CASE y = o
    BY <1>7, <2>1
  <2>2. CASE y # o
    <3>1. Before(d, x, y)
      BY <1>2, <1>9, <2>2
    <3>2. x \in Range(arrived[d])
      BY <3>1, BeforeIsOrder
    <3>3. x # o
      BY <1>2, <3>2 DEF Came, ArrivedInv
    <3> QED BY <1>7, <1>9, <3>1, <3>3 DEF QueueOrder
  <2> QED BY <2>1, <2>2
<1> QED BY <1>6, <1>8, <1>9 DEF QueueOrder, SameKind

\* A buffer that is left alone stays in order, when those who succeed meanwhile
\* do so past an empty buffer.
LEMMA BufferOrderKept ==
  ASSUME TypeOK, ArrivedInv, BufferOrder, UNCHANGED <<arrived, buffer>>,
         \A y \in Producer : Succeeded(y)' => Succeeded(y) \/ buffer[ChanOf[y]] = <<>>
  PROVE  BufferOrder'
<1> SUFFICES ASSUME NEW c \in Chan
             PROVE  /\ InOrder(buffer[c], c)'
                    /\ \A x \in Range(buffer[c])', y \in Producer :
                         Before(c, x, y)' /\ Succeeded(y)' => y \in Range(buffer[c])'
  BY DEF BufferOrder
<1>1. \A x, y : Before(c, x, y)' <=> Before(c, x, y)
  BY DEF Before
<1>2. InOrder(buffer[c], c)'
  BY <1>1 DEF BufferOrder, InOrder
<1>3. ASSUME NEW x \in Range(buffer[c]), NEW y \in Producer,
             Before(c, x, y), Succeeded(y)'
      PROVE  y \in Range(buffer[c])
  <2>1. ChanOf[y] = c
    BY <1>3, BeforeIsOrder DEF ArrivedInv
  <2>2. buffer[c] # <<>>
    BY <1>3 DEF Range
  <2> QED BY <1>3, <2>1, <2>2 DEF BufferOrder
<1> QED BY <1>1, <1>2, <1>3

\* The oldest value leaves the buffer: nothing in it came before.
LEMMA BufferOrderPops ==
  ASSUME TypeOK, ArrivedInv, BuffersInv, BufferOrder, arrived' = arrived,
         NEW c \in Chan, buffer[c] # <<>>, buffer' = [buffer EXCEPT ![c] = Tail(@)],
         \A y \in Producer : Succeeded(y)' <=> Succeeded(y)
  PROVE  BufferOrder'
<1> SUFFICES ASSUME NEW d \in Chan
             PROVE  /\ InOrder(buffer[d], d)'
                    /\ \A x \in Range(buffer[d])', y \in Producer :
                         Before(d, x, y)' /\ Succeeded(y)' => y \in Range(buffer[d])'
  BY DEF BufferOrder
<1>1. \A x, y : Before(d, x, y)' <=> Before(d, x, y)
  BY DEF Before
<1>2. /\ InOrder(buffer[d], d)
      /\ \A x \in Range(buffer[d]), y \in Producer :
           Before(d, x, y) /\ Succeeded(y) => y \in Range(buffer[d])
  BY DEF BufferOrder
<1>3. CASE d # c
  <2>1. buffer'[d] = buffer[d]
    BY <1>3 DEF TypeOK
  <2> QED BY <1>1, <1>2, <2>1 DEF InOrder
<1>4. CASE d = c
  <2>1. buffer'[c] = Tail(buffer[c])
    BY DEF TypeOK
  <2>2. /\ Range(Tail(buffer[c])) = Range(buffer[c]) \ {Head(buffer[c])}
        /\ InOrder(Tail(buffer[c]), c)
        /\ \A x \in Range(Tail(buffer[c])) : Before(c, Head(buffer[c]), x)
    BY <1>2, <1>4, TailDistinct, TailInOrder DEF TypeOK, BuffersInv
  <2>3. InOrder(buffer[d], d)'
    BY <1>1, <1>4, <2>1, <2>2 DEF InOrder
  <2>4. ASSUME NEW x \in Range(Tail(buffer[c])), NEW y \in Producer,
               Before(c, x, y), Succeeded(y)
        PROVE  y \in Range(Tail(buffer[c]))
    <3>1. y \in Range(buffer[c])
      BY <1>2, <1>4, <2>2, <2>4
    <3>2. y # Head(buffer[c])
      BY <2>2, <2>4, BeforeIsOrder
    <3> QED BY <2>2, <3>1, <3>2
  <2> QED BY <1>1, <1>4, <2>1, <2>3, <2>4
<1> QED BY <1>3, <1>4

\* A value enters the buffer from the queue, the last of those that succeeded.
LEMMA BufferOrderPushes ==
  ASSUME TypeOK, ArrivedInv, ValuesInv, QueueOrder, BufferOrder, arrived' = arrived,
         NEW p \in Producer, InQueue(p),
         buffer' = [buffer EXCEPT ![ChanOf[p]] = Append(@, p)],
         \A y \in Producer : Succeeded(y)' <=> Succeeded(y) \/ y = p
  PROVE  BufferOrder'
<1> DEFINE c == ChanOf[p]
<1> SUFFICES ASSUME NEW d \in Chan
             PROVE  /\ InOrder(buffer[d], d)'
                    /\ \A x \in Range(buffer[d])', y \in Producer :
                         Before(d, x, y)' /\ Succeeded(y)' => y \in Range(buffer[d])'
  BY DEF BufferOrder
<1>1. \A x, y : Before(d, x, y)' <=> Before(d, x, y)
  BY DEF Before
<1>2. /\ InOrder(buffer[d], d)
      /\ \A x \in Range(buffer[d]), y \in Producer :
           Before(d, x, y) /\ Succeeded(y) => y \in Range(buffer[d])
  BY DEF BufferOrder
<1>3. c \in Chan /\ p \in IoOp /\ Came(p) /\ ~Succeeded(p)
  BY FunctionsAssumption DEF QueueOrder, IoOp
<1>4. CASE d # c
  <2>1. buffer'[d] = buffer[d]
    BY <1>4 DEF TypeOK
  <2>2. \A x, y : Before(d, x, y) => y # p
    BY <1>4, BeforeIsOrder DEF ArrivedInv
  <2> QED BY <1>1, <1>2, <2>1, <2>2 DEF InOrder
<1>5. CASE d = c
  <2>1. buffer[c] \in Seq(Producer) /\ buffer'[c] = Append(buffer[c], p)
    BY <1>3 DEF TypeOK
  <2>2. ~Buffered(p)
    BY <1>3 DEF ValuesInv, OnePlace
  <2>3. Range(Append(buffer[c], p)) = Range(buffer[c]) \cup {p}
    BY <1>3, <2>1, <2>2, AppendDistinct DEF ValuesInv, BuffersInv, Buffered
  <2>4. ASSUME NEW x \in IoOp, x \in Producer, Before(c, p, x)
        PROVE  ~Succeeded(x)
    <3>1. InQueue(x)
      BY <1>3, <2>4 DEF QueueOrder, SameKind
    <3> QED BY <3>1 DEF QueueOrder
  <2>5. ASSUME NEW x \in Range(buffer[c])
        PROVE  Before(c, x, p)
    <3>1. x \in Producer /\ x \in IoOp /\ ChanOf[x] = c
      BY <1>3, <2>1 DEF Range, ValuesInv, BuffersInv, IoOp
    <3>2. Succeeded(x)
      BY <3>1 DEF ValuesInv, OnePlace, Buffered
    <3>3. x \in Range(arrived[c]) /\ p \in Range(arrived[c]) /\ x # p
      BY <1>3, <3>1, <3>2 DEF QueueOrder, Came
    <3> QED BY <1>3, <2>4, <3>1, <3>2, <3>3, BeforeIsOrder
  <2>6. InOrder(Append(buffer[c], p), c)
    BY <1>2, <1>5, <2>1, <2>5, AppendInOrder
  <2>7. InOrder(buffer[d], d)'
    BY <1>1, <1>5, <2>1, <2>6 DEF InOrder
  <2>8. ASSUME NEW x \in Range(buffer[c]) \cup {p}, NEW y \in Producer,
               Before(c, x, y), Succeeded(y) \/ y = p
        PROVE  y \in Range(buffer[c]) \cup {p}
    <3>1. CASE x = p
      <4>1. y # p
        BY <1>3, <2>8, <3>1, BeforeIsOrder
      <4> QED BY <2>4, <2>8, <3>1, <4>1 DEF IoOp
    <3>2. CASE x # p
      BY <1>2, <1>5, <2>8, <3>2
    <3> QED BY <3>1, <3>2
  <2> QED BY <1>1, <1>5, <2>1, <2>3, <2>7, <2>8
<1> QED BY <1>4, <1>5

\* The calls of the results are completed then.
LEMMA FinishesCompleted ==
  ASSUME NEW rs, Finishes(rs), NEW k \in Call,
         completed[k] \/ \E r \in rs : CallOf[r.which] = k
  PROVE  completed'[k]
<1>1. CASE \E r \in rs : CallOf[r.which] = k
  BY <1>1 DEF Finishes
<1>2. CASE completed[k] /\ \A r \in rs : CallOf[r.which] # k
  BY <1>2 DEF Finishes
<1> QED BY <1>1, <1>2

\* Every effect of a flush is one of those moves.
LEMMA FlushMoves ==
  ASSUME TypeOK, NEW c \in Chan, FlushEffect(c)
  PROVE  \E rs : QueuesMove(c, rs)
<1>1. UNCHANGED <<arrived, unsubmitted>>
  BY DEF FlushEffect
<1>2. /\ producers[c] # <<>> => CallOf[FrontProducer(c)] \in Call
      /\ consumers[c] # <<>> => CallOf[FrontConsumer(c)] \in Call
  BY HeadsType
<1>3. CASE Dropped(c)
  <2>1. Finishes({})
    BY <1>3 DEF Dropped
  <2>2. producers[c] # <<>> /\ completed[CallOf[FrontProducer(c)]]
          => completed'[CallOf[FrontProducer(c)]]
    BY <1>2, <2>1, FinishesCompleted
  <2>3. consumers[c] # <<>> /\ completed[CallOf[FrontConsumer(c)]]
          => completed'[CallOf[FrontConsumer(c)]]
    BY <1>2, <2>1, FinishesCompleted
  <2>4. QueuesMove(c, {})
    BY <1>1, <1>3, <2>1, <2>2, <2>3 DEF Dropped, QueuesMove
  <2> QED BY <2>4
<1>4. CASE Cancelled(c) \/ Accepted(c)
  <2>1. PICK r : /\ Finishes({r}) /\ r.which = FrontProducer(c)
                 /\ producers[c] # <<>> /\ PopProducer(c) /\ consumers' = consumers
    BY <1>4 DEF Cancelled, Accepted, Ok, ChannelClosed
  <2>2. completed'[CallOf[FrontProducer(c)]]
    BY <1>2, <2>1, FinishesCompleted
  <2>3. QueuesMove(c, {r})
    BY <1>1, <2>1, <2>2 DEF QueuesMove
  <2> QED BY <2>3
<1>5. CASE Refused(c) \/ Delivered(c)
  <2>1. PICK r : /\ Finishes({r}) /\ r.which = FrontConsumer(c)
                 /\ consumers[c] # <<>> /\ PopConsumer(c) /\ producers' = producers
    BY <1>5 DEF Refused, Delivered, Ok, ChannelClosed
  <2>2. completed'[CallOf[FrontConsumer(c)]]
    BY <1>2, <2>1, FinishesCompleted
  <2>3. QueuesMove(c, {r})
    BY <1>1, <2>1, <2>2 DEF QueuesMove
  <2> QED BY <2>3
<1>6. CASE Transferred(c)
  <2> PICK r : r = Ok(FrontProducer(c), NoValue)
    OBVIOUS
  <2> PICK t : t = Ok(FrontConsumer(c), FrontProducer(c))
    OBVIOUS
  <2>1. /\ Finishes({r, t})
        /\ r.which = FrontProducer(c) /\ t.which = FrontConsumer(c)
        /\ producers[c] # <<>> /\ PopProducer(c)
        /\ consumers[c] # <<>> /\ PopConsumer(c)
    BY <1>6 DEF Transferred, Ok
  <2>2. completed'[CallOf[FrontProducer(c)]]
    BY <1>2, <2>1, FinishesCompleted
  <2>3. completed'[CallOf[FrontConsumer(c)]]
    BY <1>2, <2>1, FinishesCompleted
  <2>4. QueuesMove(c, {r, t})
    BY <1>1, <2>1, <2>2, <2>3 DEF QueuesMove
  <2> QED BY <2>4
<1> QED BY <1>3, <1>4, <1>5, <1>6 DEF FlushEffect

\* A flush serves its queues in order.
LEMMA FlushOrder ==
  ASSUME TypeOK, QueuedOnce, ValuesInv, OrderInv, NEW c \in Chan, FlushEffect(c)
  PROVE  OrderInv'
<1> USE DEF OrderInv
<1>1. ArrivedInv' /\ QueueOrder'
  BY FlushMoves, QueuesMoveInOrder
<1>2. arrived' = arrived
  BY DEF FlushEffect
<1>3. \A y \in Producer : y \in IoOp
  BY DEF IoOp
<1>4. consumers[c] # <<>> => FrontConsumer(c) \notin Producer
  BY HeadsType, SetsAssumption
<1>5. CASE Dropped(c) \/ Cancelled(c) \/ Refused(c)
  <2>1. PICK rs : /\ Finishes(rs) /\ \A r \in rs : r.ec = "closed"
    BY <1>5 DEF Dropped, Cancelled, Refused, ChannelClosed
  <2>2. buffer' = buffer
    BY <1>5 DEF Dropped, Cancelled, Refused
  <2>3. \A y \in Producer : Succeeded(y)' => Succeeded(y)
    BY <1>3, <2>1, FinishesSucceeded
  <2> QED BY <1>1, <1>2, <2>2, <2>3, BufferOrderKept
<1>6. CASE Delivered(c)
  <2> PICK r : r = Ok(FrontConsumer(c), Head(buffer[c]))
    OBVIOUS
  <2>1. Finishes({r}) /\ r.which = FrontConsumer(c)
    BY <1>6 DEF Delivered, Ok
  <2>2. \A y \in Producer : Succeeded(y)' <=> Succeeded(y)
    BY <1>3, <1>4, <1>6, <2>1, FinishesSucceeded DEF Delivered
  <2> QED BY <1>1, <1>2, <1>6, <2>2, BufferOrderPops DEF Delivered, ValuesInv
<1>7. CASE Accepted(c)
  <2> PICK r : r = Ok(FrontProducer(c), NoValue)
    OBVIOUS
  <2>1. Finishes({r}) /\ r.which = FrontProducer(c) /\ r.ec = "ok"
    BY <1>7 DEF Accepted, Ok
  <2>2. producers[c] # <<>> /\ PopProducer(c)
    BY <1>7 DEF Accepted
  <2>3. PICK p \in Producer : p = FrontProducer(c)
    BY <2>2, HeadsType
  <2>4. ChanOf[p] = c /\ p \in Range(producers[c])
    BY <2>2, <2>3, PopProducerDistinct, TailDistinct DEF TypeOK, QueuedOnce, FrontProducer
  <2>5. buffer' = [buffer EXCEPT ![ChanOf[p]] = Append(@, p)] /\ InQueue(p)
    BY <1>7, <2>3, <2>4 DEF Accepted, InQueue
  <2>6. \A y \in Producer : Succeeded(y)' <=> Succeeded(y) \/ y = p
    BY <1>3, <2>1, <2>3, FinishesSucceeded
  <2> QED BY <1>1, <1>2, <2>5, <2>6, BufferOrderPushes
<1>8. CASE Transferred(c)
  <2> PICK r : r = Ok(FrontProducer(c), NoValue)
    OBVIOUS
  <2> PICK t : t = Ok(FrontConsumer(c), FrontProducer(c))
    OBVIOUS
  <2>1. /\ Finishes({r, t})
        /\ r.which = FrontProducer(c) /\ t.which = FrontConsumer(c)
    BY <1>8 DEF Transferred, Ok
  <2>2. /\ producers[c] # <<>> /\ PopProducer(c) /\ consumers[c] # <<>>
        /\ buffer' = buffer /\ buffer[c] = <<>>
    BY <1>8 DEF Transferred
  <2>3. ChanOf[FrontProducer(c)] = c
    BY <2>2, PopProducerDistinct
  <2>4. \A y \in Producer : Succeeded(y)' => Succeeded(y) \/ buffer[ChanOf[y]] = <<>>
    BY <1>3, <1>4, <2>1, <2>2, <2>3, FinishesSucceeded
  <2> QED BY <1>1, <1>2, <2>2, <2>4, BufferOrderKept
<1> QED BY <1>5, <1>6, <1>7, <1>8 DEF FlushEffect

\* So does a poll.
LEMMA PollOrder ==
  ASSUME TypeOK, CallsInv, ValuesInv, OrderInv, NEW q \in Poller, ConsumeIf(q)
  PROVE  OrderInv'
<1> USE DEF OrderInv
<1> DEFINE c == Target[q]
<1>1. c \in Chan /\ UNCHANGED <<arrived, unsubmitted, consumers>>
  BY FunctionsAssumption DEF ConsumeIf, PollBuffer, PollProducer, PollNothing, Poll
<1>2. CASE PollProducer(q)
  <2>1. /\ producers[c] # <<>> /\ PopProducer(c)
        /\ buffer' = buffer /\ buffer[c] = <<>>
    BY <1>2 DEF PollProducer
  <2> PICK r : r = Ok(FrontProducer(c), NoValue)
    OBVIOUS
  <2>2. Finishes({r}) /\ r.which = FrontProducer(c)
    BY <1>2, PollFinishes DEF Ok
  <2>3. CallOf[FrontProducer(c)] \in Call /\ ChanOf[FrontProducer(c)] = c
    BY <1>1, <2>1, HeadsType, PopProducerDistinct DEF CallsInv
  <2>4. completed'[CallOf[FrontProducer(c)]]
    BY <2>2, <2>3, FinishesCompleted
  <2>5. QueuesMove(c, {r})
    BY <1>1, <2>1, <2>2, <2>4 DEF QueuesMove
  <2>6. ArrivedInv' /\ QueueOrder'
    BY <1>1, <2>5, QueuesMoveInOrder DEF CallsInv
  <2>7. \A y \in Producer : Succeeded(y)' => Succeeded(y) \/ buffer[ChanOf[y]] = <<>>
    BY <2>1, <2>2, <2>3, FinishesSucceeded DEF IoOp
  <2> QED BY <1>1, <2>1, <2>6, <2>7, BufferOrderKept
<1>3. CASE PollBuffer(q) \/ PollNothing(q)
  <2>1. UNCHANGED <<producers, completed, posted>>
    BY <1>3 DEF PollBuffer, PollNothing, callVars
  <2>2. \A y \in Producer : Succeeded(y)' <=> Succeeded(y)
    BY <2>1 DEF Succeeded
  <2>3. QueuesMove(c, {})
    BY <1>1, <2>1, FinishesNothing DEF QueuesMove, callVars
  <2>4. ArrivedInv' /\ QueueOrder'
    BY <1>1, <2>3, QueuesMoveInOrder DEF CallsInv
  <2>5. CASE PollBuffer(q)
    BY <1>1, <2>2, <2>4, <2>5, BufferOrderPops DEF PollBuffer, ValuesInv
  <2>6. CASE PollNothing(q)
    BY <1>1, <2>2, <2>4, <2>6, BufferOrderKept DEF PollNothing
  <2> QED BY <1>3, <2>5, <2>6
<1> QED BY <1>2, <1>3 DEF ConsumeIf

\* Every step preserves the invariant.
LEMMA NextOrder ==
  ASSUME SafeUse, TypeOK, CallsInv, ValuesInv, OrderInv, [Next]_vars
  PROVE  OrderInv'
<1>1. CASE \E c \in Chan : FlushEffect(c)
  BY <1>1, FlushOrder DEF CallsInv
<1>2. CASE \E q \in Poller : ConsumeIf(q)
  BY <1>2, PollOrder
<1>3. CASE \E o \in IoOp : Submitted(o)
  <2>1. PICK o \in IoOp : Submitted(o)
    BY <1>3
  <2>2. ArrivedInv' /\ QueueOrder'
    BY <2>1, SubmitBefore, SubmitInOrder DEF CallsInv, OrderInv
  <2>3. BufferOrder'
    <3>1. buffer' = buffer /\ \A y : Succeeded(y)' <=> Succeeded(y)
      BY <2>1 DEF Submitted, Succeeded
    <3>2. ~Succeeded(o)
      BY <2>1, SubmitBefore DEF OrderInv, QueueOrder
    <3>3. ASSUME NEW d \in Chan
          PROVE  InOrder(buffer[d], d)'
      <4>1. InOrder(buffer[d], d)
        BY DEF OrderInv, BufferOrder
      <4>2. \A x, y : Before(d, x, y) => Before(d, x, y)'
        BY <2>1, SubmitBefore DEF OrderInv
      <4> QED BY <3>1, <4>1, <4>2 DEF InOrder
    <3>4. ASSUME NEW d \in Chan, NEW x \in Range(buffer[d]), NEW y \in Producer,
                 Before(d, x, y)', Succeeded(y)
          PROVE  y \in Range(buffer[d])
      <4>1. Before(d, x, y)
        BY <2>1, <3>2, <3>4, SubmitBefore DEF OrderInv
      <4> QED BY <3>4, <4>1 DEF OrderInv, BufferOrder
    <3> QED BY <3>1, <3>3, <3>4 DEF BufferOrder
  <2> QED BY <2>2, <2>3 DEF OrderInv
<1>4. ASSUME UNCHANGED <<buffer, producers, consumers, completed, posted,
                         unsubmitted, arrived>>
      PROVE  OrderInv'
  BY <1>4
  DEF OrderInv, ArrivedInv, QueueOrder, BufferOrder, InOrder, Before, InQueue, Came,
      Succeeded, SameKind
<1>5. CASE (\E c \in Chan : ClosedOnly(c)) \/ Quiet
  BY <1>4, <1>5 DEF ClosedOnly, Quiet
<1> QED BY <1>1, <1>2, <1>3, <1>5, NextHasEffect

\* At first nothing has come.
LEMMA InitOrder == Init => OrderInv
<1> SUFFICES ASSUME Init PROVE OrderInv
  OBVIOUS
<1>1. Range(<<>>) = {} /\ IsInjective(<<>>) /\ \A c : InOrder(<<>>, c)
  BY DEF Range, IsInjective, InOrder
<1>2. \A c \in Chan : /\ arrived[c] = <<>> /\ buffer[c] = <<>>
                      /\ producers[c] = <<>> /\ consumers[c] = <<>>
  BY DEF Init
<1>3. \A c \in Chan : \A x, y : ~Before(c, x, y)
  BY <1>2 DEF Before
<1>4. \A o \in IoOp : ~InQueue(o) /\ ~Came(o) /\ ~Succeeded(o)
  BY <1>1, <1>2, FunctionsAssumption DEF Init, InQueue, Came, Succeeded
<1>5. ArrivedInv
  BY <1>1, <1>2 DEF ArrivedInv
<1>6. QueueOrder
  BY <1>1, <1>2, <1>3, <1>4 DEF QueueOrder
<1>7. BufferOrder
  BY <1>1, <1>2 DEF BufferOrder
<1> QED BY <1>5, <1>6, <1>7 DEF OrderInv

\* Operations are served in the order of their submission: the invariant.
LEMMA OrderInvariant ==
  ASSUME SafeUse
  PROVE  Spec => [](TypeOK /\ OrderInv)
<1>1. TypeOK /\ CallsInv /\ ValuesInv /\ [Next]_vars => ValuesInv'
  BY NextValues
<1>2. TypeOK /\ CallsInv /\ ValuesInv /\ OrderInv /\ [Next]_vars => OrderInv'
  BY NextOrder
<1> QED BY <1>1, <1>2, InitValues, InitOrder, TypeCorrect, CallsInvariant, PTL DEF Spec

\* An older operation of the same kind is out of its queue when a later one has
\* succeeded.
LEMMA OlderServed ==
  ASSUME TypeOK, OrderInv, NEW c \in Chan,
         NEW i \in DOMAIN arrived[c], NEW j \in DOMAIN arrived[c], i < j,
         SameKind(arrived[c][i], arrived[c][j]), Succeeded(arrived[c][j])
  PROVE  /\ ChanOf[arrived[c][i]] = c /\ ~InQueue(arrived[c][i])
         /\ completed[CallOf[arrived[c][i]]]
         /\ BothSend(arrived[c][i], arrived[c][j]) /\ arrived[c][j] \notin Range(buffer[c])
              => arrived[c][i] \notin Range(buffer[c])
<1> DEFINE x == arrived[c][i]
           y == arrived[c][j]
<1>1. x \in IoOp /\ y \in IoOp
  BY DEF TypeOK
<1>2. Before(c, x, y) /\ x \in Range(arrived[c])
  BY DEF Before, Range
<1>3. ChanOf[x] = c /\ Came(x)
  BY <1>2 DEF OrderInv, ArrivedInv, Came
<1>4. ~InQueue(x)
  BY <1>1, <1>2 DEF OrderInv, QueueOrder
<1>5. completed[CallOf[x]]
  BY <1>1, <1>3, <1>4 DEF OrderInv, QueueOrder
<1>6. BothSend(x, y) /\ y \notin Range(buffer[c]) => x \notin Range(buffer[c])
  BY <1>2 DEF OrderInv, BufferOrder, BothSend
<1> QED BY <1>3, <1>4, <1>5, <1>6

\* First come, first served on every channel: no operation succeeds before the
\* calls of the older ones of its kind are completed, and the values leave the
\* buffer in the order in which they were sent.
THEOREM FirstComeFirstServed ==
  ASSUME SafeUse
  PROVE  Spec => []FifoOrder
<1>1. TypeOK /\ OrderInv => FifoOrder
  BY OlderServed DEF FifoOrder
<1> QED BY <1>1, OrderInvariant, PTL

\* A match sweeps the queue: no older operation of its kind is left in it, the
\* stale ones of ties included.
THEOREM MatchSweepsQueue ==
  ASSUME SafeUse
  PROVE  Spec => []StaleSwept
<1>1. TypeOK /\ OrderInv => StaleSwept
  BY OlderServed DEF StaleSwept, InQueue
<1> QED BY <1>1, OrderInvariant, PTL

-----------------------------------------------------------------------------
(***************************************************************************)
(* The refinement mapping: what the steps do to the state of ChannelAbs.   *)
(***************************************************************************)
\* The mapping reads the queues, the flags and the order of submission only.
LEMMA AheadKept ==
  ASSUME UNCHANGED <<producers, consumers, completed, arrived>>
  PROVE  ahead' = ahead
  BY DEF ahead, Waiting, CameBefore, SameKind

\* The operations whose calls complete with the results rs.
Gone(rs) == {o \in IoOp : \E r \in rs : CallOf[o] = CallOf[r.which]}

\* When the heads of the queues are popped and calls complete, it is the
\* operations of these calls that wait no more, on all channels.
LEMMA MovesWithdraw ==
  ASSUME TypeOK, CallsInv, OrderInv, NEW c \in Chan, NEW rs, QueuesMove(c, rs)
  PROVE  Abs!Withdraw(Gone(rs))
<1>1. Finishes(rs) /\ arrived' = arrived
  BY DEF QueuesMove
<1>2. ASSUME NEW o \in IoOp
      PROVE  o \in Waiting' <=> o \in Waiting \ Gone(rs)
  <2>1. CallOf[o] \in Call
    BY FunctionsAssumption
  <2>2. /\ InQueue(o)' => InQueue(o)
        /\ InQueue(o) /\ ~InQueue(o)' => completed'[CallOf[o]]
    BY HeadsLeave DEF CallsInv, OrderInv
  <2>3. completed[CallOf[o]] \/ o \in Gone(rs) => completed'[CallOf[o]]
    BY <1>1, <2>1, FinishesCompleted DEF Gone
  <2>4. completed'[CallOf[o]] => completed[CallOf[o]] \/ o \in Gone(rs)
    BY <1>1, <2>1 DEF Finishes, Gone
  <2> QED BY <2>2, <2>3, <2>4 DEF Waiting, InQueue
<1>3. Waiting' = Waiting \ Gone(rs)
  BY <1>2 DEF Waiting
<1>4. ASSUME NEW o \in Waiting \ Gone(rs)
      PROVE  {x \in Waiting : SameKind(x, o) /\ CameBefore(x, o)}' = ahead[o] \ Gone(rs)
  <2>1. \A x : (SameKind(x, o) /\ CameBefore(x, o))' <=> SameKind(x, o) /\ CameBefore(x, o)
    BY <1>1 DEF SameKind, CameBefore
  <2>2. ahead[o] = {x \in Waiting : SameKind(x, o) /\ CameBefore(x, o)}
    BY DEF ahead
  <2> QED BY <1>3, <2>1, <2>2
<1>5. ahead' = [o \in Waiting \ Gone(rs) |-> ahead[o] \ Gone(rs)]
  BY <1>3, <1>4 DEF ahead
<1>6. DOMAIN ahead = Waiting
  BY DEF ahead
<1> QED BY <1>5, <1>6 DEF Abs!Withdraw

\* The handlers of these calls are posted, with their results.
LEMMA FinishesPosts ==
  ASSUME TypeOK, TypeOK', NEW rs, Finishes(rs)
  PROVE  Abs!PostAll(rs)
<1> DEFINE new(k) == IF \E r \in rs : CallOf[r.which] = k
                       THEN Append(posted[k], CHOOSE r \in rs : CallOf[r.which] = k)
                       ELSE posted[k]
<1>1. ASSUME NEW k \in Call
      PROVE  posted'[k] = new(k)
  <2>1. CASE \E r \in rs : CallOf[r.which] = k
    <3>1. PICK r \in rs : CallOf[r.which] = k
      BY <2>1
    <3>2. posted[k] = <<>> /\ posted'[k] = <<r>>
      BY <3>1 DEF Finishes
    <3>3. (CHOOSE s \in rs : CallOf[s.which] = k) = r
      BY <3>1 DEF Finishes
    <3>4. Append(<<>>, r) = <<r>>
      OBVIOUS
    <3> QED BY <2>1, <3>2, <3>3, <3>4
  <2>2. CASE ~ \E r \in rs : CallOf[r.which] = k
    BY <2>2 DEF Finishes
  <2> QED BY <2>1, <2>2
<1>2. posted' = [k \in Call |-> posted'[k]]
  BY DEF TypeOK
<1> HIDE DEF new
<1>3. posted' = [k \in Call |-> new(k)]
  BY <1>1, <1>2
<1> QED BY <1>3 DEF new, Abs!PostAll

LEMMA MovesComplete ==
  ASSUME TypeOK, TypeOK', CallsInv, OrderInv, NEW c \in Chan, NEW rs, QueuesMove(c, rs)
  PROVE  Abs!Complete(rs)
<1>1. Abs!Withdraw(Gone(rs)) /\ Abs!PostAll(rs)
  BY MovesWithdraw, FinishesPosts DEF QueuesMove
<1> QED BY <1>1 DEF Abs!Complete, Gone, Abs!IoOp, IoOp

\* It is the turn of the first operation of a queue, unless it is stale.
LEMMA HeadsAreFirst ==
  ASSUME TypeOK, CallsInv, OrderInv, NEW c \in Chan
  PROVE  /\ producers[c] # <<>> /\ ~completed[CallOf[FrontProducer(c)]]
              => /\ Abs!First(FrontProducer(c)) /\ ChanOf[FrontProducer(c)] = c
         /\ consumers[c] # <<>> /\ ~completed[CallOf[FrontConsumer(c)]]
              => /\ Abs!First(FrontConsumer(c)) /\ ChanOf[FrontConsumer(c)] = c
<1>1. ASSUME producers[c] # <<>>, ~completed[CallOf[FrontProducer(c)]]
      PROVE  Abs!First(FrontProducer(c)) /\ ChanOf[FrontProducer(c)] = c
  <2>1. PICK p \in Producer : p = FrontProducer(c)
    BY <1>1, HeadsType
  <2>2. /\ producers[c] \in Seq(Producer) /\ IsInjective(producers[c])
        /\ InOrder(producers[c], c)
    BY DEF TypeOK, CallsInv, QueuedOnce, OrderInv, QueueOrder
  <2>3. /\ p \in Range(producers[c])
        /\ Range(Tail(producers[c])) = Range(producers[c]) \ {p}
        /\ \A x \in Range(Tail(producers[c])) : Before(c, p, x)
    BY <1>1, <2>1, <2>2, TailDistinct, TailInOrder DEF FrontProducer
  <2>4. p \in IoOp /\ ChanOf[p] = c
    BY <2>3 DEF CallsInv, QueuedOnce, IoOp
  <2>5. p \in Waiting
    BY <1>1, <2>1, <2>3, <2>4 DEF Waiting
  <2>6. ASSUME NEW x \in Waiting, SameKind(x, p), CameBefore(x, p)
        PROVE  FALSE
    <3>1. x \in Producer /\ Before(c, x, p) /\ InQueue(x)
      BY <2>4, <2>6 DEF SameKind, CameBefore, Before, Waiting, InQueue
    <3>2. ~Before(c, p, x) /\ x \in Range(arrived[c]) /\ ~Before(c, x, x)
      BY <3>1, BeforeIsOrder DEF OrderInv
    <3>3. ChanOf[x] = c
      BY <3>2 DEF OrderInv, ArrivedInv
    <3>4. x \in Range(producers[c])
      BY <3>1, <3>3, InQueueByKind DEF IoOp
    <3>5. x # p
      BY <3>1, <3>2
    <3> QED BY <2>3, <3>2, <3>4, <3>5
  <2>7. p \in DOMAIN ahead /\ ahead[p] = {}
    BY <2>5, <2>6 DEF ahead
  <2> QED BY <2>1, <2>4, <2>7 DEF Abs!First, Abs!Waits
<1>2. ASSUME consumers[c] # <<>>, ~completed[CallOf[FrontConsumer(c)]]
      PROVE  Abs!First(FrontConsumer(c)) /\ ChanOf[FrontConsumer(c)] = c
  <2>1. PICK o \in Consumer : o = FrontConsumer(c)
    BY <1>2, HeadsType
  <2>2. /\ consumers[c] \in Seq(Consumer) /\ IsInjective(consumers[c])
        /\ InOrder(consumers[c], c)
    BY DEF TypeOK, CallsInv, QueuedOnce, OrderInv, QueueOrder
  <2>3. /\ o \in Range(consumers[c])
        /\ Range(Tail(consumers[c])) = Range(consumers[c]) \ {o}
        /\ \A x \in Range(Tail(consumers[c])) : Before(c, o, x)
    BY <1>2, <2>1, <2>2, TailDistinct, TailInOrder DEF FrontConsumer
  <2>4. o \in IoOp /\ ChanOf[o] = c
    BY <2>3 DEF CallsInv, QueuedOnce, IoOp
  <2>5. o \in Waiting
    BY <1>2, <2>1, <2>3, <2>4 DEF Waiting
  <2>6. ASSUME NEW x \in Waiting, SameKind(x, o), CameBefore(x, o)
        PROVE  FALSE
    <3>1. x \in IoOp /\ x \notin Producer /\ Before(c, x, o) /\ InQueue(x)
      BY <2>1, <2>4, <2>6, SetsAssumption DEF SameKind, CameBefore, Before, Waiting, InQueue
    <3>2. ~Before(c, o, x) /\ x \in Range(arrived[c]) /\ ~Before(c, x, x)
      BY <3>1, BeforeIsOrder DEF OrderInv
    <3>3. ChanOf[x] = c
      BY <3>2 DEF OrderInv, ArrivedInv
    <3>4. x \in Range(consumers[c])
      BY <3>1, <3>3, InQueueByKind
    <3>5. x # o
      BY <3>1, <3>2
    <3> QED BY <2>3, <3>2, <3>4, <3>5
  <2>7. o \in DOMAIN ahead /\ ahead[o] = {}
    BY <2>5, <2>6 DEF ahead
  <2> QED BY <2>1, <2>4, <2>7 DEF Abs!First, Abs!Waits
<1> QED BY <1>1, <1>2

-----------------------------------------------------------------------------
(***************************************************************************)
(* The steps.                                                              *)
(***************************************************************************)
\* A turn of a flush loop is a match, a refusal or nothing.
LEMMA FlushImplements ==
  ASSUME TypeOK, TypeOK', CallsInv, OrderInv, NEW c \in Chan, FlushEffect(c)
  PROVE  [Abs!Next]_(Abs!vars)
<1>1. UNCHANGED <<closed, polled, unsubmitted, arrived>>
  BY DEF FlushEffect
<1>2. submitted' = submitted
  BY <1>1 DEF submitted
<1>3. /\ producers[c] # <<>> => /\ FrontProducer(c) \in Producer
                               /\ CallOf[FrontProducer(c)] \in Call
      /\ consumers[c] # <<>> => /\ FrontConsumer(c) \in Consumer
                               /\ CallOf[FrontConsumer(c)] \in Call
  BY HeadsType
<1>4. CASE Dropped(c)
  <2>1. Finishes({})
    BY <1>4 DEF Dropped
  <2>2. QueuesMove(c, {})
    BY <1>1, <1>3, <1>4, <2>1, FinishesCompleted DEF Dropped, QueuesMove
  <2>3. Abs!PostAll({}) /\ Abs!Withdraw(Gone({}))
    BY <2>1, <2>2, FinishesPosts, MovesWithdraw
  <2>4. ahead' = ahead
    BY <2>3 DEF Abs!Withdraw, Gone, ahead
  <2>5. posted' = posted
    BY <2>3 DEF Abs!PostAll, TypeOK
  <2> QED BY <1>1, <1>2, <1>4, <2>4, <2>5 DEF Dropped, Abs!vars
<1>5. CASE Cancelled(c)
  <2>1. PICK p \in Producer : p = FrontProducer(c) /\ CallOf[p] \in Call
    BY <1>3, <1>5 DEF Cancelled
  <2> PICK r : r = ChannelClosed(p)
    OBVIOUS
  <2>2. Finishes({r}) /\ r.which = p
    BY <1>5, <2>1 DEF Cancelled, ChannelClosed
  <2>3. QueuesMove(c, {r})
    BY <1>1, <1>5, <2>1, <2>2, FinishesCompleted DEF Cancelled, QueuesMove
  <2>4. ~completed[CallOf[p]]
    BY <2>1, <2>2 DEF Finishes
  <2>5. Abs!First(p) /\ ChanOf[p] = c
    BY <1>5, <2>1, <2>4, HeadsAreFirst DEF Cancelled
  <2>6. Abs!Complete({Abs!ChannelClosed(p)})
    BY <2>3, MovesComplete DEF ChannelClosed, Abs!ChannelClosed
  <2>7. Abs!CancelSend(p)
    BY <1>1, <1>2, <1>5, <2>5, <2>6 DEF Cancelled, Abs!CancelSend
  <2> QED BY <2>7 DEF Abs!Next, Abs!Progress, Abs!Match
<1>6. CASE Accepted(c)
  <2>1. PICK p \in Producer : p = FrontProducer(c) /\ CallOf[p] \in Call
    BY <1>3, <1>6 DEF Accepted
  <2> PICK r : r = Ok(p, NoValue)
    OBVIOUS
  <2>2. Finishes({r}) /\ r.which = p
    BY <1>6, <2>1 DEF Accepted, Ok
  <2>3. QueuesMove(c, {r})
    BY <1>1, <1>6, <2>1, <2>2, FinishesCompleted DEF Accepted, QueuesMove
  <2>4. ~completed[CallOf[p]]
    BY <2>1, <2>2 DEF Finishes
  <2>5. Abs!First(p) /\ ChanOf[p] = c
    BY <1>6, <2>1, <2>4, HeadsAreFirst DEF Accepted
  <2>6. Abs!Complete({Abs!Ok(p, NoValue)})
    BY <2>3, MovesComplete DEF Ok, Abs!Ok
  <2>7. Abs!Accept(p)
    BY <1>1, <1>2, <1>6, <2>1, <2>5, <2>6 DEF Accepted, Abs!Accept
  <2> QED BY <2>7 DEF Abs!Next, Abs!Progress, Abs!Match
<1>7. CASE Refused(c)
  <2>1. PICK o \in Consumer : o = FrontConsumer(c) /\ CallOf[o] \in Call
    BY <1>3, <1>7 DEF Refused
  <2> PICK r : r = ChannelClosed(o)
    OBVIOUS
  <2>2. Finishes({r}) /\ r.which = o
    BY <1>7, <2>1 DEF Refused, ChannelClosed
  <2>3. QueuesMove(c, {r})
    BY <1>1, <1>7, <2>1, <2>2, FinishesCompleted DEF Refused, QueuesMove
  <2>4. ~completed[CallOf[o]]
    BY <2>1, <2>2 DEF Finishes
  <2>5. Abs!First(o) /\ ChanOf[o] = c
    BY <1>7, <2>1, <2>4, HeadsAreFirst DEF Refused
  <2>6. Abs!Complete({Abs!ChannelClosed(o)})
    BY <2>3, MovesComplete DEF ChannelClosed, Abs!ChannelClosed
  <2>7. Abs!CancelReceive(o)
    BY <1>1, <1>2, <1>7, <2>5, <2>6 DEF Refused, Abs!CancelReceive
  <2> QED BY <2>7 DEF Abs!Next, Abs!Progress, Abs!Serve
<1>8. CASE Delivered(c)
  <2>1. PICK o \in Consumer : o = FrontConsumer(c) /\ CallOf[o] \in Call
    BY <1>3, <1>8 DEF Delivered
  <2> PICK r : r = Ok(o, Head(buffer[c]))
    OBVIOUS
  <2>2. Finishes({r}) /\ r.which = o
    BY <1>8, <2>1 DEF Delivered, Ok
  <2>3. QueuesMove(c, {r})
    BY <1>1, <1>8, <2>1, <2>2, FinishesCompleted DEF Delivered, QueuesMove
  <2>4. ~completed[CallOf[o]]
    BY <2>1, <2>2 DEF Finishes
  <2>5. Abs!First(o) /\ ChanOf[o] = c
    BY <1>8, <2>1, <2>4, HeadsAreFirst DEF Delivered
  <2>6. Abs!Complete({Abs!Ok(o, Head(buffer[c]))})
    BY <2>3, MovesComplete DEF Ok, Abs!Ok
  <2>7. Abs!Deliver(o)
    BY <1>1, <1>2, <1>8, <2>1, <2>5, <2>6 DEF Delivered, Abs!Deliver
  <2> QED BY <2>7 DEF Abs!Next, Abs!Progress, Abs!Serve
<1>9. CASE Transferred(c)
  <2>1. PICK p \in Producer : p = FrontProducer(c) /\ CallOf[p] \in Call
    BY <1>3, <1>9 DEF Transferred
  <2>2. PICK o \in Consumer : o = FrontConsumer(c) /\ CallOf[o] \in Call
    BY <1>3, <1>9 DEF Transferred
  <2> PICK r : r = Ok(p, NoValue)
    OBVIOUS
  <2> PICK s : s = Ok(o, p)
    OBVIOUS
  <2>3. Finishes({r, s}) /\ r.which = p /\ s.which = o
    BY <1>9, <2>1, <2>2 DEF Transferred, Ok
  <2>4. completed'[CallOf[p]] /\ completed'[CallOf[o]]
    BY <2>1, <2>2, <2>3, FinishesCompleted
  <2>5. QueuesMove(c, {r, s})
    BY <1>1, <1>9, <2>1, <2>2, <2>3, <2>4 DEF Transferred, QueuesMove
  <2>6. ~completed[CallOf[p]] /\ ~completed[CallOf[o]]
    BY <2>1, <2>2, <2>3 DEF Finishes
  <2>7. /\ Abs!First(p) /\ ChanOf[p] = c
        /\ Abs!First(o) /\ ChanOf[o] = c
    BY <1>9, <2>1, <2>2, <2>6, HeadsAreFirst DEF Transferred
  <2>8. Abs!Complete({Abs!Ok(p, NoValue), Abs!Ok(o, p)})
    BY <2>5, MovesComplete DEF Ok, Abs!Ok
  <2>9. Abs!Transfer(p, o)
    BY <1>1, <1>2, <1>9, <2>1, <2>2, <2>7, <2>8 DEF Transferred, Abs!Transfer
  <2> QED BY <2>9 DEF Abs!Next, Abs!Progress, Abs!Match
<1> QED BY <1>4, <1>5, <1>6, <1>7, <1>8, <1>9 DEF FlushEffect

\* A submission is an arrival.
LEMMA SubmitImplements ==
  ASSUME TypeOK, CallsInv, OrderInv, NEW o \in IoOp, Submitted(o)
  PROVE  Abs!Arrive(o)
<1> DEFINE k == CallOf[o]
<1>1. k \in Call /\ ChanOf[o] \in Chan /\ \A x \in IoOp : ChanOf[x] \in Chan
  BY FunctionsAssumption
<1>2. /\ o \in unsubmitted /\ unsubmitted' = unsubmitted \ {o}
      /\ UNCHANGED <<closed, buffer, completed, posted, polled>>
  BY DEF Submitted, SubmitProduce, SubmitConsume, Submit
<1>3. o \notin submitted /\ submitted' = submitted \cup {o}
  BY <1>2 DEF submitted
<1>4. posted[k] = <<>> <=> ~completed[k]
  <2>1. ~completed[k] => posted[k] = <<>>
    BY <1>1, NotYetPosted DEF CallsInv
  <2>2. completed[k] => Len(posted[k]) = 1
    BY <1>1 DEF CallsInv, CompletedOnce
  <2>3. Len(<<>>) = 0
    OBVIOUS
  <2>4. completed[k] => posted[k] # <<>>
    BY <2>2, <2>3
  <2> QED BY <2>1, <2>4
<1>5. /\ ~Came(o)
      /\ \A d \in Chan : \A x, y :
           Before(d, x, y)' <=> \/ Before(d, x, y)
                                \/ d = ChanOf[o] /\ x \in Range(arrived[d]) /\ y = o
  BY SubmitBefore DEF OrderInv
<1>6. \A x \in IoOp : InQueue(x)' <=> InQueue(x) \/ x = o
  BY SubmitQueues
<1>7. \A x \in Waiting : x \in IoOp /\ x \in Range(arrived[ChanOf[x]])
  BY DEF Waiting, InQueue, OrderInv, QueueOrder, Came
<1>8. o \notin Waiting
  BY <1>5, <1>7 DEF Came
<1>9. Waiting' = IF posted[k] = <<>> THEN Waiting \cup {o} ELSE Waiting
  <2>1. \A x \in IoOp : x \in Waiting' <=> x \in Waiting \/ (x = o /\ ~completed[k])
    BY <1>2, <1>6 DEF Waiting, InQueue
  <2>2. Waiting \subseteq IoOp /\ Waiting' \subseteq IoOp
    BY DEF Waiting
  <2> QED BY <1>4, <2>1, <2>2
<1>10. \A x, y : /\ CameBefore(y, x) <=> Before(ChanOf[x], y, x)
                 /\ CameBefore(y, x)' <=> Before(ChanOf[x], y, x)'
  BY DEF CameBefore, Before
<1>11. ASSUME NEW x \in Waiting
       PROVE  \A y : CameBefore(y, x)' <=> CameBefore(y, x)
  <2>1. x # o /\ ChanOf[x] \in Chan
    BY <1>1, <1>7, <1>8
  <2> QED BY <1>5, <1>10, <2>1
<1>12. ASSUME NEW x \in Waiting
       PROVE  {y \in Waiting : SameKind(y, x) /\ CameBefore(y, x)}' = ahead[x]
  <2>1. ahead[x] = {y \in Waiting : SameKind(y, x) /\ CameBefore(y, x)}
    BY DEF ahead
  <2>2. ~CameBefore(o, x)
    <3>1. Before(ChanOf[x], o, x) => o \in Range(arrived[ChanOf[x]])
      BY <1>1, <1>7, BeforeIsOrder DEF OrderInv
    <3>2. o \in Range(arrived[ChanOf[x]]) => ChanOf[o] = ChanOf[x]
      BY <1>1, <1>7 DEF OrderInv, ArrivedInv
    <3> QED BY <1>5, <1>10, <3>1, <3>2 DEF Came
  <2>3. \A y : SameKind(y, x)' <=> SameKind(y, x)
    BY DEF SameKind
  <2>4. \A y : y \in Waiting' <=> y \in Waiting \/ (y = o /\ posted[k] = <<>>)
    BY <1>9
  <2> QED BY <1>11, <2>1, <2>2, <2>3, <2>4
<1>13. {y \in Waiting : SameKind(y, o) /\ CameBefore(y, o)}'
         = {y \in Waiting : Abs!SameQueue(y, o)}
  <2>1. ASSUME NEW y \in Waiting
        PROVE  CameBefore(y, o)' <=> ChanOf[y] = ChanOf[o]
    <3>1. ~Before(ChanOf[o], y, o)
      BY <1>1, <1>5, BeforeIsOrder DEF OrderInv, Came
    <3>2. y \in Range(arrived[ChanOf[o]]) <=> ChanOf[y] = ChanOf[o]
      BY <1>1, <1>7 DEF OrderInv, ArrivedInv
    <3> QED BY <1>1, <1>5, <1>10, <3>1, <3>2
  <2>2. ~CameBefore(o, o)'
    <3>1. ~Before(ChanOf[o], o, o)
      BY <1>1, <1>5, BeforeIsOrder DEF OrderInv, Came
    <3> QED BY <1>1, <1>5, <1>10, <3>1 DEF Came
  <2>3. \A y : y \in Waiting' <=> y \in Waiting \/ (y = o /\ posted[k] = <<>>)
    BY <1>9
  <2> QED BY <2>1, <2>2, <2>3 DEF SameKind, Abs!SameQueue
<1>14. ahead' = IF posted[k] = <<>>
                THEN [x \in DOMAIN ahead \cup {o} |->
                        IF x = o THEN {y \in DOMAIN ahead : Abs!SameQueue(y, o)}
                                 ELSE ahead[x]]
                ELSE ahead
  <2>1. DOMAIN ahead = Waiting /\ ahead = [x \in Waiting |-> ahead[x]]
    BY DEF ahead
  <2>2. ahead' = [x \in Waiting' |-> {y \in Waiting : SameKind(y, x) /\ CameBefore(y, x)}']
    BY DEF ahead
  <2>3. CASE posted[k] # <<>>
    <3>1. \A x \in Waiting :
            {y \in Waiting : SameKind(y, x) /\ CameBefore(y, x)}' = ahead[x]
      BY <1>12
    <3> QED BY <1>9, <2>1, <2>2, <2>3, <3>1
  <2>4. CASE posted[k] = <<>>
    <3>1. \A x \in Waiting \cup {o} :
            {y \in Waiting : SameKind(y, x) /\ CameBefore(y, x)}' =
              IF x = o THEN {y \in Waiting : Abs!SameQueue(y, o)} ELSE ahead[x]
      BY <1>8, <1>12, <1>13
    <3> QED BY <1>9, <2>1, <2>2, <2>4, <3>1
  <2> QED BY <2>3, <2>4
<1> QED BY <1>2, <1>3, <1>14 DEF Abs!Arrive

\* A poll returns what ChannelAbs says.
LEMMA PollImplements ==
  ASSUME TypeOK, TypeOK', CallsInv, OrderInv, NEW q \in Poller, ConsumeIf(q)
  PROVE  Abs!ConsumeIf(q)
<1> DEFINE c == Target[q]
<1>1. /\ c \in Chan /\ polled[q] = <<>>
      /\ UNCHANGED <<closed, consumers, unsubmitted, arrived>>
  BY FunctionsAssumption DEF ConsumeIf, PollBuffer, PollProducer, PollNothing, Poll
<1>2. submitted' = submitted
  BY <1>1 DEF submitted
<1>3. CASE PollBuffer(q)
  <2>1. ahead' = ahead
    BY <1>1, <1>3, AheadKept DEF PollBuffer, callVars
  <2>2. Abs!PollBuffer(q)
    BY <1>1, <1>2, <1>3, <2>1 DEF PollBuffer, callVars, Return, Abs!PollBuffer, Abs!Return
  <2> QED BY <2>2 DEF Abs!ConsumeIf
<1>4. CASE PollNothing(q)
  <2>1. ahead' = ahead
    BY <1>1, <1>4, AheadKept DEF PollNothing, callVars
  <2>2. producers[c] = <<>> => \A p \in Producer : ChanOf[p] = c => p \notin Waiting
    <3>1. Range(<<>>) = {}
      BY DEF Range
    <3> QED BY <3>1, InQueueByKind DEF Waiting, InQueue, IoOp
  <2>3. closed[c] \/ \A p \in Producer : ChanOf[p] = c => ~Abs!Waits(p)
    BY <1>4, <2>2 DEF PollNothing, Abs!Waits, ahead
  <2>4. Abs!PollNothing(q)
    BY <1>1, <1>2, <1>4, <2>1, <2>3
    DEF PollNothing, callVars, Return, Abs!PollNothing, Abs!Return
  <2> QED BY <2>4 DEF Abs!ConsumeIf
<1>5. CASE PollProducer(q)
  <2>1. /\ producers[c] # <<>> /\ PopProducer(c)
        /\ buffer' = buffer /\ buffer[c] = <<>> /\ ~closed[c]
    BY <1>5 DEF PollProducer
  <2>2. PICK p \in Producer : p = FrontProducer(c) /\ CallOf[p] \in Call
    BY <1>1, <2>1, HeadsType
  <2> PICK r : r = Ok(p, NoValue)
    OBVIOUS
  <2>3. Finishes({r}) /\ r.which = p
    BY <1>5, <2>2, PollFinishes DEF Ok
  <2>4. QueuesMove(c, {r})
    BY <1>1, <2>1, <2>2, <2>3, FinishesCompleted DEF QueuesMove
  <2>5. ~completed[CallOf[p]]
    BY <2>2, <2>3 DEF Finishes
  <2>6. Abs!First(p) /\ ChanOf[p] = c
    BY <1>1, <2>1, <2>2, <2>5, HeadsAreFirst
  <2>7. Abs!Complete({Abs!Ok(p, NoValue)})
    BY <1>1, <2>4, MovesComplete DEF Ok, Abs!Ok
  <2>8. Return(q, [ec |-> "ok", val |-> p])
    BY <1>5, <2>2 DEF PollProducer
  <2>9. Abs!PollSender(q, p)
    BY <1>1, <1>2, <2>1, <2>6, <2>7, <2>8 DEF Return, Abs!PollSender, Abs!Return
  <2> QED BY <2>9 DEF Abs!ConsumeIf
<1> QED BY <1>3, <1>4, <1>5 DEF ConsumeIf

\* Every step is a step of ChannelAbs, or one that its users cannot see.
LEMMA NextImplements ==
  ASSUME SafeUse, TypeOK, TypeOK', CallsInv, OrderInv, [Next]_vars
  PROVE  [Abs!Next]_(Abs!vars)
<1>1. CASE \E c \in Chan : FlushEffect(c)
  BY <1>1, FlushImplements
<1>2. CASE \E o \in IoOp : Submitted(o)
  BY <1>2, SubmitImplements DEF Abs!Next, Abs!IoOp, IoOp
<1>3. CASE \E c \in Chan : ClosedOnly(c)
  <2>1. PICK c \in Chan : ClosedOnly(c)
    BY <1>3
  <2>2. ahead' = ahead /\ submitted' = submitted
    BY <2>1, AheadKept DEF ClosedOnly, submitted
  <2>3. Abs!Close(c)
    BY <2>1, <2>2 DEF ClosedOnly, Abs!Close
  <2> QED BY <2>3 DEF Abs!Next
<1>4. CASE \E q \in Poller : ConsumeIf(q)
  BY <1>4, PollImplements DEF Abs!Next
<1>5. CASE Quiet
  BY <1>5, AheadKept DEF Quiet, submitted, Abs!vars
<1> QED BY <1>1, <1>2, <1>3, <1>4, <1>5, NextHasEffect

\* At first nothing waits.
LEMMA InitImplements == Init => Abs!Init
<1> SUFFICES ASSUME Init PROVE Abs!Init
  OBVIOUS
<1>1. Waiting = {}
  <2>1. Range(<<>>) = {}
    BY DEF Range
  <2>2. \A o \in IoOp : producers[ChanOf[o]] = <<>> /\ consumers[ChanOf[o]] = <<>>
    BY FunctionsAssumption DEF Init
  <2> QED BY <2>1, <2>2 DEF Waiting
<1>2. ahead = [o \in {} |-> {}]
  BY <1>1 DEF ahead
<1> QED BY <1>2 DEF Init, submitted, Abs!Init

\* The channels implement ChannelAbs: used as SafeUse says, whatever the ties,
\* the threads and the order of their steps, calls complete as if each match
\* were one step, taken in the order of submission, past no lock and no stale
\* operation (implement_channel_queue.hpp:33-139, channel_impl.hpp:117-205).
THEOREM ChannelsImplementChannelAbs ==
  ASSUME SafeUse
  PROVE  Spec => ImplementsChannelAbs
<1>1. TypeOK /\ TypeOK' /\ CallsInv /\ OrderInv /\ [Next]_vars => [Abs!Next]_(Abs!vars)
  BY NextImplements
<1> QED BY <1>1, InitImplements, TypeCorrect, CallsInvariant, OrderInvariant, PTL
        DEF Spec, ImplementsChannelAbs, Abs!Spec
=============================================================================
