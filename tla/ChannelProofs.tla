--------------------------- MODULE ChannelProofs ---------------------------
(***************************************************************************)
(* Theorems about Channel, for all channels, calls, threads and bounds.    *)
(***************************************************************************)
EXTENDS Channel, DistinctSequences

-----------------------------------------------------------------------------
(***************************************************************************)
(* Type correctness.                                                       *)
(***************************************************************************)
\* Appending to one sequence of a family keeps the family well typed.
LEMMA AppendAt ==
  ASSUME NEW D, NEW T, NEW f \in [D -> Seq(T)], NEW x \in D, NEW v \in T
  PROVE  [f EXCEPT ![x] = Append(@, v)] \in [D -> Seq(T)]
<1>1. Append(f[x], v) \in Seq(T)
  BY AppendProperties
<1> QED BY <1>1

\* The operations at the heads of non-empty queues are operations.
LEMMA HeadsType ==
  ASSUME TypeOK, NEW c \in Chan
  PROVE  /\ producers[c] # <<>> => /\ FrontProducer(c) \in Producer
                                   /\ Tail(producers[c]) \in Seq(Producer)
                                   /\ CallOf[FrontProducer(c)] \in Call
         /\ consumers[c] # <<>> => /\ FrontConsumer(c) \in Consumer
                                   /\ Tail(consumers[c]) \in Seq(Consumer)
                                   /\ CallOf[FrontConsumer(c)] \in Call
         /\ buffer[c] # <<>> => /\ Head(buffer[c]) \in Producer
                                /\ Tail(buffer[c]) \in Seq(Producer)
                                /\ Len(Tail(buffer[c])) <= Capacity[c]
<1>1. ASSUME producers[c] # <<>>
      PROVE  /\ FrontProducer(c) \in Producer
             /\ Tail(producers[c]) \in Seq(Producer)
             /\ CallOf[FrontProducer(c)] \in Call
  <2>1. producers[c] \in Seq(Producer)
    BY DEF TypeOK
  <2>2. Head(producers[c]) \in Producer /\ Tail(producers[c]) \in Seq(Producer)
    BY <1>1, <2>1, HeadTailProperties
  <2> QED BY <2>2, FunctionsAssumption DEF FrontProducer, IoOp
<1>2. ASSUME consumers[c] # <<>>
      PROVE  /\ FrontConsumer(c) \in Consumer
             /\ Tail(consumers[c]) \in Seq(Consumer)
             /\ CallOf[FrontConsumer(c)] \in Call
  <2>1. consumers[c] \in Seq(Consumer)
    BY DEF TypeOK
  <2>2. Head(consumers[c]) \in Consumer /\ Tail(consumers[c]) \in Seq(Consumer)
    BY <1>2, <2>1, HeadTailProperties
  <2> QED BY <2>2, FunctionsAssumption DEF FrontConsumer, IoOp
<1>3. ASSUME buffer[c] # <<>>
      PROVE  /\ Head(buffer[c]) \in Producer
             /\ Tail(buffer[c]) \in Seq(Producer)
             /\ Len(Tail(buffer[c])) <= Capacity[c]
  <2>1. buffer[c] \in Seq(Producer) /\ Len(buffer[c]) <= Capacity[c]
    BY DEF TypeOK, BufferOK
  <2>2. Capacity[c] \in Nat /\ Len(buffer[c]) \in Nat
    BY <2>1, FunctionsAssumption
  <2>3. /\ Head(buffer[c]) \in Producer
        /\ Tail(buffer[c]) \in Seq(Producer)
        /\ Len(Tail(buffer[c])) = Len(buffer[c]) - 1
    BY <1>3, <2>1, HeadTailProperties
  <2> QED BY <2>1, <2>2, <2>3
<1> QED BY <1>1, <1>2, <1>3

\* Completing a call keeps the flags and the handlers' arguments well typed.
LEMMA CompleteType ==
  ASSUME TypeOK, NEW k \in Call, NEW r \in Outcome, Complete(k, r)
  PROVE  completed' \in [Call -> BOOLEAN] /\ posted' \in [Call -> Seq(Outcome)]
  BY DEF TypeOK, Complete

\* So does completing it only when it is not done.
LEMMA CompleteUnlessDoneType ==
  ASSUME TypeOK, NEW o \in IoOp, NEW r \in Outcome, CompleteUnlessDone(o, r)
  PROVE  completed' \in [Call -> BOOLEAN] /\ posted' \in [Call -> Seq(Outcome)]
  BY CompleteType, FunctionsAssumption DEF TypeOK, CompleteUnlessDone, callVars

\* The handlers' arguments that the actions build are outcomes.
LEMMA OutcomeType ==
  /\ \A o \in IoOp : ChannelClosed(o) \in Outcome /\ Ok(o, NoValue) \in Outcome
  /\ \A o \in IoOp, p \in Producer : Ok(o, p) \in Outcome
  BY DEF ChannelClosed, Ok, Outcome

\* A thread that is done with its turn releases calls, and takes none.
LEMMA UnlockType ==
  ASSUME TypeOK, NEW t, Unlock(t)
  PROVE  callMutex' \in [Call -> Thread \cup {NoOne}]
  BY DEF TypeOK, Unlock

\* Every step of a flush preserves the types.
LEMMA FlushStepType ==
  ASSUME TypeOK, NEW t \in Thread, NEW c \in Chan, FlushStep(t, c)
  PROVE  TypeOK'
<1> USE DEF chanVars, userVars
<1>1. CASE LockHeads(t, c)
  BY <1>1 DEF LockHeads, TypeOK, BufferOK, callVars
<1>2. CASE Cancel(t, c)
  <2>1. producers[c] # <<>>
    BY <1>2 DEF Cancel, CancelTurn
  <2>2. FrontProducer(c) \in IoOp
    BY <2>1, HeadsType DEF IoOp
  <2>3. completed' \in [Call -> BOOLEAN] /\ posted' \in [Call -> Seq(Outcome)]
    BY <1>2, <2>2, OutcomeType, CompleteUnlessDoneType DEF Cancel
  <2>4. producers' \in [Chan -> Seq(Producer)]
    BY <1>2, <2>1, HeadsType DEF Cancel, PopProducer, TypeOK
  <2>5. callMutex' \in [Call -> Thread \cup {NoOne}]
    BY <1>2, UnlockType DEF Cancel
  <2> QED BY <1>2, <2>3, <2>4, <2>5 DEF Cancel, TypeOK, BufferOK
<1>3. CASE Serve(t, c)
  <2> DEFINE o == FrontConsumer(c)
  <2>1. consumers[c] # <<>>
    BY <1>3 DEF Serve, ServeTurn
  <2>2. o \in IoOp /\ CallOf[o] \in Call
    BY <2>1, HeadsType DEF IoOp
  <2>3. consumers' \in [Chan -> Seq(Consumer)]
    BY <1>3, <2>1, HeadsType DEF Serve, PopConsumer, TypeOK
  <2>4. callMutex' \in [Call -> Thread \cup {NoOne}]
    BY <1>3, UnlockType DEF Serve
  <2>5. CASE completed[CallOf[o]] \/ buffer[c] = <<>>
    <3>1. CompleteUnlessDone(o, ChannelClosed(o)) /\ UNCHANGED buffer
      BY <1>3, <2>5 DEF Serve
    <3>2. completed' \in [Call -> BOOLEAN] /\ posted' \in [Call -> Seq(Outcome)]
      BY <3>1, <2>2, OutcomeType, CompleteUnlessDoneType
    <3> QED BY <1>3, <2>3, <2>4, <3>1, <3>2 DEF Serve, TypeOK, BufferOK
  <2>6. CASE ~(completed[CallOf[o]] \/ buffer[c] = <<>>)
    <3>1. /\ Complete(CallOf[o], Ok(o, Head(buffer[c])))
          /\ buffer' = [buffer EXCEPT ![c] = Tail(@)]
      BY <1>3, <2>6 DEF Serve
    <3>2. Ok(o, Head(buffer[c])) \in Outcome
      BY <2>2, <2>6, HeadsType, OutcomeType
    <3>3. completed' \in [Call -> BOOLEAN] /\ posted' \in [Call -> Seq(Outcome)]
      BY <3>1, <3>2, <2>2, CompleteType
    <3>4. buffer' \in [Chan -> Seq(Producer)] /\ BufferOK'
      BY <3>1, <2>6, HeadsType DEF TypeOK, BufferOK
    <3> QED BY <1>3, <2>3, <2>4, <3>3, <3>4 DEF Serve, TypeOK
  <2> QED BY <2>5, <2>6
<1>4. CASE Accept(t, c)
  <2> DEFINE o == FrontProducer(c)
  <2>1. producers[c] # <<>> /\ Len(buffer[c]) < Capacity[c]
    BY <1>4 DEF Accept, AcceptTurn
  <2>2. o \in Producer /\ o \in IoOp
    BY <2>1, HeadsType DEF IoOp
  <2>3. completed' \in [Call -> BOOLEAN] /\ posted' \in [Call -> Seq(Outcome)]
    BY <1>4, <2>2, OutcomeType, CompleteUnlessDoneType DEF Accept
  <2>4. producers' \in [Chan -> Seq(Producer)]
    BY <1>4, <2>1, HeadsType DEF Accept, PopProducer, TypeOK
  <2>5. buffer' \in [Chan -> Seq(Producer)] /\ BufferOK'
    BY <1>4, <2>1, <2>2, FunctionsAssumption DEF Accept, TypeOK, BufferOK
  <2>6. callMutex' \in [Call -> Thread \cup {NoOne}]
    BY <1>4, UnlockType DEF Accept
  <2> QED BY <1>4, <2>3, <2>4, <2>5, <2>6 DEF Accept, TypeOK
<1>5. CASE Deliver(t, c)
  <2> DEFINE o == FrontConsumer(c)
  <2>1. consumers[c] # <<>> /\ buffer[c] # <<>>
    BY <1>5 DEF Deliver, DeliverTurn
  <2>2. o \in IoOp /\ Head(buffer[c]) \in Producer
    BY <2>1, HeadsType DEF IoOp
  <2>3. completed' \in [Call -> BOOLEAN] /\ posted' \in [Call -> Seq(Outcome)]
    BY <1>5, <2>2, OutcomeType, CompleteUnlessDoneType DEF Deliver
  <2>4. consumers' \in [Chan -> Seq(Consumer)]
    BY <1>5, <2>1, HeadsType DEF Deliver, PopConsumer, TypeOK
  <2>5. buffer' \in [Chan -> Seq(Producer)] /\ BufferOK'
    BY <1>5, <2>1, HeadsType DEF Deliver, TypeOK, BufferOK
  <2>6. callMutex' \in [Call -> Thread \cup {NoOne}]
    BY <1>5, UnlockType DEF Deliver
  <2> QED BY <1>5, <2>3, <2>4, <2>5, <2>6 DEF Deliver, TypeOK
<1>6. CASE TransferValue(t, c)
  <2> DEFINE p == FrontProducer(c)
             o == FrontConsumer(c)
  <2>1. producers[c] # <<>> /\ consumers[c] # <<>>
    BY <1>6 DEF TransferValue, TransferTurn
  <2>2. /\ p \in Producer /\ p \in IoOp /\ CallOf[p] \in Call
        /\ o \in IoOp /\ CallOf[o] \in Call
    BY <2>1, HeadsType DEF IoOp
  <2>3. Ok(p, NoValue) \in Outcome /\ Ok(o, p) \in Outcome
    BY <2>2, OutcomeType
  <2>4. completed' \in [Call -> BOOLEAN]
    BY <1>6 DEF TransferValue, TypeOK
  <2>5. posted' \in [Call -> Seq(Outcome)]
    <3> DEFINE first == [posted EXCEPT ![CallOf[p]] = Append(@, Ok(p, NoValue))]
    <3>1. first \in [Call -> Seq(Outcome)]
      BY <2>2, <2>3, AppendAt DEF TypeOK
    <3>2. posted' = [first EXCEPT ![CallOf[o]] = Append(@, Ok(o, p))]
      BY <1>6 DEF TransferValue
    <3> HIDE DEF first
    <3> QED BY <2>2, <2>3, <3>1, <3>2, AppendAt
  <2>6. producers' \in [Chan -> Seq(Producer)] /\ consumers' \in [Chan -> Seq(Consumer)]
    BY <1>6, <2>1, HeadsType DEF TransferValue, PopProducer, PopConsumer, TypeOK
  <2>7. callMutex' \in [Call -> Thread \cup {NoOne}]
    BY <1>6, UnlockType DEF TransferValue
  <2> QED BY <1>6, <2>4, <2>5, <2>6, <2>7 DEF TransferValue, TypeOK, BufferOK
<1>7. CASE TransferDropsStale(t, c)
  <2>1. producers[c] # <<>> /\ consumers[c] # <<>>
    BY <1>7 DEF TransferDropsStale, TransferTurn
  <2>2. producers' \in [Chan -> Seq(Producer)] /\ consumers' \in [Chan -> Seq(Consumer)]
    BY <1>7, <2>1, HeadsType
    DEF TransferDropsStale, PopProducer, PopConsumer, TypeOK
  <2>3. callMutex' \in [Call -> Thread \cup {NoOne}]
    BY <1>7, UnlockType DEF TransferDropsStale
  <2> QED BY <1>7, <2>2, <2>3 DEF TransferDropsStale, TypeOK, BufferOK, callVars
<1>8. CASE FlushDone(t, c)
  <2>1. mutex' \in [Chan -> Thread \cup {NoOne}]
    BY <1>8 DEF FlushDone, Leave, TypeOK
  <2>2. closing' \in [Closer -> {"idle", "posted", "flushing", "done"}]
    BY <1>8 DEF FlushDone, TypeOK
  <2> QED BY <1>8, <2>1, <2>2 DEF FlushDone, TypeOK, BufferOK, callVars
<1> QED BY <1>1, <1>2, <1>3, <1>4, <1>5, <1>6, <1>7, <1>8 DEF FlushStep

\* Every submission preserves the types.
LEMMA SubmitType ==
  ASSUME TypeOK,
         NEW o \in IoOp,
         \/ o \in Producer /\ SubmitProduce(o)
         \/ o \in Consumer /\ SubmitConsume(o)
  PROVE  TypeOK'
<1> DEFINE c == ChanOf[o]
           k == CallOf[o]
<1>1. c \in Chan /\ k \in Thread
  BY FunctionsAssumption DEF Thread
<1>2. Submit(o)
  BY DEF SubmitProduce, SubmitConsume
<1>3. mutex' \in [Chan -> Thread \cup {NoOne}]
  BY <1>1, <1>2 DEF Submit, Enter, TypeOK
<1>4. unsubmitted' \subseteq IoOp
  BY <1>2 DEF Submit, TypeOK
<1>5. arrived' \in [Chan -> Seq(IoOp)]
  BY <1>1, <1>2 DEF Submit, TypeOK
<1>6. producers' \in [Chan -> Seq(Producer)] /\ consumers' \in [Chan -> Seq(Consumer)]
  <2>1. CASE o \in Producer /\ SubmitProduce(o)
    BY <1>1, <2>1, AppendAt DEF SubmitProduce, PushProducer, TypeOK
  <2>2. CASE o \in Consumer /\ SubmitConsume(o)
    BY <1>1, <2>2, AppendAt DEF SubmitConsume, PushConsumer, TypeOK
  <2> QED BY <2>1, <2>2
<1> QED BY <1>2, <1>3, <1>4, <1>5, <1>6 DEF Submit, TypeOK, BufferOK, callVars

\* Every step of close() preserves the types.
LEMMA CloseType ==
  ASSUME TypeOK, NEW t \in Closer, CallClose(t) \/ RunClose(t) \/ CloseAgain(t)
  PROVE  TypeOK'
<1> USE DEF chanVars, callVars
<1>1. Target[t] \in Chan /\ t \in Thread
  BY FunctionsAssumption DEF Thread
<1>2. CASE CallClose(t)
  BY <1>2 DEF CallClose, TypeOK, BufferOK
<1>3. CASE RunClose(t)
  <2>1. mutex' \in [Chan -> Thread \cup {NoOne}]
    BY <1>1, <1>3 DEF RunClose, Enter, TypeOK
  <2>2. closed' \in [Chan -> BOOLEAN]
    BY <1>1, <1>3 DEF RunClose, TypeOK
  <2>3. closing' \in [Closer -> {"idle", "posted", "flushing", "done"}]
    BY <1>3 DEF RunClose, TypeOK
  <2> QED BY <1>3, <2>1, <2>2, <2>3 DEF RunClose, TypeOK, BufferOK
<1>4. CASE CloseAgain(t)
  BY <1>4 DEF CloseAgain, TypeOK, BufferOK
<1> QED BY <1>2, <1>3, <1>4

\* Every poll preserves the types.
LEMMA PollType ==
  ASSUME TypeOK, NEW q \in Poller, ConsumeIf(q)
  PROVE  TypeOK'
<1> DEFINE c == Target[q]
<1>1. c \in Chan
  BY FunctionsAssumption
<1>2. ASSUME NEW r \in PollResult, Return(q, r)
      PROVE  polled' \in [Poller -> Seq(PollResult)]
  BY <1>2 DEF Return, TypeOK
<1>3. CASE PollBuffer(q)
  <2>1. buffer[c] # <<>>
    BY <1>3 DEF PollBuffer
  <2>2. Head(buffer[c]) \in Producer
    BY <1>1, <2>1, HeadsType
  <2>3. [ec |-> "ok", val |-> Head(buffer[c])] \in PollResult
    BY <2>2 DEF PollResult
  <2>4. polled' \in [Poller -> Seq(PollResult)]
    BY <1>2, <1>3, <2>3 DEF PollBuffer
  <2>5. buffer' \in [Chan -> Seq(Producer)] /\ BufferOK'
    BY <1>1, <1>3, <2>1, HeadsType DEF PollBuffer, TypeOK, BufferOK
  <2> QED BY <1>3, <2>4, <2>5 DEF PollBuffer, Poll, TypeOK, callVars
<1>4. CASE PollProducer(q)
  <2> DEFINE p == FrontProducer(c)
  <2>1. producers[c] # <<>>
    BY <1>4 DEF PollProducer
  <2>2. p \in Producer /\ p \in IoOp /\ CallOf[p] \in Call
    BY <1>1, <2>1, HeadsType DEF IoOp
  <2>3. [ec |-> "ok", val |-> p] \in PollResult
    BY <2>2 DEF PollResult
  <2>4. polled' \in [Poller -> Seq(PollResult)]
    BY <1>2, <1>4, <2>3 DEF PollProducer
  <2>5. completed' \in [Call -> BOOLEAN] /\ posted' \in [Call -> Seq(Outcome)]
    BY <1>4, <2>2, OutcomeType, CompleteType DEF PollProducer
  <2>6. producers' \in [Chan -> Seq(Producer)]
    BY <1>1, <1>4, <2>1, HeadsType DEF PollProducer, PopProducer, TypeOK
  <2> QED BY <1>4, <2>4, <2>5, <2>6 DEF PollProducer, Poll, TypeOK, BufferOK
<1>5. CASE PollNothing(q)
  <2> DEFINE r == [ec |-> IF closed[c] THEN "closed" ELSE "ok", val |-> NoValue]
  <2>1. r \in PollResult
    BY DEF PollResult
  <2>2. polled' \in [Poller -> Seq(PollResult)]
    BY <1>2, <1>5, <2>1 DEF PollNothing
  <2> QED BY <1>5, <2>2 DEF PollNothing, Poll, TypeOK, BufferOK, callVars
<1> QED BY <1>3, <1>4, <1>5 DEF ConsumeIf

\* Every step preserves the types.
LEMMA NextType ==
  ASSUME TypeOK, [Next]_vars
  PROVE  TypeOK'
<1>1. CASE \E t \in Thread, c \in Chan : FlushStep(t, c)
  BY <1>1, FlushStepType
<1>2. CASE \E p \in Producer : SubmitProduce(p)
  <2>1. PICK p \in Producer : SubmitProduce(p)
    BY <1>2
  <2> QED BY <2>1, SubmitType DEF IoOp
<1>3. CASE \E o \in Consumer : SubmitConsume(o)
  <2>1. PICK o \in Consumer : SubmitConsume(o)
    BY <1>3
  <2> QED BY <2>1, SubmitType DEF IoOp
<1>4. CASE \E t \in Closer : CallClose(t) \/ RunClose(t) \/ CloseAgain(t)
  BY <1>4, CloseType
<1>5. CASE \E q \in Poller : ConsumeIf(q)
  BY <1>5, PollType
<1>6. CASE UNCHANGED vars
  BY <1>6 DEF vars, TypeOK, BufferOK
<1> QED BY <1>1, <1>2, <1>3, <1>4, <1>5, <1>6 DEF Next, Stopped

\* The initial state is well typed.
LEMMA InitType == Init => TypeOK
  BY FunctionsAssumption DEF Init, TypeOK, BufferOK

\* Type correctness: in particular no buffer ever holds more values than the
\* channel has slots, whatever the threads do.
THEOREM TypeCorrect == Spec => []TypeOK
<1>1. Init => TypeOK
  BY InitType
<1>2. TypeOK /\ [Next]_vars => TypeOK'
  BY NextType
<1> QED BY <1>1, <1>2, PTL DEF Spec

-----------------------------------------------------------------------------
(***************************************************************************)
(* Frame lemmas: what a step leaves alone.                                 *)
(***************************************************************************)
\* A flush works on the channel it holds, does not close it, and releases it
\* only when it is done.
LEMMA FlushFrame ==
  ASSUME TypeOK, NEW t \in Thread, NEW c \in Chan, FlushStep(t, c)
  PROVE  /\ mutex[c] = t /\ mutex[c] # NoOne
         /\ closed' = closed
         /\ FlushDone(t, c) \/ mutex' = mutex
         /\ \A d \in Chan \ {c} : /\ buffer'[d] = buffer[d]
                                 /\ producers'[d] = producers[d]
                                 /\ consumers'[d] = consumers[d]
                                 /\ mutex'[d] = mutex[d]
<1> USE DEF chanVars, userVars, TypeOK
<1>1. t # NoOne
  BY SetsAssumption
<1>2. CASE LockHeads(t, c)
  BY <1>1, <1>2 DEF LockHeads
<1>3. CASE Cancel(t, c)
  BY <1>1, <1>3 DEF Cancel, HeadsLocked, PopProducer
<1>4. CASE Serve(t, c)
  BY <1>1, <1>4 DEF Serve, HeadsLocked, PopConsumer
<1>5. CASE Accept(t, c)
  BY <1>1, <1>5 DEF Accept, HeadsLocked, PopProducer
<1>6. CASE Deliver(t, c)
  BY <1>1, <1>6 DEF Deliver, HeadsLocked, PopConsumer
<1>7. CASE TransferValue(t, c)
  BY <1>1, <1>7 DEF TransferValue, HeadsLocked, PopProducer, PopConsumer
<1>8. CASE TransferDropsStale(t, c)
  BY <1>1, <1>8 DEF TransferDropsStale, HeadsLocked, PopProducer, PopConsumer
<1>9. CASE FlushDone(t, c)
  BY <1>1, <1>9 DEF FlushDone, Leave
<1> QED BY <1>2, <1>3, <1>4, <1>5, <1>6, <1>7, <1>8, <1>9 DEF FlushStep

-----------------------------------------------------------------------------
(***************************************************************************)
(* A channel at rest has nothing left to match.                            *)
(***************************************************************************)
\* What a flush finds when it has nothing left to do.
LEMMA NothingToDo ==
  ASSUME TypeOK, NEW c \in Chan, HeadCalls(c) = {}
  PROVE  /\ consumers[c] # <<>> => buffer[c] = <<>> /\ producers[c] = <<>>
         /\ closed[c] => producers[c] = <<>> /\ consumers[c] = <<>>
<1>1. ~UsesProducer(c) /\ ~UsesConsumer(c)
  BY DEF HeadCalls
<1>2. CASE closed[c]
  BY <1>1, <1>2 DEF UsesProducer, UsesConsumer, CancelTurn, ServeTurn
<1>3. CASE ~closed[c]
  BY <1>1, <1>3
  DEF UsesProducer, UsesConsumer, AcceptTurn, DeliverTurn, TransferTurn
<1> QED BY <1>2, <1>3

\* Every step of a flush leaves the channels at rest settled.
LEMMA FlushSettled ==
  ASSUME TypeOK, Settled, NEW t \in Thread, NEW c \in Chan, FlushStep(t, c)
  PROVE  Settled'
<1> SUFFICES ASSUME NEW d \in Chan, mutex'[d] = NoOne
             PROVE  /\ consumers'[d] # <<>> => buffer'[d] = <<>> /\ producers'[d] = <<>>
                    /\ closed'[d] => producers'[d] = <<>> /\ consumers'[d] = <<>>
  BY DEF Settled
<1>1. CASE d # c
  BY <1>1, FlushFrame DEF Settled
<1>2. CASE d = c
  <2>1. FlushDone(t, c)
    BY <1>2, FlushFrame
  <2> QED BY <1>2, <2>1, NothingToDo DEF FlushDone, chanVars
<1> QED BY <1>1, <1>2

\* Every step leaves the channels at rest settled.
LEMMA NextSettled ==
  ASSUME TypeOK, Settled, [Next]_vars
  PROVE  Settled'
<1> USE DEF chanVars
<1>1. CASE \E t \in Thread, c \in Chan : FlushStep(t, c)
  BY <1>1, FlushSettled
<1>2. CASE \E o \in IoOp : SubmitProduce(o) \/ SubmitConsume(o)
  <2>1. PICK o \in IoOp : SubmitProduce(o) \/ SubmitConsume(o)
    BY <1>2
  <2> DEFINE c == ChanOf[o]
  <2>2. c \in Chan /\ CallOf[o] # NoOne
    BY FunctionsAssumption, SetsAssumption DEF Thread
  <2>3. mutex'[c] # NoOne
    BY <2>1, <2>2
    DEF SubmitProduce, PushProducer, SubmitConsume, PushConsumer, Submit, Enter, TypeOK
  <2>4. ASSUME NEW d \in Chan, d # c
        PROVE  /\ closed'[d] = closed[d] /\ buffer'[d] = buffer[d]
               /\ producers'[d] = producers[d] /\ consumers'[d] = consumers[d]
               /\ mutex'[d] = mutex[d]
    BY <2>1, <2>4
    DEF SubmitProduce, PushProducer, SubmitConsume, PushConsumer, Submit, Enter, TypeOK
  <2> QED BY <2>3, <2>4 DEF Settled
<1>3. CASE \E t \in Closer : CallClose(t) \/ RunClose(t) \/ CloseAgain(t)
  <2>1. PICK t \in Closer : CallClose(t) \/ RunClose(t) \/ CloseAgain(t)
    BY <1>3
  <2>2. CASE CallClose(t) \/ CloseAgain(t)
    BY <2>2 DEF CallClose, CloseAgain, Settled
  <2>3. CASE RunClose(t)
    <3>1. Target[t] \in Chan /\ t # NoOne
      BY FunctionsAssumption, SetsAssumption DEF Thread
    <3>2. mutex'[Target[t]] # NoOne
      BY <2>3, <3>1 DEF RunClose, Enter, TypeOK
    <3>3. ASSUME NEW d \in Chan, d # Target[t]
          PROVE  closed'[d] = closed[d] /\ mutex'[d] = mutex[d]
      BY <2>3, <3>3 DEF RunClose, Enter, TypeOK
    <3> QED BY <2>3, <3>2, <3>3 DEF RunClose, Settled
  <2> QED BY <2>1, <2>2, <2>3
<1>4. CASE \E q \in Poller : ConsumeIf(q)
  <2>1. PICK q \in Poller : ConsumeIf(q)
    BY <1>4
  <2> DEFINE c == Target[q]
  <2>2. c \in Chan /\ mutex[c] = NoOne
    BY <2>1, FunctionsAssumption
    DEF ConsumeIf, PollBuffer, PollProducer, PollNothing, Poll, MayEnter
  <2>3. /\ UNCHANGED <<closed, consumers, mutex>>
        /\ \A d \in Chan \ {c} : producers'[d] = producers[d] /\ buffer'[d] = buffer[d]
    BY <2>1 DEF ConsumeIf, PollBuffer, PollProducer, PollNothing, Poll, PopProducer, TypeOK
  <2>4. consumers[c] # <<>> => producers'[c] = <<>> /\ buffer'[c] = <<>>
    BY <2>1, <2>2
    DEF ConsumeIf, PollBuffer, PollProducer, PollNothing, Poll, Settled
  <2>5. closed[c] => producers'[c] = <<>>
    BY <2>1, <2>2
    DEF ConsumeIf, PollBuffer, PollProducer, PollNothing, Poll, Settled
  <2> QED BY <2>2, <2>3, <2>4, <2>5 DEF Settled
<1>5. CASE UNCHANGED vars
  BY <1>5 DEF vars, Settled
<1> QED BY <1>1, <1>2, <1>3, <1>4, <1>5 DEF Next, Stopped, IoOp

\* Whenever a channel is free, no receiver waits on it beside a value or a
\* sender, and nobody waits on it when it is closed.
THEOREM SettledInvariant == Spec => []Settled
<1>1. Init => Settled
  BY DEF Init, Settled
<1>2. TypeOK /\ Settled /\ [Next]_vars => Settled'
  BY NextSettled
<1> QED BY <1>1, <1>2, TypeCorrect, PTL DEF Spec

-----------------------------------------------------------------------------
(***************************************************************************)
(* Each call completes once.                                               *)
(***************************************************************************)
\* The head of a queue is an operation of that channel, and popping it leaves
\* the queue without it.
LEMMA PopProducerDistinct ==
  ASSUME TypeOK, QueuedOnce, NEW c \in Chan, producers[c] # <<>>, PopProducer(c)
  PROVE  /\ ChanOf[FrontProducer(c)] = c
         /\ \A d \in Chan : /\ IsInjective(producers'[d])
                           /\ Range(producers'[d]) =
                                IF d = c THEN Range(producers[c]) \ {FrontProducer(c)}
                                         ELSE Range(producers[d])
<1>1. producers[c] \in Seq(Producer) /\ IsInjective(producers[c])
  BY DEF TypeOK, QueuedOnce
<1>2. /\ IsInjective(Tail(producers[c]))
      /\ Range(Tail(producers[c])) = Range(producers[c]) \ {FrontProducer(c)}
      /\ FrontProducer(c) \in Range(producers[c])
  BY <1>1, TailDistinct DEF FrontProducer
<1> QED BY <1>2 DEF TypeOK, QueuedOnce, PopProducer

LEMMA PopConsumerDistinct ==
  ASSUME TypeOK, QueuedOnce, NEW c \in Chan, consumers[c] # <<>>, PopConsumer(c)
  PROVE  /\ ChanOf[FrontConsumer(c)] = c
         /\ \A d \in Chan : /\ IsInjective(consumers'[d])
                           /\ Range(consumers'[d]) =
                                IF d = c THEN Range(consumers[c]) \ {FrontConsumer(c)}
                                         ELSE Range(consumers[d])
<1>1. consumers[c] \in Seq(Consumer) /\ IsInjective(consumers[c])
  BY DEF TypeOK, QueuedOnce
<1>2. /\ IsInjective(Tail(consumers[c]))
      /\ Range(Tail(consumers[c])) = Range(consumers[c]) \ {FrontConsumer(c)}
      /\ FrontConsumer(c) \in Range(consumers[c])
  BY <1>1, TailDistinct DEF FrontConsumer
<1> QED BY <1>2 DEF TypeOK, QueuedOnce, PopConsumer

\* The queues after a step that pops at most the heads of channel c.
PopsAtMostHeads(c) ==
  /\ producers' = producers \/ (producers[c] # <<>> /\ PopProducer(c))
  /\ consumers' = consumers \/ (consumers[c] # <<>> /\ PopConsumer(c))
  /\ unsubmitted' = unsubmitted

\* Popping heads keeps the queues free of repetitions and strangers.
LEMMA PopsQueuedOnce ==
  ASSUME TypeOK, QueuedOnce, NEW c \in Chan, PopsAtMostHeads(c)
  PROVE  QueuedOnce'
<1>1. \A d \in Chan : /\ IsInjective(producers'[d])
                    /\ Range(producers'[d]) \subseteq Range(producers[d])
  BY PopProducerDistinct DEF PopsAtMostHeads, QueuedOnce
<1>2. \A d \in Chan : /\ IsInjective(consumers'[d])
                    /\ Range(consumers'[d]) \subseteq Range(consumers[d])
  BY PopConsumerDistinct DEF PopsAtMostHeads, QueuedOnce
<1> QED BY <1>1, <1>2 DEF PopsAtMostHeads, QueuedOnce

\* What a flush or a poll of channel c does to the calls: each is left alone, or
\* completed, for the first time, for an operation popped from a queue of c.
CompletesHeads(c) ==
  /\ PopsAtMostHeads(c)
  /\ \A k \in Call :
       \/ completed'[k] = completed[k] /\ posted'[k] = posted[k]
       \/ /\ ~completed[k] /\ completed'[k]
          /\ \E r \in Outcome : posted'[k] = Append(posted[k], r)
          /\ \/ /\ producers[c] # <<>> /\ PopProducer(c)
                /\ k = CallOf[FrontProducer(c)]
             \/ /\ consumers[c] # <<>> /\ PopConsumer(c)
                /\ k = CallOf[FrontConsumer(c)]

\* CompleteUnlessDone changes one call at most, and only for the first time.
LEMMA CompleteUnlessDoneEffect ==
  ASSUME TypeOK, NEW o \in IoOp, NEW r \in Outcome, CompleteUnlessDone(o, r),
         NEW k \in Call
  PROVE  \/ completed'[k] = completed[k] /\ posted'[k] = posted[k]
         \/ /\ k = CallOf[o] /\ ~completed[k] /\ completed'[k]
            /\ posted'[k] = Append(posted[k], r)
  BY FunctionsAssumption DEF TypeOK, CompleteUnlessDone, Complete, callVars

\* Steps that complete the calls of popped heads preserve the invariant: the
\* producer behind a completed call of a polled channel is no longer pending.
LEMMA CompletesHeadsInv ==
  ASSUME SafeUse, TypeOK, CallsInv, NEW c \in Chan, CompletesHeads(c)
  PROVE  CallsInv'
<1>1. QueuedOnce'
  BY PopsQueuedOnce DEF CallsInv, CompletesHeads
<1>2. CompletedOnce'
  <2> SUFFICES ASSUME NEW k \in Call
               PROVE  Len(posted'[k]) = IF completed'[k] THEN 1 ELSE 0
    BY DEF CompletedOnce
  <2>1. Len(posted[k]) = IF completed[k] THEN 1 ELSE 0
    BY DEF CallsInv, CompletedOnce
  <2>2. CASE completed'[k] = completed[k] /\ posted'[k] = posted[k]
    BY <2>1, <2>2
  <2>3. CASE /\ ~completed[k] /\ completed'[k]
             /\ \E r \in Outcome : posted'[k] = Append(posted[k], r)
    <3>1. PICK r \in Outcome : posted'[k] = Append(posted[k], r)
      BY <2>3
    <3>2. posted[k] \in Seq(Outcome)
      BY DEF TypeOK
    <3>3. Len(posted'[k]) = Len(posted[k]) + 1
      BY <3>1, <3>2, AppendProperties
    <3> QED BY <2>1, <2>3, <3>3
  <2> QED BY <2>2, <2>3 DEF CompletesHeads
<1>3. PollsFindLive'
  <2> SUFFICES ASSUME NEW q \in Poller, NEW p \in Producer,
                      ChanOf[p] = Target[q], Pending(p)', completed'[CallOf[p]]
               PROVE  FALSE
    BY DEF PollsFindLive
  <2> DEFINE k == CallOf[p]
  <2>1. p \in IoOp /\ k \in Call /\ ChanOf[p] \in Chan
    BY FunctionsAssumption DEF IoOp
  <2>2. PopsAtMostHeads(c) /\ QueuedOnce
    BY DEF CompletesHeads, CallsInv
  <2>3. \A d \in Chan : Range(producers'[d]) \subseteq Range(producers[d])
    BY <2>2, PopProducerDistinct DEF PopsAtMostHeads
  <2>4. Pending(p)
    BY <2>1, <2>2, <2>3 DEF Pending, PopsAtMostHeads
  <2>5. ~completed[k]
    BY <2>4 DEF CallsInv, PollsFindLive
  <2>6. CASE /\ producers[c] # <<>> /\ PopProducer(c)
             /\ k = CallOf[FrontProducer(c)]
    <3>1. FrontProducer(c) \in IoOp /\ ChanOf[FrontProducer(c)] = c
      BY <2>2, <2>6, HeadsType, PopProducerDistinct DEF IoOp
    <3>2. FrontProducer(c) = p
      BY <2>6, <3>1 DEF SafeUse, PlainPolls
    <3>3. p \notin Range(producers'[c]) /\ ChanOf[p] = c
      BY <2>2, <2>6, <3>1, <3>2, PopProducerDistinct
    <3>4. p \notin unsubmitted'
      <4>1. p \in Range(producers[c])
        BY <2>2, <2>6, <3>2, TailDistinct DEF TypeOK, QueuedOnce, FrontProducer
      <4> QED BY <2>2, <4>1 DEF QueuedOnce, PopsAtMostHeads
    <3> QED BY <3>3, <3>4 DEF Pending
  <2>7. CASE /\ consumers[c] # <<>> /\ PopConsumer(c)
             /\ k = CallOf[FrontConsumer(c)]
    <3>1. FrontConsumer(c) \in Consumer
      BY <2>7, HeadsType
    <3>2. FrontConsumer(c) = p
      BY <2>7, <3>1 DEF SafeUse, PlainPolls, IoOp
    <3> QED BY <3>1, <3>2, SetsAssumption
  <2> QED BY <2>1, <2>5, <2>6, <2>7 DEF CompletesHeads
<1> QED BY <1>1, <1>2, <1>3 DEF CallsInv

\* A step of a flush completes only the calls at the heads, and for the first
\* time: `completed` is looked at first, and the two calls of a transfer differ.
LEMMA FlushCompletesHeads ==
  ASSUME SafeUse, TypeOK, CallsInv, NEW t \in Thread, NEW c \in Chan,
         FlushStep(t, c)
  PROVE  CompletesHeads(c)
<1> USE DEF chanVars, callVars, userVars
<1>1. CASE LockHeads(t, c) \/ FlushDone(t, c)
  BY <1>1 DEF LockHeads, FlushDone, CompletesHeads, PopsAtMostHeads
<1>2. CASE Cancel(t, c)
  <2>1. producers[c] # <<>>
    BY <1>2 DEF Cancel, CancelTurn
  <2>2. FrontProducer(c) \in IoOp
    BY <2>1, HeadsType DEF IoOp
  <2> QED BY <1>2, <2>1, <2>2, OutcomeType, CompleteUnlessDoneEffect
          DEF Cancel, CompletesHeads, PopsAtMostHeads
<1>3. CASE Serve(t, c)
  <2> DEFINE o == FrontConsumer(c)
  <2>1. consumers[c] # <<>>
    BY <1>3 DEF Serve, ServeTurn
  <2>2. o \in IoOp /\ CallOf[o] \in Call
    BY <2>1, HeadsType DEF IoOp
  <2>3. PopsAtMostHeads(c) /\ PopConsumer(c)
    BY <1>3, <2>1 DEF Serve, PopsAtMostHeads
  <2>4. PICK r \in Outcome : CompleteUnlessDone(o, r)
    <3>1. CASE completed[CallOf[o]] \/ buffer[c] = <<>>
      BY <1>3, <2>2, <3>1, OutcomeType DEF Serve
    <3>2. CASE ~(completed[CallOf[o]] \/ buffer[c] = <<>>)
      BY <1>3, <2>2, <3>2, OutcomeType, HeadsType DEF Serve, CompleteUnlessDone
    <3> QED BY <3>1, <3>2
  <2> QED BY <2>1, <2>2, <2>3, <2>4, CompleteUnlessDoneEffect DEF CompletesHeads
<1>4. CASE Accept(t, c)
  <2>1. producers[c] # <<>>
    BY <1>4 DEF Accept, AcceptTurn
  <2>2. FrontProducer(c) \in IoOp
    BY <2>1, HeadsType DEF IoOp
  <2> QED BY <1>4, <2>1, <2>2, OutcomeType, CompleteUnlessDoneEffect
          DEF Accept, CompletesHeads, PopsAtMostHeads
<1>5. CASE Deliver(t, c)
  <2>1. consumers[c] # <<>> /\ buffer[c] # <<>>
    BY <1>5 DEF Deliver, DeliverTurn
  <2>2. FrontConsumer(c) \in IoOp /\ Head(buffer[c]) \in Producer
    BY <2>1, HeadsType DEF IoOp
  <2> QED BY <1>5, <2>1, <2>2, OutcomeType, CompleteUnlessDoneEffect
          DEF Deliver, CompletesHeads, PopsAtMostHeads
<1>6. CASE TransferValue(t, c)
  <2> DEFINE p == FrontProducer(c)
             o == FrontConsumer(c)
             sent == [posted EXCEPT ![CallOf[p]] = Append(@, Ok(p, NoValue))]
  <2>1. producers[c] # <<>> /\ consumers[c] # <<>>
    BY <1>6 DEF TransferValue, TransferTurn
  <2>2. /\ p \in Producer /\ p \in IoOp /\ CallOf[p] \in Call
        /\ o \in Consumer /\ o \in IoOp /\ CallOf[o] \in Call
    BY <2>1, HeadsType DEF IoOp
  <2>3. PopsAtMostHeads(c) /\ PopProducer(c) /\ PopConsumer(c)
    BY <1>6, <2>1 DEF TransferValue, PopsAtMostHeads
  <2>4. ChanOf[p] = c /\ ChanOf[o] = c
    BY <2>1, <2>3, PopProducerDistinct, PopConsumerDistinct DEF CallsInv
  <2>5. CallOf[p] # CallOf[o]
    BY <1>6, <2>2, <2>4 DEF TransferValue, HeadsLocked, MeetsItself, SafeUse, NoMixedTie
  <2>6. ~completed[CallOf[p]] /\ ~completed[CallOf[o]]
    BY <1>6 DEF TransferValue
  <2>7. \A k \in Call : completed'[k] =
                          (k = CallOf[p] \/ k = CallOf[o] \/ completed[k])
    BY <1>6, <2>2, <2>6 DEF TransferValue, TypeOK
  <2>8. posted' = [sent EXCEPT ![CallOf[o]] = Append(@, Ok(o, p))]
    BY <1>6 DEF TransferValue
  <2>9. \A k \in Call : posted'[k] = IF k = CallOf[p] THEN Append(posted[k], Ok(p, NoValue))
                                 ELSE IF k = CallOf[o] THEN Append(posted[k], Ok(o, p))
                                 ELSE posted[k]
    BY <2>2, <2>5, <2>8 DEF TypeOK
  <2>10. Ok(p, NoValue) \in Outcome /\ Ok(o, p) \in Outcome
    BY <2>2, OutcomeType
  <2>11. ASSUME NEW k \in Call
         PROVE  \/ completed'[k] = completed[k] /\ posted'[k] = posted[k]
                \/ /\ ~completed[k] /\ completed'[k]
                   /\ \E r \in Outcome : posted'[k] = Append(posted[k], r)
                   /\ k = CallOf[p] \/ k = CallOf[o]
    <3> HIDE DEF p, o, sent
    <3>1. CASE k = CallOf[p]
      BY <2>6, <2>7, <2>9, <2>10, <3>1
    <3>2. CASE k # CallOf[p] /\ k = CallOf[o]
      BY <2>6, <2>7, <2>9, <2>10, <3>2
    <3>3. CASE k # CallOf[p] /\ k # CallOf[o]
      BY <2>7, <2>9, <3>3 DEF TypeOK
    <3> QED BY <3>1, <3>2, <3>3
  <2> QED BY <2>1, <2>3, <2>11 DEF CompletesHeads
<1>7. CASE TransferDropsStale(t, c)
  <2>1. producers[c] # <<>> /\ consumers[c] # <<>>
    BY <1>7 DEF TransferDropsStale, TransferTurn
  <2> QED BY <1>7, <2>1 DEF TransferDropsStale, CompletesHeads, PopsAtMostHeads
<1> QED BY <1>1, <1>2, <1>3, <1>4, <1>5, <1>6, <1>7 DEF FlushStep

\* A poll completes at most the call of the first producer, and for the first
\* time, because on a polled channel that producer is never completed.
LEMMA PollCompletesHeads ==
  ASSUME TypeOK, CallsInv, NEW q \in Poller, ConsumeIf(q)
  PROVE  CompletesHeads(Target[q])
<1> DEFINE c == Target[q]
           p == FrontProducer(c)
<1>1. c \in Chan
  BY FunctionsAssumption
<1>2. CASE PollBuffer(q) \/ PollNothing(q)
  BY <1>2 DEF PollBuffer, PollNothing, Poll, CompletesHeads, PopsAtMostHeads, callVars
<1>3. CASE PollProducer(q)
  <2>1. /\ producers[c] # <<>> /\ PopProducer(c)
        /\ consumers' = consumers /\ unsubmitted' = unsubmitted
        /\ Complete(CallOf[p], Ok(p, NoValue))
    BY <1>3 DEF PollProducer, Poll
  <2>2. p \in Producer /\ p \in IoOp /\ CallOf[p] \in Call
    BY <1>1, <2>1, HeadsType DEF IoOp
  <2>3. ChanOf[p] = c /\ p \in Range(producers[c])
    BY <1>1, <2>1, PopProducerDistinct, TailDistinct
    DEF CallsInv, QueuedOnce, TypeOK, FrontProducer
  <2>4. ~completed[CallOf[p]]
    BY <2>2, <2>3 DEF CallsInv, PollsFindLive, Pending
  <2>5. Ok(p, NoValue) \in Outcome
    BY <2>2, OutcomeType
  <2> QED BY <2>1, <2>2, <2>4, <2>5
          DEF Complete, CompletesHeads, PopsAtMostHeads, TypeOK
<1> QED BY <1>2, <1>3 DEF ConsumeIf

\* A submission completes nothing and queues a new operation.
LEMMA SubmitCallsInv ==
  ASSUME TypeOK, CallsInv, NEW o \in IoOp,
         \/ o \in Producer /\ SubmitProduce(o)
         \/ o \in Consumer /\ SubmitConsume(o)
  PROVE  CallsInv'
<1> DEFINE c == ChanOf[o]
<1>1. c \in Chan
  BY FunctionsAssumption
<1>2. /\ o \in unsubmitted /\ unsubmitted' = unsubmitted \ {o}
      /\ completed' = completed /\ posted' = posted
  BY DEF SubmitProduce, SubmitConsume, Submit, callVars
<1>3. o \notin Range(producers[c]) /\ o \notin Range(consumers[c])
  BY <1>1, <1>2 DEF CallsInv, QueuedOnce
<1>4. \A d \in Chan :
        /\ IsInjective(producers'[d]) /\ IsInjective(consumers'[d])
        /\ Range(producers'[d]) \subseteq
             Range(producers[d]) \cup (IF d = c THEN {o} ELSE {})
        /\ Range(consumers'[d]) \subseteq
             Range(consumers[d]) \cup (IF d = c THEN {o} ELSE {})
  <2>1. CASE o \in Producer /\ SubmitProduce(o)
    <3>1. /\ IsInjective(Append(producers[c], o))
          /\ Range(Append(producers[c], o)) = Range(producers[c]) \cup {o}
      BY <1>1, <1>3, <2>1, AppendDistinct DEF TypeOK, CallsInv, QueuedOnce
    <3> QED BY <1>1, <2>1, <3>1
    DEF SubmitProduce, PushProducer, TypeOK, CallsInv, QueuedOnce
  <2>2. CASE o \in Consumer /\ SubmitConsume(o)
    <3>1. /\ IsInjective(Append(consumers[c], o))
          /\ Range(Append(consumers[c], o)) = Range(consumers[c]) \cup {o}
      BY <1>1, <1>3, <2>2, AppendDistinct DEF TypeOK, CallsInv, QueuedOnce
    <3> QED BY <1>1, <2>2, <3>1
    DEF SubmitConsume, PushConsumer, TypeOK, CallsInv, QueuedOnce
  <2> QED BY <2>1, <2>2
<1>5. QueuedOnce'
  BY <1>2, <1>4 DEF CallsInv, QueuedOnce
<1>6. PollsFindLive'
  <2>1. ASSUME NEW p \in Producer, Pending(p)'
        PROVE  Pending(p)
    <3>1. ChanOf[p] \in Chan
      BY FunctionsAssumption DEF IoOp
    <3> QED BY <1>2, <1>4, <2>1, <3>1 DEF Pending
  <2> QED BY <1>2, <2>1 DEF CallsInv, PollsFindLive
<1> QED BY <1>2, <1>5, <1>6 DEF CallsInv, CompletedOnce

\* Every step preserves the invariant.
LEMMA NextCallsInv ==
  ASSUME SafeUse, TypeOK, CallsInv, [Next]_vars
  PROVE  CallsInv'
<1>1. CASE \E t \in Thread, c \in Chan : FlushStep(t, c)
  BY <1>1, FlushCompletesHeads, CompletesHeadsInv
<1>2. CASE \E p \in Producer : SubmitProduce(p)
  <2>1. PICK p \in Producer : SubmitProduce(p)
    BY <1>2
  <2> QED BY <2>1, SubmitCallsInv DEF IoOp
<1>3. CASE \E o \in Consumer : SubmitConsume(o)
  <2>1. PICK o \in Consumer : SubmitConsume(o)
    BY <1>3
  <2> QED BY <2>1, SubmitCallsInv DEF IoOp
<1>4. CASE \E q \in Poller : ConsumeIf(q)
  <2>1. PICK q \in Poller : ConsumeIf(q)
    BY <1>4
  <2>2. Target[q] \in Chan
    BY FunctionsAssumption
  <2> QED BY <2>1, <2>2, PollCompletesHeads, CompletesHeadsInv
<1>5. ASSUME UNCHANGED <<producers, consumers, completed, posted, unsubmitted>>
      PROVE  CallsInv'
  BY <1>5 DEF CallsInv, CompletedOnce, QueuedOnce, PollsFindLive, Pending
<1>6. CASE \E t \in Closer : CallClose(t) \/ RunClose(t) \/ CloseAgain(t)
  BY <1>5, <1>6 DEF CallClose, RunClose, CloseAgain, chanVars, callVars
<1>7. CASE UNCHANGED vars
  BY <1>5, <1>7 DEF vars
<1> QED BY <1>1, <1>2, <1>3, <1>4, <1>6, <1>7 DEF Next, Stopped

\* The invariant holds before anything is submitted.
LEMMA InitCallsInv == Init => CallsInv
<1> SUFFICES ASSUME Init PROVE CallsInv
  OBVIOUS
<1>1. \A c \in Chan : producers[c] = <<>> /\ consumers[c] = <<>>
  BY DEF Init
<1>2. Range(<<>>) = {} /\ IsInjective(<<>>)
  BY DEF Range, IsInjective
<1>3. QueuedOnce
  BY <1>1, <1>2 DEF QueuedOnce
<1>4. CompletedOnce
  BY DEF Init, CompletedOnce
<1>5. PollsFindLive
  BY FunctionsAssumption DEF Init, PollsFindLive, IoOp
<1> QED BY <1>3, <1>4, <1>5 DEF CallsInv

\* Used as SafeUse says, no queue repeats an operation and consume_if never
\* meets a completed one.
THEOREM CallsInvariant ==
  ASSUME SafeUse
  PROVE  Spec => []CallsInv
<1>1. Init => CallsInv
  BY InitCallsInv
<1>2. TypeOK /\ CallsInv /\ [Next]_vars => CallsInv'
  BY NextCallsInv
<1> QED BY <1>1, <1>2, TypeCorrect, PTL DEF Spec

\* Every call, a tie of any number of operations on any channels included, is
\* completed at most once and its handler invoked exactly then.
THEOREM CallsCompleteOnce ==
  ASSUME SafeUse
  PROVE  Spec => []CompletedOnce
<1>1. CallsInv => CompletedOnce
  BY DEF CallsInv
<1> QED BY <1>1, CallsInvariant, PTL

-----------------------------------------------------------------------------
(***************************************************************************)
(* Locks.                                                                  *)
(***************************************************************************)
\* What the next turn of a flush locks depends on its channel only.
LEMMA HeadCallsFrame ==
  ASSUME NEW d \in Chan,
         closed'[d] = closed[d], buffer'[d] = buffer[d],
         producers'[d] = producers[d], consumers'[d] = consumers[d]
  PROVE  HeadCalls(d)' = HeadCalls(d)
  BY DEF HeadCalls, UsesProducer, UsesConsumer, CancelTurn, ServeTurn, AcceptTurn,
         DeliverTurn, TransferTurn, FrontProducer, FrontConsumer

\* A step that leaves the held channels and the locks of calls alone.
LEMMA NestedFrame ==
  ASSUME TypeOK, CallLocksNested, callMutex' = callMutex,
         \A d \in Chan : mutex[d] # NoOne /\ HeadCalls(d) # {} =>
           /\ closed'[d] = closed[d] /\ buffer'[d] = buffer[d]
           /\ producers'[d] = producers[d] /\ consumers'[d] = consumers[d]
           /\ mutex'[d] = mutex[d]
  PROVE  CallLocksNested'
<1> SUFFICES ASSUME NEW k \in Call, callMutex'[k] # NoOne
             PROVE  \E c \in Chan :
                      /\ mutex'[c] = callMutex'[k]
                      /\ k \in HeadCalls(c)'
                      /\ \A h \in HeadCalls(c)' : callMutex'[h] = callMutex'[k]
  BY DEF CallLocksNested
<1>1. PICK c \in Chan : /\ mutex[c] = callMutex[k]
                       /\ k \in HeadCalls(c)
                       /\ \A h \in HeadCalls(c) : callMutex[h] = callMutex[k]
  BY DEF CallLocksNested
<1>2. HeadCalls(c)' = HeadCalls(c) /\ mutex'[c] = mutex[c]
  BY <1>1, HeadCallsFrame
<1> QED BY <1>1, <1>2

\* A turn of a flush releases the calls of its thread and leaves the calls that
\* other threads locked for other channels nested there.
LEMMA TurnLocks ==
  ASSUME TypeOK, LocksInv, NEW t \in Thread, NEW c \in Chan, FlushStep(t, c),
         Unlock(t), mutex' = mutex
  PROVE  LocksInv'
<1>1. CallLocksNested'
  <2> SUFFICES ASSUME NEW k \in Call, callMutex'[k] # NoOne
               PROVE  \E d \in Chan :
                        /\ mutex'[d] = callMutex'[k]
                        /\ k \in HeadCalls(d)'
                        /\ \A h \in HeadCalls(d)' : callMutex'[h] = callMutex'[k]
    BY DEF CallLocksNested
  <2>1. callMutex[k] # t /\ callMutex'[k] = callMutex[k] /\ callMutex[k] # NoOne
    BY DEF Unlock
  <2>2. PICK d \in Chan : /\ mutex[d] = callMutex[k]
                         /\ k \in HeadCalls(d)
                         /\ \A h \in HeadCalls(d) : callMutex[h] = callMutex[k]
    BY <2>1 DEF LocksInv, CallLocksNested
  <2>3. d # c
    BY <2>1, <2>2, FlushFrame
  <2>4. HeadCalls(d)' = HeadCalls(d) /\ mutex'[d] = mutex[d]
    BY <2>3, FlushFrame, HeadCallsFrame
  <2>5. ASSUME NEW h \in HeadCalls(d)
        PROVE  callMutex'[h] = callMutex[k]
    <3>1. callMutex[h] = callMutex[k]
      BY <2>2
    <3>2. h \in Call
      BY HeadsType
      DEF HeadCalls, UsesProducer, UsesConsumer, CancelTurn, ServeTurn,
          AcceptTurn, DeliverTurn, TransferTurn
    <3> QED BY <2>1, <3>1, <3>2 DEF Unlock
  <2> QED BY <2>1, <2>2, <2>4, <2>5
<1>2. OneChannel'
  BY DEF LocksInv, OneChannel
<1> QED BY <1>1, <1>2 DEF LocksInv

\* Every step of a flush keeps the locks nested.
LEMMA FlushLocks ==
  ASSUME TypeOK, LocksInv, NEW t \in Thread, NEW c \in Chan, FlushStep(t, c)
  PROVE  LocksInv'
<1>1. CASE LockHeads(t, c)
  <2>1. CallLocksNested'
    <3> SUFFICES ASSUME NEW k \in Call, callMutex'[k] # NoOne
                 PROVE  \E d \in Chan :
                          /\ mutex'[d] = callMutex'[k]
                          /\ k \in HeadCalls(d)'
                          /\ \A h \in HeadCalls(d)' : callMutex'[h] = callMutex'[k]
      BY DEF CallLocksNested
    <3>1. mutex' = mutex /\ \A d \in Chan : HeadCalls(d)' = HeadCalls(d)
      BY <1>1, HeadCallsFrame DEF LockHeads, chanVars
    <3>2. \A d \in Chan : HeadCalls(d) \subseteq Call
      BY HeadsType
      DEF HeadCalls, UsesProducer, UsesConsumer, CancelTurn, ServeTurn,
          AcceptTurn, DeliverTurn, TransferTurn
    <3>3. CASE k \in HeadCalls(c)
      BY <1>1, <3>1, <3>2, <3>3 DEF LockHeads
    <3>4. CASE k \notin HeadCalls(c)
      <4>1. callMutex'[k] = callMutex[k] /\ callMutex[k] # NoOne
        BY <1>1, <3>4 DEF LockHeads
      <4>2. PICK d \in Chan : /\ mutex[d] = callMutex[k]
                             /\ k \in HeadCalls(d)
                             /\ \A h \in HeadCalls(d) : callMutex[h] = callMutex[k]
        BY <4>1 DEF LocksInv, CallLocksNested
      <4>3. \A h \in HeadCalls(d) : h \notin HeadCalls(c)
        BY <1>1, <4>1, <4>2 DEF LockHeads, Free
      <4>4. \A h \in HeadCalls(d) : callMutex'[h] = callMutex[k]
        BY <1>1, <3>2, <4>2, <4>3 DEF LockHeads
      <4> QED BY <3>1, <4>1, <4>2, <4>4
    <3> QED BY <3>3, <3>4
  <2> QED BY <1>1, <2>1 DEF LockHeads, LocksInv, OneChannel
<1>2. CASE FlushDone(t, c)
  <2>1. CallLocksNested'
    <3>1. callMutex' = callMutex
      BY <1>2 DEF FlushDone
    <3>2. ASSUME NEW d \in Chan, HeadCalls(d) # {}
          PROVE  /\ closed'[d] = closed[d] /\ buffer'[d] = buffer[d]
                 /\ producers'[d] = producers[d] /\ consumers'[d] = consumers[d]
                 /\ mutex'[d] = mutex[d]
      <4>1. d # c
        BY <1>2, <3>2 DEF FlushDone
      <4> QED BY <4>1, FlushFrame
    <3> QED BY <3>1, <3>2, NestedFrame DEF LocksInv
  <2>2. OneChannel'
    BY <1>2 DEF FlushDone, Leave, LocksInv, OneChannel, TypeOK
  <2> QED BY <2>1, <2>2 DEF LocksInv
<1>3. CASE Cancel(t, c)
  BY <1>3, TurnLocks DEF Cancel
<1>4. CASE Serve(t, c)
  BY <1>4, TurnLocks DEF Serve
<1>5. CASE Accept(t, c)
  BY <1>5, TurnLocks DEF Accept
<1>6. CASE Deliver(t, c)
  BY <1>6, TurnLocks DEF Deliver
<1>7. CASE TransferValue(t, c)
  BY <1>7, TurnLocks DEF TransferValue
<1>8. CASE TransferDropsStale(t, c)
  BY <1>8, TurnLocks DEF TransferDropsStale
<1> QED BY <1>1, <1>2, <1>3, <1>4, <1>5, <1>6, <1>7, <1>8 DEF FlushStep

\* A thread that enters a free channel is in no other.
LEMMA EnterOneChannel ==
  ASSUME TypeOK, LocksInv, NEW t \in Thread, NEW c \in Chan, MayEnter(t, c),
         Enter(t, c)
  PROVE  OneChannel'
  BY DEF TypeOK, LocksInv, OneChannel, MayEnter, InChannel, Enter

\* Every step keeps the locks nested.
LEMMA NextLocks ==
  ASSUME TypeOK, LocksInv, [Next]_vars
  PROVE  LocksInv'
<1> USE DEF chanVars
<1>1. CASE \E t \in Thread, c \in Chan : FlushStep(t, c)
  BY <1>1, FlushLocks
<1>2. CASE \E o \in IoOp : SubmitProduce(o) \/ SubmitConsume(o)
  <2>1. PICK o \in IoOp : SubmitProduce(o) \/ SubmitConsume(o)
    BY <1>2
  <2> DEFINE c == ChanOf[o]
  <2>2. c \in Chan /\ CallOf[o] \in Thread
    BY FunctionsAssumption DEF Thread
  <2>3. /\ MayEnter(CallOf[o], c) /\ Enter(CallOf[o], c)
        /\ callMutex' = callMutex /\ closed' = closed /\ buffer' = buffer
    BY <2>1 DEF SubmitProduce, SubmitConsume, Submit
  <2>4. ASSUME NEW d \in Chan, d # c
        PROVE  /\ producers'[d] = producers[d] /\ consumers'[d] = consumers[d]
               /\ mutex'[d] = mutex[d]
    BY <2>1, <2>4
    DEF SubmitProduce, PushProducer, SubmitConsume, PushConsumer, Submit, Enter, TypeOK
  <2>5. mutex[c] = NoOne
    BY <2>3 DEF MayEnter
  <2>6. CallLocksNested'
    BY <2>3, <2>4, <2>5, NestedFrame DEF LocksInv
  <2> QED BY <2>2, <2>3, <2>6, EnterOneChannel DEF LocksInv
<1>3. CASE \E t \in Closer : CallClose(t) \/ RunClose(t) \/ CloseAgain(t)
  <2>1. PICK t \in Closer : CallClose(t) \/ RunClose(t) \/ CloseAgain(t)
    BY <1>3
  <2>2. CASE CallClose(t) \/ CloseAgain(t)
    BY <2>2, NestedFrame DEF CallClose, CloseAgain, LocksInv, OneChannel
  <2>3. CASE RunClose(t)
    <3> DEFINE c == Target[t]
    <3>1. c \in Chan /\ t \in Thread
      BY FunctionsAssumption DEF Thread
    <3>2. /\ MayEnter(t, c) /\ Enter(t, c) /\ callMutex' = callMutex
          /\ UNCHANGED <<buffer, producers, consumers>>
      BY <2>3 DEF RunClose
    <3>3. \A d \in Chan : d # c => closed'[d] = closed[d] /\ mutex'[d] = mutex[d]
      BY <2>3 DEF RunClose, Enter, TypeOK
    <3>4. mutex[c] = NoOne
      BY <3>2 DEF MayEnter
    <3>5. CallLocksNested'
      BY <3>2, <3>3, <3>4, NestedFrame DEF LocksInv
    <3> QED BY <3>1, <3>2, <3>5, EnterOneChannel DEF LocksInv
  <2> QED BY <2>1, <2>2, <2>3
<1>4. CASE \E q \in Poller : ConsumeIf(q)
  <2>1. PICK q \in Poller : ConsumeIf(q)
    BY <1>4
  <2> DEFINE c == Target[q]
  <2>2. /\ mutex[c] = NoOne
        /\ UNCHANGED <<closed, consumers, mutex, callMutex>>
        /\ \A d \in Chan \ {c} : producers'[d] = producers[d] /\ buffer'[d] = buffer[d]
    BY <2>1
    DEF ConsumeIf, PollBuffer, PollProducer, PollNothing, Poll, MayEnter,
        PopProducer, TypeOK
  <2> QED BY <2>2, NestedFrame DEF LocksInv, OneChannel
<1>5. CASE UNCHANGED vars
  BY <1>5, NestedFrame DEF vars, LocksInv, OneChannel
<1> QED BY <1>1, <1>2, <1>3, <1>4, <1>5 DEF Next, Stopped, IoOp

\* No lock of a call outlives the turn of the flush that took it, no thread is
\* inside two channels, and no call is locked by two turns.
THEOREM LocksInvariant == Spec => []LocksInv
<1>1. Init => LocksInv
  BY DEF Init, LocksInv, OneChannel, CallLocksNested
<1>2. TypeOK /\ LocksInv /\ [Next]_vars => LocksInv'
  BY NextLocks
<1> QED BY <1>1, <1>2, TypeCorrect, PTL DEF Spec

\* If the thread of a held channel cannot move, it wants a call that another
\* thread has locked; that thread has all that it needs, so it can move.
LEMMA SomeoneCanMove ==
  ASSUME NoMixedTie, TypeOK, QueuedOnce, LocksInv
  PROVE  NoWaitingCycle
<1>1. \A d \in Chan : ~MeetsItself(d)
  <2> SUFFICES ASSUME NEW d \in Chan, MeetsItself(d)
               PROVE  FALSE
    OBVIOUS
  <2>1. producers[d] # <<>> /\ consumers[d] # <<>>
    BY DEF MeetsItself, TransferTurn
  <2>2. FrontProducer(d) \in Range(producers[d]) /\ FrontConsumer(d) \in Range(consumers[d])
    BY <2>1, TailDistinct DEF TypeOK, QueuedOnce, FrontProducer, FrontConsumer
  <2>3. ChanOf[FrontProducer(d)] = d /\ ChanOf[FrontConsumer(d)] = d
    BY <2>2 DEF QueuedOnce
  <2> QED BY <2>1, <2>3, HeadsType DEF NoMixedTie, MeetsItself
<1> SUFFICES ASSUME NEW c \in Chan, mutex[c] # NoOne
             PROVE  \E d \in Chan : mutex[d] # NoOne /\ CanMove(d)
  BY DEF NoWaitingCycle
<1>2. CASE \A k \in HeadCalls(c) : Free(k)
  BY <1>1, <1>2 DEF CanMove
<1>3. CASE \E k \in HeadCalls(c) : ~Free(k)
  <2>1. PICK k \in HeadCalls(c) : callMutex[k] # NoOne
    BY <1>3 DEF Free
  <2>2. k \in Call
    BY HeadsType
    DEF HeadCalls, UsesProducer, UsesConsumer, CancelTurn, ServeTurn,
        AcceptTurn, DeliverTurn, TransferTurn
  <2>3. PICK d \in Chan : /\ mutex[d] = callMutex[k]
                         /\ \A h \in HeadCalls(d) : callMutex[h] = callMutex[k]
    BY <2>1, <2>2 DEF LocksInv, CallLocksNested
  <2> QED BY <1>1, <2>1, <2>3 DEF CanMove
<1> QED BY <1>2, <1>3

\* Threads that flush different channels never all wait for each other, as long
\* as no tie sends to and receives from one channel.
THEOREM NoDeadlock ==
  ASSUME PlainPolls, NoMixedTie
  PROVE  Spec => []NoWaitingCycle
<1>1. SafeUse
  BY DEF SafeUse
<1>2. Spec => []CallsInv
  BY <1>1, CallsInvariant
<1>3. TypeOK /\ CallsInv /\ LocksInv => NoWaitingCycle
  BY SomeoneCanMove DEF CallsInv
<1> QED BY <1>2, <1>3, TypeCorrect, LocksInvariant, PTL

-----------------------------------------------------------------------------
(***************************************************************************)
(* Sends on a closed channel.                                              *)
(***************************************************************************)
\* A producer succeeds by an outcome that says so.
LEMMA SuccessIsPosted ==
  ASSUME TypeOK, NEW k \in Call, NEW r \in Outcome,
         posted' = [posted EXCEPT ![k] = Append(@, r)],
         NEW p \in Producer, ~Succeeded(p), Succeeded(p)'
  PROVE  r.which = p /\ r.ec = "ok"
<1> DEFINE old == posted[CallOf[p]]
           new == posted'[CallOf[p]]
<1>1. CallOf[p] \in Call
  BY FunctionsAssumption DEF IoOp
<1>2. old \in Seq(Outcome)
  BY <1>1 DEF TypeOK
<1>3. new = IF CallOf[p] = k THEN Append(old, r) ELSE old
  BY <1>1 DEF TypeOK
<1>4. PICK i \in DOMAIN new : new[i].which = p /\ new[i].ec = "ok"
  BY DEF Succeeded
<1>5. i \notin DOMAIN old \/ new[i] # old[i]
  BY <1>4 DEF Succeeded
<1>6. /\ DOMAIN old = 1 .. Len(old) /\ Len(old) \in Nat
      /\ DOMAIN Append(old, r) = 1 .. Len(old) + 1
      /\ \A j \in 1 .. Len(old) : Append(old, r)[j] = old[j]
      /\ Append(old, r)[Len(old) + 1] = r
  BY <1>2, AppendProperties
<1> HIDE DEF old, new
<1>7. CallOf[p] = k /\ i = Len(old) + 1
  BY <1>3, <1>4, <1>5, <1>6
<1> QED BY <1>3, <1>4, <1>6, <1>7

\* So with the completion of one operation that is not done.
LEMMA SuccessIsCompleted ==
  ASSUME TypeOK, NEW o \in IoOp, NEW r \in Outcome, CompleteUnlessDone(o, r),
         NEW p \in Producer, ~Succeeded(p), Succeeded(p)'
  PROVE  r.which = p /\ r.ec = "ok"
<1>1. posted' # posted
  BY DEF Succeeded
<1>2. posted' = [posted EXCEPT ![CallOf[o]] = Append(@, r)]
  BY <1>1 DEF CompleteUnlessDone, Complete, callVars
<1> QED BY <1>2, SuccessIsPosted, FunctionsAssumption

\* Only an open channel accepts a value, and only from its own producers.
LEMMA FlushSends ==
  ASSUME TypeOK, QueuedOnce, NEW t \in Thread, NEW c \in Chan, FlushStep(t, c),
         NEW p \in Producer, ~Succeeded(p), Succeeded(p)'
  PROVE  ChanOf[p] = c /\ ~closed[c]
<1> USE DEF chanVars, callVars
<1>1. posted' # posted
  BY DEF Succeeded
<1>2. CASE LockHeads(t, c) \/ FlushDone(t, c) \/ TransferDropsStale(t, c)
  BY <1>1, <1>2 DEF LockHeads, FlushDone, TransferDropsStale
<1>3. CASE Cancel(t, c)
  <2>1. FrontProducer(c) \in IoOp
    BY <1>3, HeadsType DEF Cancel, CancelTurn, IoOp
  <2>2. ChannelClosed(FrontProducer(c)).ec = "ok"
    BY <1>3, <2>1, OutcomeType, SuccessIsCompleted DEF Cancel
  <2> QED BY <2>2 DEF ChannelClosed
<1>4. CASE Serve(t, c) \/ Deliver(t, c)
  <2> DEFINE o == FrontConsumer(c)
  <2>1. o \in Consumer /\ o \in IoOp /\ CallOf[o] \in Call
    BY <1>4, HeadsType DEF Serve, ServeTurn, Deliver, DeliverTurn, IoOp
  <2>2. \E r \in Outcome : r.which = o /\ CompleteUnlessDone(o, r)
    <3>1. ChannelClosed(o) \in Outcome /\ ChannelClosed(o).which = o
      BY <2>1, OutcomeType DEF ChannelClosed
    <3>2. buffer[c] # <<>> => /\ Ok(o, Head(buffer[c])) \in Outcome
                             /\ Ok(o, Head(buffer[c])).which = o
      BY <2>1, HeadsType, OutcomeType DEF Ok
    <3>3. CASE Serve(t, c)
      <4>1. CASE completed[CallOf[o]] \/ buffer[c] = <<>>
        BY <3>1, <3>3, <4>1 DEF Serve
      <4>2. CASE ~(completed[CallOf[o]] \/ buffer[c] = <<>>)
        BY <3>2, <3>3, <4>2 DEF Serve, CompleteUnlessDone
      <4> QED BY <4>1, <4>2
    <3>4. CASE Deliver(t, c)
      BY <3>2, <3>4 DEF Deliver, DeliverTurn
    <3> QED BY <1>4, <3>3, <3>4
  <2> QED BY <2>1, <2>2, SuccessIsCompleted, SetsAssumption
<1>5. CASE Accept(t, c)
  <2> DEFINE o == FrontProducer(c)
  <2>1. producers[c] # <<>> /\ ~closed[c]
    BY <1>5 DEF Accept, AcceptTurn
  <2>2. o \in IoOp
    BY <2>1, HeadsType DEF IoOp
  <2>3. Ok(o, NoValue).which = p
    BY <1>5, <2>2, OutcomeType, SuccessIsCompleted DEF Accept
  <2>4. o = p
    BY <2>3 DEF Ok
  <2> QED BY <1>5, <2>1, <2>4, PopProducerDistinct DEF Accept
<1>6. CASE TransferValue(t, c)
  <2>1. producers[c] # <<>> /\ ~closed[c] /\ PopProducer(c)
    BY <1>6 DEF TransferValue, TransferTurn
  <2> DEFINE s == FrontProducer(c)
             o == FrontConsumer(c)
             sent == [posted EXCEPT ![CallOf[s]] = Append(@, Ok(s, NoValue))]
  <2>2. /\ s \in Producer /\ s \in IoOp /\ CallOf[s] \in Call
        /\ o \in Consumer /\ o \in IoOp /\ CallOf[o] \in Call
    BY <1>6, HeadsType DEF TransferValue, TransferTurn, IoOp
  <2>3. posted' = [sent EXCEPT ![CallOf[o]] = Append(@, Ok(o, s))]
    BY <1>6 DEF TransferValue
  <2>4. p # o /\ Ok(s, NoValue).which = s /\ Ok(o, s).which = o
    BY <2>2, SetsAssumption DEF Ok
  <2>5. CallOf[p] \in Call
    BY FunctionsAssumption DEF IoOp
  <2>6. PICK i \in DOMAIN posted'[CallOf[p]] :
          posted'[CallOf[p]][i].which = p /\ posted'[CallOf[p]][i].ec = "ok"
    BY DEF Succeeded
  <2>7. ASSUME NEW q \in Seq(Outcome), NEW r \in Outcome, NEW j \in DOMAIN Append(q, r)
        PROVE  (j \in DOMAIN q /\ Append(q, r)[j] = q[j]) \/ Append(q, r)[j] = r
    BY <2>7, AppendProperties
  <2>8. Ok(s, NoValue) \in Outcome /\ Ok(o, s) \in Outcome
    BY <2>2, OutcomeType
  <2>9. sent \in [Call -> Seq(Outcome)]
    BY <2>2, <2>8, AppendAt DEF TypeOK
  <2>10. i \in DOMAIN sent[CallOf[p]] /\ sent[CallOf[p]][i].which = p
         /\ sent[CallOf[p]][i].ec = "ok"
    <3> HIDE DEF sent
    <3>1. CASE CallOf[p] = CallOf[o]
      <4>1. posted'[CallOf[p]] = Append(sent[CallOf[p]], Ok(o, s))
        BY <2>2, <2>3, <2>9, <3>1
      <4>2. sent[CallOf[p]] \in Seq(Outcome)
        BY <2>5, <2>9
      <4>3. \/ /\ i \in DOMAIN sent[CallOf[p]]
               /\ posted'[CallOf[p]][i] = sent[CallOf[p]][i]
            \/ posted'[CallOf[p]][i] = Ok(o, s)
        BY <2>6, <2>7, <2>8, <4>1, <4>2
      <4> QED BY <2>4, <2>6, <4>3
    <3>2. CASE CallOf[p] # CallOf[o]
      BY <2>3, <2>5, <2>6, <2>9, <3>2
    <3> QED BY <3>1, <3>2
  <2>11. s = p
    <3>1. CASE CallOf[p] = CallOf[s]
      <4>1. sent[CallOf[p]] = Append(posted[CallOf[p]], Ok(s, NoValue))
        BY <2>5, <3>1 DEF TypeOK
      <4>2. posted[CallOf[p]] \in Seq(Outcome)
        BY <2>5 DEF TypeOK
      <4> HIDE DEF sent
      <4>3. \/ /\ i \in DOMAIN posted[CallOf[p]]
               /\ sent[CallOf[p]][i] = posted[CallOf[p]][i]
            \/ sent[CallOf[p]][i] = Ok(s, NoValue)
        BY <2>7, <2>8, <2>10, <4>1, <4>2
      <4> QED BY <2>4, <2>10, <4>3 DEF Succeeded
    <3>2. CASE CallOf[p] # CallOf[s]
      <4>1. sent[CallOf[p]] = posted[CallOf[p]]
        BY <2>5, <3>2 DEF TypeOK
      <4> QED BY <2>10, <4>1 DEF Succeeded
    <3> QED BY <3>1, <3>2
  <2> QED BY <2>1, <2>11, PopProducerDistinct
<1> QED BY <1>2, <1>3, <1>4, <1>5, <1>6 DEF FlushStep

\* No step lets a send on a closed channel succeed.
LEMMA NextSends ==
  ASSUME TypeOK, QueuedOnce, [Next]_vars,
         NEW p \in Producer, closed[ChanOf[p]], ~Succeeded(p)
  PROVE  ~Succeeded(p)'
<1> SUFFICES ASSUME Succeeded(p)' PROVE FALSE
  OBVIOUS
<1>1. posted' # posted
  BY DEF Succeeded
<1>2. CASE \E t \in Thread, c \in Chan : FlushStep(t, c)
  BY <1>2, FlushSends
<1>3. CASE \E q \in Poller : ConsumeIf(q)
  <2>1. PICK q \in Poller : ConsumeIf(q)
    BY <1>3
  <2> DEFINE c == Target[q]
             o == FrontProducer(c)
  <2>2. PollProducer(q) /\ c \in Chan
    BY <1>1, <2>1, FunctionsAssumption
    DEF ConsumeIf, PollBuffer, PollNothing, callVars
  <2>3. /\ producers[c] # <<>> /\ ~closed[c] /\ PopProducer(c)
        /\ posted' = [posted EXCEPT ![CallOf[o]] = Append(@, Ok(o, NoValue))]
    BY <2>2 DEF PollProducer, Complete
  <2>4. o \in IoOp /\ CallOf[o] \in Call
    BY <2>2, <2>3, HeadsType DEF IoOp
  <2>5. Ok(o, NoValue).which = p
    BY <2>3, <2>4, OutcomeType, SuccessIsPosted
  <2>6. o = p /\ ChanOf[o] = c
    BY <2>2, <2>3, <2>5, PopProducerDistinct DEF Ok
  <2> QED BY <2>3, <2>6
<1>4. CASE UNCHANGED posted
  BY <1>1, <1>4
<1> QED BY <1>2, <1>3, <1>4
        DEF Next, Stopped, vars, callVars, SubmitProduce, SubmitConsume, Submit,
            CallClose, RunClose, CloseAgain

\* A send that has not succeeded when its channel closes never does.
THEOREM ClosedAcceptsNothing ==
  ASSUME SafeUse
  PROVE  Spec => NoSendAfterClose
<1>1. TypeOK /\ CallsInv /\ [Next]_vars =>
        [\A p \in Producer : closed[ChanOf[p]] /\ ~Succeeded(p) => ~Succeeded(p)']_vars
  BY NextSends DEF CallsInv
<1> QED BY <1>1, TypeCorrect, CallsInvariant, PTL DEF Spec, NoSendAfterClose

-----------------------------------------------------------------------------
=============================================================================
