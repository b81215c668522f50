------------------------------ MODULE Channel ------------------------------
(***************************************************************************)
(* The channels of boost_channels and the operations in flight on them.    *)
(*                                                                         *)
(* Several channel_impl objects (detail/channel_impl.hpp) are used by many *)
(* threads at once.  A call - async_send, async_consume, async_wait of one *)
(* producer, or async_wait of a tie of several operations - has one        *)
(* completion handler, one `completed` flag and one mutex.  It puts one io *)
(* operation on a queue of a channel for each of its legs: a producer      *)
(* (basic_produce_op_interface) or a consumer (basic_consume_op_interface).*)
(* The operations of a tie share the flag and the mutex of their call (the *)
(* select_state); whichever channel serves one of them first completes the *)
(* call, and the others stay in their queues as stale entries until a      *)
(* flush pops them.                                                        *)
(*                                                                         *)
(* A thread that submits or closes holds the mutex of the channel while it *)
(* flushes the queues.  One turn of a flush loop is two steps: lock the    *)
(* mutex of the call (or of the two calls) at the head of the queues, then *)
(* look at `completed`, act, unlock and pop.  Between the two steps other  *)
(* threads work on other channels, and may hold or want the same calls.    *)
(***************************************************************************)
EXTENDS Naturals, Sequences, FiniteSets, Functions

CONSTANTS
  Chan,       \* the channel_impl objects
  Capacity,   \* Capacity[c]: the slots of the value buffer of c
  Call,       \* the asynchronous calls: one handler, flag and mutex each
  Producer,   \* the produce operations; a producer also names its value
  Consumer,   \* the consume operations
  ChanOf,     \* ChanOf[o]: the channel of operation o
  CallOf,     \* CallOf[o]: the call that operation o is a leg of
  Poller,     \* the calls of consume_if
  Closer,     \* the calls of close
  Target,     \* Target[t]: the channel that poller or closer t is called on
  Inline,     \* the closers that already run in the executor of the channel
  NullMutex,  \* TRUE: channels of null_mutex, used by one thread only
  NoOne,      \* the owner of a free mutex
  NoValue     \* a default-constructed value

IoOp == Producer \cup Consumer

\* The threads: each call runs in a thread of its own, so that every order
\* of the steps of different calls is possible.
Thread == Call \cup Poller \cup Closer

ASSUME SetsAssumption ==
  /\ Producer \cap Consumer = {}
  /\ Call \cap Poller = {} /\ Call \cap Closer = {} /\ Poller \cap Closer = {}
  /\ NoOne \notin Thread
  /\ NoValue \notin Producer
  /\ Inline \subseteq Closer
  /\ NullMutex \in BOOLEAN

ASSUME FunctionsAssumption ==
  /\ Capacity \in [Chan -> Nat]
  /\ ChanOf \in [IoOp -> Chan]
  /\ CallOf \in [IoOp -> Call]
  /\ Target \in [Poller \cup Closer -> Chan]

VARIABLES
  closed,       \* closed[c]: state_ of channel c is state_closed
  buffer,       \* buffer[c]: the values in the ring buffer, oldest first
  producers,    \* producers[c]: the queue producers_
  consumers,    \* consumers[c]: the queue consumers_
  mutex,        \* mutex[c]: the thread that holds the mutex of channel c
  callMutex,    \* callMutex[k]: the thread that holds the mutex of call k
  completed,    \* completed[k]: the flag completed_ of call k
  posted,       \* posted[k]: the invocations of the handler of k, as posted
  unsubmitted,  \* the operations not yet submitted to their channel
  polled,       \* polled[q]: what consume_if returned to q, once it has
  closing,      \* closing[t]: how far the call of close by t has got
  arrived       \* arrived[c]: history, the operations in order of submission

vars == <<closed, buffer, producers, consumers, mutex, callMutex, completed,
          posted, unsubmitted, polled, closing, arrived>>

chanVars == <<closed, buffer, producers, consumers>>
callVars == <<completed, posted>>
userVars == <<unsubmitted, polled, closing, arrived>>

\* The argument lists of the handlers: an error code, the operation of the
\* call that it is about (`which`) and the value delivered, if any.
Outcome == [ec : {"ok", "closed"}, which : IoOp, val : Producer \cup {NoValue}]

PollResult == [ec : {"ok", "closed"}, val : Producer \cup {NoValue}]

Ok(o, v) == [ec |-> "ok", which |-> o, val |-> v]
ChannelClosed(o) == [ec |-> "closed", which |-> o, val |-> NoValue]

-----------------------------------------------------------------------------
(***************************************************************************)
(* Mutexes.  A std::mutex is taken when it is free.  With null_mutex every *)
(* lock() succeeds, but then the channels are used from a single thread:   *)
(* a call starts only when no other is under way.                          *)
(***************************************************************************)
InChannel(t) == \E c \in Chan : mutex[c] = t

MayEnter(t, c) ==
  /\ mutex[c] = NoOne
  /\ ~InChannel(t)
  /\ NullMutex => \A d \in Chan : mutex[d] = NoOne

Enter(t, c) == mutex' = [mutex EXCEPT ![c] = t]
Leave(c) == mutex' = [mutex EXCEPT ![c] = NoOne]

\* std::lock takes all of the mutexes or none (basic_dual_lock::lockem);
\* listing one std::mutex twice, it can never have both.
Free(k) == callMutex[k] = NoOne

UnlockNothing(t) == UNCHANGED callMutex                          \* mutant

Unlock(t) ==
  callMutex' = [k \in Call |-> IF callMutex[k] = t THEN NoOne ELSE callMutex[k]]

-----------------------------------------------------------------------------
(***************************************************************************)
(* The turns of the flush loops, in the order in which the code tries      *)
(* them.  flush_closed fails every waiting producer before it looks at the *)
(* consumers; flush_not_closed fills the buffer from the producers, then   *)
(* empties it into the consumers, and only then matches a producer with a  *)
(* consumer directly.  (The inner loop of direct transfers leaves the      *)
(* buffer alone, and can only run where Capacity is 0: trying the first    *)
(* two cases again after each of its turns changes nothing.)               *)
(***************************************************************************)
CancelTurn(c) == closed[c] /\ producers[c] # <<>>

ServeTurn(c) == closed[c] /\ producers[c] = <<>> /\ consumers[c] # <<>>

AcceptTurnOverfull(c) ==                                         \* mutant
  ~closed[c] /\ Len(buffer[c]) <= Capacity[c] /\ producers[c] # <<>>

AcceptTurnAlmostFull(c) ==                                       \* mutant
  ~closed[c] /\ Len(buffer[c]) + 1 < Capacity[c] /\ producers[c] # <<>>

AcceptTurnWhenClosed(c) ==                                       \* mutant
  Len(buffer[c]) < Capacity[c] /\ producers[c] # <<>>

AcceptTurn(c) ==
  ~closed[c] /\ Len(buffer[c]) < Capacity[c] /\ producers[c] # <<>>

DeliverTurn(c) ==
  ~closed[c] /\ ~AcceptTurn(c) /\ buffer[c] # <<>> /\ consumers[c] # <<>>

TransferTurn(c) ==
  /\ ~closed[c] /\ ~AcceptTurn(c) /\ buffer[c] = <<>>
  /\ producers[c] # <<>> /\ consumers[c] # <<>>

UsesProducer(c) == CancelTurn(c) \/ AcceptTurn(c) \/ TransferTurn(c)
UsesConsumer(c) == ServeTurn(c) \/ DeliverTurn(c) \/ TransferTurn(c)

FrontProducer(c) == Head(producers[c])
FrontConsumer(c) == Head(consumers[c])

\* The calls whose mutexes the next turn of the flush of c locks.
HeadCalls(c) ==
  (IF UsesProducer(c) THEN {CallOf[FrontProducer(c)]} ELSE {})
    \cup (IF UsesConsumer(c) THEN {CallOf[FrontConsumer(c)]} ELSE {})

\* A tie that sends to and receives from the same channel meets itself.
MeetsItself(c) ==
  TransferTurn(c) /\ CallOf[FrontProducer(c)] = CallOf[FrontConsumer(c)]

LockHeadsInTurn(t, c) ==                                         \* mutant
  /\ mutex[c] = t
  /\ \E k \in HeadCalls(c) :
       /\ Free(k)
       /\ UsesConsumer(c) /\ k # CallOf[FrontConsumer(c)]
            => callMutex[CallOf[FrontConsumer(c)]] = t
       /\ callMutex' = [callMutex EXCEPT ![k] = t]
  /\ UNCHANGED <<chanVars, mutex, callVars, userVars>>

\* detail::lock of the operations at the heads: all of their calls at once.
LockHeads(t, c) ==
  /\ mutex[c] = t
  /\ HeadCalls(c) # {}
  /\ \A k \in HeadCalls(c) : Free(k)
  /\ MeetsItself(c) => NullMutex
  /\ callMutex' = [k \in Call |-> IF k \in HeadCalls(c) THEN t ELSE callMutex[k]]
  /\ UNCHANGED <<chanVars, mutex, callVars, userVars>>

\* Thread t has locked what the turn needs.
HeadsLocked(t, c) ==
  /\ mutex[c] = t
  /\ HeadCalls(c) # {}
  /\ MeetsItself(c) => NullMutex
  /\ \A k \in HeadCalls(c) : callMutex[k] = t

-----------------------------------------------------------------------------
(***************************************************************************)
(* Completing a call: set the flag, then post the handler with its         *)
(* arguments.  postit never runs the handler in the flushing thread.       *)
(***************************************************************************)
Complete(k, r) ==
  /\ completed' = [completed EXCEPT ![k] = TRUE]
  /\ posted' = [posted EXCEPT ![k] = Append(@, r)]

CompleteAnyway(o, r) == Complete(CallOf[o], r)                   \* mutant

\* `if (!completed()) ...`: an operation of a completed call is left alone.
CompleteUnlessDone(o, r) ==
  IF completed[CallOf[o]] THEN UNCHANGED callVars
                          ELSE Complete(CallOf[o], r)

PopProducer(c) == producers' = [producers EXCEPT ![c] = Tail(@)]
PopConsumer(c) == consumers' = [consumers EXCEPT ![c] = Tail(@)]

\* flush_closed, first loop: fail the producer at the head of the queue.
Cancel(t, c) ==
  /\ CancelTurn(c) /\ HeadsLocked(t, c)
  /\ CompleteUnlessDone(FrontProducer(c), ChannelClosed(FrontProducer(c)))
  /\ PopProducer(c)
  /\ Unlock(t)
  /\ UNCHANGED <<closed, buffer, consumers, mutex, userVars>>

ServeOnlyErrors(t, c) ==                                         \* mutant
  /\ ServeTurn(c) /\ HeadsLocked(t, c)
  /\ CompleteUnlessDone(FrontConsumer(c), ChannelClosed(FrontConsumer(c)))
  /\ PopConsumer(c)
  /\ Unlock(t)
  /\ UNCHANGED <<closed, buffer, producers, mutex, userVars>>

\* flush_closed, second loop: the consumer at the head of the queue gets the
\* oldest buffered value, or the error when there is none.
Serve(t, c) ==
  /\ ServeTurn(c) /\ HeadsLocked(t, c)
  /\ LET o == FrontConsumer(c) IN
       IF completed[CallOf[o]] \/ buffer[c] = <<>>
         THEN /\ CompleteUnlessDone(o, ChannelClosed(o))
              /\ UNCHANGED buffer
         ELSE /\ Complete(CallOf[o], Ok(o, Head(buffer[c])))
              /\ buffer' = [buffer EXCEPT ![c] = Tail(@)]
  /\ PopConsumer(c)
  /\ Unlock(t)
  /\ UNCHANGED <<closed, producers, mutex, userVars>>

\* flush_not_closed, first case: a producer's value enters the buffer.
Accept(t, c) ==
  /\ AcceptTurn(c) /\ HeadsLocked(t, c)
  /\ LET o == FrontProducer(c) IN
       /\ CompleteUnlessDone(o, Ok(o, NoValue))
       /\ buffer' = IF completed[CallOf[o]] THEN buffer
                    ELSE [buffer EXCEPT ![c] = Append(@, o)]
  /\ PopProducer(c)
  /\ Unlock(t)
  /\ UNCHANGED <<closed, consumers, mutex, userVars>>

DeliverPopsAlways(t, c) ==                                       \* mutant
  /\ DeliverTurn(c) /\ HeadsLocked(t, c)
  /\ CompleteUnlessDone(FrontConsumer(c), Ok(FrontConsumer(c), Head(buffer[c])))
  /\ buffer' = [buffer EXCEPT ![c] = Tail(@)]
  /\ PopConsumer(c)
  /\ Unlock(t)
  /\ UNCHANGED <<closed, producers, mutex, userVars>>

\* flush_not_closed, second case: a buffered value goes to a consumer.
Deliver(t, c) ==
  /\ DeliverTurn(c) /\ HeadsLocked(t, c)
  /\ LET o == FrontConsumer(c) IN
       /\ CompleteUnlessDone(o, Ok(o, Head(buffer[c])))
       /\ buffer' = IF completed[CallOf[o]] THEN buffer
                    ELSE [buffer EXCEPT ![c] = Tail(@)]
  /\ PopConsumer(c)
  /\ Unlock(t)
  /\ UNCHANGED <<closed, producers, mutex, userVars>>

TransferFromStale(t, c) ==                                       \* mutant
  LET p == FrontProducer(c)
      o == FrontConsumer(c)
      pc == completed[CallOf[p]]
      sent == IF pc THEN posted ELSE
              [posted EXCEPT ![CallOf[p]] = Append(@, Ok(p, NoValue))]
  IN /\ TransferTurn(c) /\ HeadsLocked(t, c)
     /\ ~completed[CallOf[o]]
     /\ completed' = [completed EXCEPT ![CallOf[p]] = TRUE, ![CallOf[o]] = TRUE]
     /\ posted' = [sent EXCEPT ![CallOf[o]] = Append(@, Ok(o, p))]
     /\ PopProducer(c)
     /\ PopConsumer(c)
     /\ Unlock(t)
     /\ UNCHANGED <<closed, buffer, mutex, userVars>>

TransferToStale(t, c) ==                                         \* mutant
  LET p == FrontProducer(c)
      o == FrontConsumer(c)
      sent == [posted EXCEPT ![CallOf[p]] = Append(@, Ok(p, NoValue))]
  IN /\ TransferTurn(c) /\ HeadsLocked(t, c)
     /\ ~completed[CallOf[p]]
     /\ completed' = [completed EXCEPT ![CallOf[p]] = TRUE, ![CallOf[o]] = TRUE]
     /\ posted' = IF completed[CallOf[o]] THEN sent
                  ELSE [sent EXCEPT ![CallOf[o]] = Append(@, Ok(o, p))]
     /\ PopProducer(c)
     /\ PopConsumer(c)
     /\ Unlock(t)
     /\ UNCHANGED <<closed, buffer, mutex, userVars>>

\* flush_not_closed, third case, when neither call is completed: the value
\* goes from the producer to the consumer.  The producer's handler is posted
\* first (consume() is evaluated before commit()).
TransferValue(t, c) ==
  LET p == FrontProducer(c)
      o == FrontConsumer(c)
      sent == [posted EXCEPT ![CallOf[p]] = Append(@, Ok(p, NoValue))]
  IN /\ TransferTurn(c) /\ HeadsLocked(t, c)
     /\ ~completed[CallOf[p]] /\ ~completed[CallOf[o]]
     /\ completed' = [completed EXCEPT ![CallOf[p]] = TRUE, ![CallOf[o]] = TRUE]
     /\ posted' = [sent EXCEPT ![CallOf[o]] = Append(@, Ok(o, p))]
     /\ PopProducer(c)
     /\ PopConsumer(c)
     /\ Unlock(t)
     /\ UNCHANGED <<closed, buffer, mutex, userVars>>

TransferDropsLive(t, c) ==                                       \* mutant
  /\ TransferTurn(c) /\ HeadsLocked(t, c)
  /\ completed[CallOf[FrontProducer(c)]] \/ completed[CallOf[FrontConsumer(c)]]
  /\ PopProducer(c)
  /\ PopConsumer(c)
  /\ Unlock(t)
  /\ UNCHANGED <<closed, buffer, mutex, callVars, userVars>>

\* The third case when a call at a head is completed: its operation is popped.
TransferDropsStale(t, c) ==
  LET pc == completed[CallOf[FrontProducer(c)]]
      cc == completed[CallOf[FrontConsumer(c)]]
  IN /\ TransferTurn(c) /\ HeadsLocked(t, c)
     /\ pc \/ cc
     /\ IF pc THEN PopProducer(c) ELSE UNCHANGED producers
     /\ IF cc THEN PopConsumer(c) ELSE UNCHANGED consumers
     /\ Unlock(t)
     /\ UNCHANGED <<closed, buffer, mutex, callVars, userVars>>

FlushStopsEarly(t, c) ==                                         \* mutant
  /\ mutex[c] = t
  /\ \A k \in Call : callMutex[k] # t
  /\ Leave(c)
  /\ closing' = IF t \in Closer THEN [closing EXCEPT ![t] = "done"] ELSE closing
  /\ UNCHANGED <<chanVars, callMutex, callVars, unsubmitted, polled, arrived>>

\* The loop has nothing left to do: the thread releases the channel.
FlushDone(t, c) ==
  /\ mutex[c] = t
  /\ HeadCalls(c) = {}
  /\ Leave(c)
  /\ closing' = IF t \in Closer THEN [closing EXCEPT ![t] = "done"] ELSE closing
  /\ UNCHANGED <<chanVars, callMutex, callVars, unsubmitted, polled, arrived>>

-----------------------------------------------------------------------------
(***************************************************************************)
(* The calls of the user.  A tie submits its operations in a random order, *)
(* each under the mutex of its own channel.                                *)
(***************************************************************************)
Submit(o) ==
  LET k == CallOf[o]
      c == ChanOf[o]
  IN /\ o \in unsubmitted
     /\ MayEnter(k, c)
     /\ Enter(k, c)
     /\ unsubmitted' = unsubmitted \ {o}
     /\ arrived' = [arrived EXCEPT ![c] = Append(@, o)]
     /\ UNCHANGED <<closed, buffer, callMutex, callVars, polled, closing>>

\* channel_impl::submit_produce_op: the push; the flush follows.
PushProducer(p) ==
  /\ producers' = [producers EXCEPT ![ChanOf[p]] = Append(@, p)]
  /\ UNCHANGED consumers

PushConsumerFirst(o) ==                                          \* mutant
  /\ consumers' = [consumers EXCEPT ![ChanOf[o]] = <<o>> \o @]
  /\ UNCHANGED producers

\* channel_impl::submit_consume_op: the push; the flush follows.
PushConsumer(o) ==
  /\ consumers' = [consumers EXCEPT ![ChanOf[o]] = Append(@, o)]
  /\ UNCHANGED producers

\* async_wait or submit_shared_op of a producer, and async_send.
SubmitProduce(p) == Submit(p) /\ PushProducer(p)

\* submit_shared_op of a consumer, and async_consume.
SubmitConsume(o) == Submit(o) /\ PushConsumer(o)

\* channel::close from outside the executor: asio::dispatch posts the closure
\* that closes the channel, and close() returns.
CallClose(t) ==
  /\ closing[t] = "idle"
  /\ t \notin Inline
  /\ closing' = [closing EXCEPT ![t] = "posted"]
  /\ UNCHANGED <<chanVars, mutex, callMutex, callVars, unsubmitted, polled,
                 arrived>>

CloseRuns(t) == closing[t] = IF t \in Inline THEN "idle" ELSE "posted"

RunCloseNoFlush(t) ==                                            \* mutant
  /\ CloseRuns(t)
  /\ MayEnter(t, Target[t])
  /\ ~closed[Target[t]]
  /\ closed' = [closed EXCEPT ![Target[t]] = TRUE]
  /\ closing' = [closing EXCEPT ![t] = "done"]
  /\ UNCHANGED <<buffer, producers, consumers, mutex, callMutex, callVars,
                 unsubmitted, polled, arrived>>

\* channel_impl::close of a running channel, up to the flush.
RunClose(t) ==
  LET c == Target[t] IN
  /\ CloseRuns(t)
  /\ MayEnter(t, c)
  /\ ~closed[c]
  /\ closed' = [closed EXCEPT ![c] = TRUE]
  /\ Enter(t, c)
  /\ closing' = [closing EXCEPT ![t] = "flushing"]
  /\ UNCHANGED <<buffer, producers, consumers, callMutex, callVars, unsubmitted,
                 polled, arrived>>

\* channel_impl::close of a closed channel: no action is taken.
CloseAgain(t) ==
  LET c == Target[t] IN
  /\ CloseRuns(t)
  /\ MayEnter(t, c)
  /\ closed[c]
  /\ closing' = [closing EXCEPT ![t] = "done"]
  /\ UNCHANGED <<chanVars, mutex, callMutex, callVars, unsubmitted, polled,
                 arrived>>

-----------------------------------------------------------------------------
(***************************************************************************)
(* consume_if: take one value if there is one, and never wait for one.     *)
(* The whole call is one step under the mutex of the channel.  It does not *)
(* flush, and it takes from the first producer without locking the call or *)
(* looking at `completed`.                                                 *)
(***************************************************************************)
Return(q, r) == polled' = [polled EXCEPT ![q] = <<r>>]

Poll(q) ==
  /\ polled[q] = <<>>
  /\ MayEnter(q, Target[q])
  /\ UNCHANGED <<closed, consumers, mutex, callMutex, unsubmitted, closing,
                 arrived>>

PollBuffer(q) ==
  LET c == Target[q] IN
  /\ Poll(q)
  /\ buffer[c] # <<>>
  /\ Return(q, [ec |-> "ok", val |-> Head(buffer[c])])
  /\ buffer' = [buffer EXCEPT ![c] = Tail(@)]
  /\ UNCHANGED <<producers, callVars>>

PollProducerNoPop(q) ==                                          \* mutant
  LET c == Target[q]
      p == FrontProducer(c)
  IN /\ Poll(q)
     /\ buffer[c] = <<>> /\ ~closed[c] /\ producers[c] # <<>>
     /\ Complete(CallOf[p], Ok(p, NoValue))
     /\ Return(q, [ec |-> "ok", val |-> p])
     /\ UNCHANGED <<producers, buffer>>

PollProducer(q) ==
  LET c == Target[q]
      p == FrontProducer(c)
  IN /\ Poll(q)
     /\ buffer[c] = <<>> /\ ~closed[c] /\ producers[c] # <<>>
     /\ Complete(CallOf[p], Ok(p, NoValue))
     /\ Return(q, [ec |-> "ok", val |-> p])
     /\ PopProducer(c)
     /\ UNCHANGED buffer

PollNothing(q) ==
  LET c == Target[q] IN
  /\ Poll(q)
  /\ buffer[c] = <<>>
  /\ closed[c] \/ producers[c] = <<>>
  /\ Return(q, [ec |-> IF closed[c] THEN "closed" ELSE "ok", val |-> NoValue])
  /\ UNCHANGED <<buffer, producers, callVars>>

ConsumeIf(q) == PollBuffer(q) \/ PollProducer(q) \/ PollNothing(q)

-----------------------------------------------------------------------------
Init ==
  /\ closed = [c \in Chan |-> FALSE]
  /\ buffer = [c \in Chan |-> <<>>]
  /\ producers = [c \in Chan |-> <<>>]
  /\ consumers = [c \in Chan |-> <<>>]
  /\ mutex = [c \in Chan |-> NoOne]
  /\ callMutex = [k \in Call |-> NoOne]
  /\ completed = [k \in Call |-> FALSE]
  /\ posted = [k \in Call |-> <<>>]
  /\ unsubmitted = IoOp
  /\ polled = [q \in Poller |-> <<>>]
  /\ closing = [t \in Closer |-> "idle"]
  /\ arrived = [c \in Chan |-> <<>>]

\* One step of the flush of channel c by thread t.
FlushStep(t, c) ==
  \/ LockHeads(t, c)
  \/ Cancel(t, c)
  \/ Serve(t, c)
  \/ Accept(t, c)
  \/ Deliver(t, c)
  \/ TransferValue(t, c)
  \/ TransferDropsStale(t, c)
  \/ FlushDone(t, c)

\* Every call has returned; handlers may still be waiting.
AllReturned ==
  /\ unsubmitted = {}
  /\ \A c \in Chan : mutex[c] = NoOne
  /\ \A q \in Poller : polled[q] # <<>>
  /\ \A t \in Closer : closing[t] = "done"

\* The system may stop there, and nowhere else.
Stopped == AllReturned /\ UNCHANGED vars

Next ==
  \/ \E t \in Thread, c \in Chan : FlushStep(t, c)
  \/ \E p \in Producer : SubmitProduce(p)
  \/ \E o \in Consumer : SubmitConsume(o)
  \/ \E t \in Closer : CallClose(t) \/ RunClose(t) \/ CloseAgain(t)
  \/ \E q \in Poller : ConsumeIf(q)
  \/ Stopped

Spec == Init /\ [][Next]_vars

\* A thread inside a call keeps running and gets a mutex that stays free -
\* it is the only one that holds its channel, so what goes on in a channel is
\* what that thread does - and the executor runs the closures that close()
\* posted, some of them as long as there is one.  Nobody is obliged to make a call.
Fairness ==
  /\ \A c \in Chan : WF_vars(\E t \in Thread : FlushStep(t, c))
  /\ WF_vars(\E t \in Closer : closing[t] = "posted" /\ (RunClose(t) \/ CloseAgain(t)))

-----------------------------------------------------------------------------
(***************************************************************************)
(* Type invariant.                                                         *)
(***************************************************************************)
BufferOK == \A c \in Chan : Len(buffer[c]) <= Capacity[c]

TypeOK ==
  /\ closed \in [Chan -> BOOLEAN]
  /\ buffer \in [Chan -> Seq(Producer)]
  /\ BufferOK
  /\ producers \in [Chan -> Seq(Producer)]
  /\ consumers \in [Chan -> Seq(Consumer)]
  /\ mutex \in [Chan -> Thread \cup {NoOne}]
  /\ callMutex \in [Call -> Thread \cup {NoOne}]
  /\ completed \in [Call -> BOOLEAN]
  /\ posted \in [Call -> Seq(Outcome)]
  /\ unsubmitted \subseteq IoOp
  /\ polled \in [Poller -> Seq(PollResult)]
  /\ closing \in [Closer -> {"idle", "posted", "flushing", "done"}]
  /\ arrived \in [Chan -> Seq(IoOp)]

(***************************************************************************)
(* The calls.                                                              *)
(***************************************************************************)
\* The handler of a call is invoked at most once, and exactly when the call
\* is marked completed: the shared flag of a tie, tested under its mutex,
\* lets one of its operations win whatever the order in which the channels
\* reach them (shared_produce_op::consume, shared_consume_op::commit and
\* select_state, which assert it).
CompletedOnce ==
  \A k \in Call : Len(posted[k]) = IF completed[k] THEN 1 ELSE 0

\* An operation waits at most once, in the queue of its own channel, and only
\* after it was submitted.
QueuedOnce ==
  \A c \in Chan :
    /\ IsInjective(producers[c]) /\ IsInjective(consumers[c])
    /\ \A o \in Range(producers[c]) \cup Range(consumers[c]) :
         ChanOf[o] = c /\ o \notin unsubmitted

\* A producer that is still to be matched or failed.
Pending(p) == p \in unsubmitted \/ p \in Range(producers[ChanOf[p]])

\* consume_if takes from the first producer whatever its state
\* (channel_impl.hpp:195-199): it never meets a completed one.
PollsFindLive ==
  \A q \in Poller, p \in Producer :
    ChanOf[p] = Target[q] /\ Pending(p) => ~completed[CallOf[p]]

\* A channel on which consume_if is called has no sender that is a leg of a
\* tie: its calls are of one operation.
PlainPolls ==
  \A q \in Poller, p \in Producer, o \in IoOp :
    ChanOf[p] = Target[q] /\ CallOf[o] = CallOf[p] => o = p

\* No tie sends to and receives from the same channel.
NoMixedTie ==
  \A p \in Producer, o \in Consumer :
    ChanOf[p] = ChanOf[o] => CallOf[p] # CallOf[o]

\* How the library has to be used for its calls to complete once.  (With
\* std::mutex a mixed tie waits for itself instead of completing twice.)
SafeUse == PlainPolls /\ (NullMutex => NoMixedTie)

\* The inductive invariant behind CompletedOnce, kept by every step when the
\* library is used as SafeUse says (shared_produce_op.hpp:54 and 64,
\* shared_consume_op.hpp:49, producer_op_function.hpp:63 assert what it is for).
CallsInv == CompletedOnce /\ QueuedOnce /\ PollsFindLive

\* Operation o ended its call without an error.
Succeeded(o) ==
  \E i \in DOMAIN posted[CallOf[o]] :
    /\ posted[CallOf[o]][i].which = o
    /\ posted[CallOf[o]][i].ec = "ok"

\* Operation o ended its call with errors::channel_closed.
Failed(o) ==
  \E i \in DOMAIN posted[CallOf[o]] :
    /\ posted[CallOf[o]][i].which = o
    /\ posted[CallOf[o]][i].ec = "closed"

\* The places where the value of p is to be found outside its sender: the
\* slots of the buffers, the results of consumers and the results of polls.
Places(p) ==
  (UNION {{<<c, i>> : i \in {j \in DOMAIN buffer[c] : buffer[c][j] = p}}
            : c \in Chan})
  \cup
  (UNION {{<<k, i>> : i \in {j \in DOMAIN posted[k] : posted[k][j].val = p}}
            : k \in Call})
  \cup
  (UNION {{<<q, i>> : i \in {j \in DOMAIN polled[q] : polled[q][j].val = p}}
            : q \in Poller})

\* No value is lost, duplicated or sent by a failed call: a value is in one
\* place exactly when its own produce operation is the one that completed
\* its call.  A tie that sends several values sends one of them; a consumer
\* whose call was completed elsewhere takes nothing from the buffer
\* (implement_channel_queue.hpp:92, 104-109 and 119-126).
ValueInOnePlace ==
  \A p \in Producer :
    /\ Succeeded(p) <=> Places(p) # {}
    /\ \A x, y \in Places(p) : x = y

(***************************************************************************)
(* The queues.                                                             *)
(***************************************************************************)
\* Whenever the mutex of a channel is free, no receiver waits while there is
\* a value in the buffer or a sender in the queue, and a closed channel has
\* nobody waiting: each flush ran to its end, also past stale operations.
Settled ==
  \A c \in Chan : mutex[c] = NoOne =>
    /\ consumers[c] # <<>> => buffer[c] = <<>> /\ producers[c] = <<>>
    /\ closed[c] => producers[c] = <<>> /\ consumers[c] = <<>>

\* A poll of c that returned a value.
PolledValue(q) == \E i \in DOMAIN polled[q] : polled[q][i].val # NoValue

\* Senders wait only for a full buffer, except for the room that consume_if
\* made: it does not flush, so the sender that could fill the slot waits for
\* the next submission (channel_impl.hpp:182-186).
RoomOnlyByPoll ==
  \A c \in Chan :
    mutex[c] = NoOne /\ producers[c] # <<>> =>
      Capacity[c] - Len(buffer[c])
        <= Cardinality({q \in Poller : Target[q] = c /\ PolledValue(q)})

\* The mutex of a call is held only by a thread that holds the channel whose
\* queue has the call at its head: no lock outlives its turn of the loop, and
\* nobody waits for a call while holding another (detail/lock.hpp).
CallLocksNested ==
  \A k \in Call : callMutex[k] # NoOne =>
    \E c \in Chan :
      /\ mutex[c] = callMutex[k]
      /\ k \in HeadCalls(c)
      /\ \A h \in HeadCalls(c) : callMutex[h] = callMutex[k]

\* A thread is inside one channel at a time.
OneChannel ==
  \A c, d \in Chan : mutex[c] = mutex[d] /\ mutex[c] # NoOne => c = d

LocksInv == OneChannel /\ CallLocksNested

\* The thread that holds channel c can take its next step.
CanMove(c) ==
  /\ MeetsItself(c) => NullMutex
  /\ \/ \A k \in HeadCalls(c) : Free(k)
     \/ \A k \in HeadCalls(c) : callMutex[k] = mutex[c]

\* While any channel is held, the thread of some held channel can move: ties
\* over several channels never make all threads wait for one another
\* (basic_dual_lock::lockem takes both mutexes at once or none).
NoWaitingCycle ==
  (\E c \in Chan : mutex[c] # NoOne) =>
    \E c \in Chan : mutex[c] # NoOne /\ CanMove(c)

\* First come, first served on each channel: when an operation succeeded, the
\* operations of its kind that were submitted before it belong to completed
\* calls; and values leave the buffer in the order in which their senders
\* came, whoever took them.
BothSend(o1, o2) == o1 \in Producer /\ o2 \in Producer
SameKind(o1, o2) == o1 \in Producer <=> o2 \in Producer

FifoOrder ==
  \A c \in Chan : \A i, j \in DOMAIN arrived[c] :
    LET o1 == arrived[c][i]
        o2 == arrived[c][j]
    IN i < j /\ SameKind(o1, o2) /\ Succeeded(o2) =>
         /\ completed[CallOf[o1]]
         /\ BothSend(o1, o2) /\ o2 \notin Range(buffer[c]) => o1 \notin Range(buffer[c])

\* A match sweeps the queue: what still waits in a queue, stale or not, was
\* submitted after the last operation of its kind that succeeded on the
\* channel.  So the stale operations of ties that are repeated against an idle
\* channel pile up (implement_channel_queue.hpp:113), but none of them outlives
\* the next match on it.
StaleSwept ==
  \A c \in Chan : \A i, j \in DOMAIN arrived[c] :
    i < j /\ SameKind(arrived[c][i], arrived[c][j]) /\ Succeeded(arrived[c][j]) =>
      arrived[c][i] \notin Range(producers[c]) \cup Range(consumers[c])

\* A receiver that is told that its channel is closed has missed nothing: the
\* buffer was drained before the first error and stays empty.
ToldClosed(c) ==
  \/ \E o \in Consumer : ChanOf[o] = c /\ Failed(o)
  \/ \E q \in Poller :
       Target[q] = c /\ \E i \in DOMAIN polled[q] : polled[q][i].ec = "closed"

ClosedMeansDrained ==
  \A c \in Chan : ToldClosed(c) => closed[c] /\ buffer[c] = <<>>

\* Once a channel is closed no send on it succeeds, though it may have been
\* submitted, and may be waiting, before (flush_closed fails all of them).
NoSendAfterClose ==
  [][\A p \in Producer : closed[ChanOf[p]] /\ ~Succeeded(p) => ~Succeeded(p)']_vars

(***************************************************************************)
(* Liveness.                                                               *)
(***************************************************************************)
\* Every submission and every close gets through its flush: threads that
\* hold different channels and need the calls of the same ties do not wait
\* for each other for ever.
\* (Each call is made once, so at last every channel stays free.)
CallsReturn == <>[](\A c \in Chan : mutex[c] = NoOne)

\* The call of every operation that was submitted to a closed channel, before
\* or after the close, completes.
CloseDrains ==
  <>[](\A o \in IoOp :
         closed[ChanOf[o]] /\ o \notin unsubmitted => completed[CallOf[o]])

(***************************************************************************)
(* What the documentation promises and the code does not keep.             *)
(***************************************************************************)
\* channel.hpp:130, `@post closed() == true`: the channel is closed when
\* close() returns.
ClosePostcondition ==
  \A t \in Closer : closing[t] \in {"posted", "done"} => closed[Target[t]]
=============================================================================
