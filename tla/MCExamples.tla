---------------------------- MODULE MCExamples ----------------------------
(***************************************************************************)
(* The example programs, for TLC.  Each behaviour is that of one example:  *)
(* the ties of MultiConsumerTie, whose channels are 1, 2, ..., or one of   *)
(* the two programs of EventLoop, whose channel is 0.                      *)
(***************************************************************************)
EXTENDS MultiConsumerTie, EventLoop

CONSTANT MaxThreads   \* bounds the threads of system_executor that are at work

VARIABLE example      \* "ties" or "loop"

\* The words of the channels 1, 2.
ExWords == <<2, 1>>

ExChan == Ch \cup {LoopChan}
ExCapacity == [c \in ExChan |-> 0]
ExCall == TieCall \cup LoopCall
ExProducer == TieProducer \cup LoopProducer
ExConsumer == TieConsumer \cup LoopConsumer
ExChanOf == [o \in ExProducer \cup ExConsumer |-> IF o \in LoopCall THEN LoopChan ELSE o[2]]
ExCallOf == [o \in ExProducer \cup ExConsumer |-> IF o \in LoopCall THEN o ELSE o[1]]
ExCloser == TieCloser \cup {LoopClose}
ExTarget == [t \in ExCloser |-> t[2]]

-----------------------------------------------------------------------------
NoProgram == [script |-> <<>>, receivers |-> {}]

exVars == <<allVars, example>>

\* The threads that are inside a channel, or between two legs of a tie.  Those
\* who call next wait until there are fewer of them than MaxThreads.
LegsOf == [k \in ConsumeCalls |-> {o \in TieConsumer : CallOf[o] = k}]

Working ==
  ({mutex[c] : c \in Ch} \ {NoOne})
    \cup {k \in ConsumeCalls : LegsOf[k] \cap unsubmitted \notin {{}, LegsOf[k]}}

InPool == Cardinality(Working') <= MaxThreads

OfTies(A) == example = "ties" /\ A /\ UNCHANGED <<loopVars, example>>
OfLoop(A) == example = "loop" /\ A /\ UNCHANGED example

ExInit ==
  \/ example = "ties" /\ Init /\ Starts(NoProgram)
  \/ example = "loop" /\ LoopInit

ExNext == OfTies(TieNext /\ InPool) \/ OfLoop(LoopNext)

\* The processors run as long as a thread or coroutine can go on, and timers
\* expire; nobody in particular is preferred.
FairExamples == ExInit /\ [][ExNext]_exVars /\ WF_exVars(ExNext)

-----------------------------------------------------------------------------
\* Every program comes to its end.  All four futures of the ties become ready
\* (multi-consumer-tie.cpp:114-117): no coroutine waits for a partner that a
\* stale operation hides, or for a close that never comes.  ioc.run() returns
\* (intro.cpp:253, multi-consumer.cpp:69), and then every coroutine has ended
\* and every word was printed: the receives that wait keep it running, and
\* close() completes all of them.
ProgramsEnd == <>(IF example = "ties" THEN Finished ELSE RunEnded)
=============================================================================
