---------------------------- MODULE CrossThreads ----------------------------
(***************************************************************************)
(* The program examples/cross-threads.cpp on top of ChannelAbs: threads    *)
(* and coroutines that send on one channel, coroutines that receive from   *)
(* it, a thread that closes it after a while, a logger that receives the   *)
(* lines that all of them print, and main, which waits for everybody,      *)
(* closes the channel of the log and waits for the logger.                 *)
(*                                                                         *)
(* Every coroutine runs in a strand of its own.  The channel of the log is *)
(* used in one strand only, where a call and its flush are one closure, so *)
(* it is modelled by what waits there: lines, or the logger.  (It has no   *)
(* buffer: its capacity, 100000, is passed to make_strand by mistake.)     *)
(***************************************************************************)
EXTENDS ChannelAbs

LOCAL INSTANCE SequencesExt

CONSTANTS
  Threads,     \* thread_producer: thread 1, 2 and 3
  Producers,   \* coro_producer: coro 1, 2 and 3
  Consumers,   \* coro_consumer: coro a, b and c
  Slots,       \* the capacity of the channel of messages: 1000
  MaxSends     \* bounds how often a producer sends before the channel closes

VARIABLES
  pc,           \* pc[a]: where thread or coroutine a is
  made,         \* made[a]: the calls that a has made on the channel of messages
  main,         \* where main is
  om,           \* main holds the mutex om
  outstanding,  \* how many coroutines are spawned and have not notified
  printed,      \* how many lines were printed; they are numbered 1, 2, ...
  strand,       \* the closures in the strand of the log, oldest first
  unsent,       \* the lines that wait in the channel of the log
  logClosed,    \* the channel of the log is closed
  written       \* history: the last line that the logger has written

logVars == <<strand, unsent, logClosed, written>>
progVars == <<pc, made, main, om, outstanding, printed, logVars>>
allVars == <<vars, progVars>>

Ping == "ping"
Senders == Threads \cup Producers \cup {Ping}
Coroutines == Producers \cup {Ping} \cup Consumers
Actors == Senders \cup Consumers

(***************************************************************************)
(* The calls and operations: Msg(a, n) is the n-th send of a, Get(a, n)    *)
(* the n-th receive.                                                       *)
(***************************************************************************)
Msg(a, n) == <<"msg", a, n>>
Get(a, n) == <<"get", a, n>>

\* Bounds the receives of a consumer: nobody receives more often than messages
\* are sent, and once more to be told of the close.
MaxGets == Cardinality(Threads \cup Producers) * MaxSends + 2

XProducer ==
  {Msg(a, n) : a \in Threads \cup Producers, n \in 1 .. MaxSends + 1}
    \cup {Msg(Ping, 1)}
XConsumer == {Get(a, n) : a \in Consumers, n \in 1 .. MaxGets}
XCall == XProducer \cup XConsumer
XCallOf == [o \in XCall |-> o]
XChanOf == [o \in XCall |-> "messages"]
XCapacity == [c \in {"messages"} |-> Slots]
XTarget == [q \in {} |-> "messages"]

ASSUME ActorsAssumption ==
  /\ IsFiniteSet(Threads) /\ IsFiniteSet(Producers) /\ IsFiniteSet(Consumers)
  /\ Threads \cap Producers = {}
  /\ (Threads \cup Producers) \cap Consumers = {}
  /\ {Ping, "timeout", "logger"} \cap (Threads \cup Producers \cup Consumers) = {}
  /\ Slots \in Nat /\ MaxSends \in Nat

\* The channel of messages, its calls and their operations.
ASSUME MessagesAssumption ==
  /\ Chan = {"messages"} /\ Capacity = XCapacity
  /\ Producer = XProducer /\ Consumer = XConsumer /\ Call = XCall
  /\ ChanOf = XChanOf /\ CallOf = XCallOf
  /\ Poller = {} /\ NoValue \notin Producer

-----------------------------------------------------------------------------
\* The result of the last call of a.
LastCall(a) ==
  IF a \in Senders THEN Msg(a, made[a]) ELSE Get(a, made[a])

Answered(a) == pc[a] = "await" /\ posted[LastCall(a)] # <<>>
AnsweredOk(a) == Answered(a) /\ posted[LastCall(a)][1].ec = "ok"
Refused(a) == Answered(a) /\ posted[LastCall(a)][1].ec = "closed"

Goto(a, l) == pc' = [pc EXCEPT ![a] = l]

\* println(): the line is dispatched to the strand of the log.
Println ==
  /\ printed' = printed + 1
  /\ strand' = Append(strand, <<"line", printed'>>)
  /\ UNCHANGED <<unsent, logClosed, written>>

\* thread_producer, coro_producer and the ping: the next send.  MaxSends bounds
\* the sends while the channel is open; one more learns that it is closed.
Send(a) ==
  /\ pc[a] = "call" \/ (AnsweredOk(a) /\ a # Ping)
  /\ made[a] < IF closed["messages"] THEN MaxSends + 1 ELSE MaxSends
  /\ Arrive(Msg(a, made[a] + 1))
  /\ made' = [made EXCEPT ![a] = @ + 1]
  /\ Goto(a, "await")
  /\ UNCHANGED <<main, om, outstanding, printed, logVars>>

\* A producer learns that the channel is closed: it says so and stops.
Stop(a) ==
  /\ a # Ping
  /\ Refused(a)
  /\ Println
  /\ Goto(a, IF a \in Threads THEN "ended" ELSE "ending")
  /\ UNCHANGED <<vars, made, main, om, outstanding>>

\* The ping ends after its message was sent, or with an exception.
PingDone ==
  /\ Answered(Ping)
  /\ Goto(Ping, "ending")
  /\ UNCHANGED <<vars, made, main, om, outstanding, printed, logVars>>

\* coro_consumer: receive, then print the message or the error.
Receive(a) ==
  /\ pc[a] = "call" /\ made[a] < MaxGets
  /\ Arrive(Get(a, made[a] + 1))
  /\ made' = [made EXCEPT ![a] = @ + 1]
  /\ Goto(a, "await")
  /\ UNCHANGED <<main, om, outstanding, printed, logVars>>

Report(a) ==
  /\ Answered(a)
  /\ Println
  /\ Goto(a, IF Refused(a) THEN "ending" ELSE "call")
  /\ UNCHANGED <<vars, made, main, om, outstanding>>

NotifyUnlocked(a) ==                                             \* mutant
  /\ pc[a] = "ending"
  /\ outstanding' = outstanding - 1
  /\ main' = IF outstanding' = 0 /\ main = "asleep" THEN "woken" ELSE main
  /\ Goto(a, "ended")
  /\ UNCHANGED <<vars, made, om, printed, logVars>>

\* The completion handler `notify` of a coroutine, under om.
Notify(a) ==
  /\ pc[a] = "ending"
  /\ ~om
  /\ outstanding' = outstanding - 1
  /\ main' = IF outstanding' = 0 /\ main = "asleep" THEN "woken" ELSE main
  /\ Goto(a, "ended")
  /\ UNCHANGED <<vars, made, om, printed, logVars>>

\* The thread `timeout`: messages.close(), which dispatches the closing to the
\* executor of the channel and returns.
Timeout ==
  /\ pc["timeout"] = "call"
  /\ Goto("timeout", "ended")
  /\ UNCHANGED <<vars, made, main, om, outstanding, printed, logVars>>

RunCloseMessages ==
  /\ pc["timeout"] = "ended"
  /\ ~closed["messages"]
  /\ Close("messages")
  /\ UNCHANGED progVars

-----------------------------------------------------------------------------
At(l) == main = l
Become(l) == main' = l

\* The coroutines in the order main spawns them.
SpawnOrder == SetToSeq(Producers) \o <<Ping>> \o SetToSeq(Consumers)

SpawnedBefore(b, a) ==
  \E i, j \in DOMAIN SpawnOrder : i < j /\ SpawnOrder[i] = b /\ SpawnOrder[j] = a

\* spawn(): one coroutine after the other.
Spawn(a) ==
  /\ At("spawn") /\ pc[a] = "unborn"
  /\ \A b \in Coroutines : SpawnedBefore(b, a) => pc[b] # "unborn"
  /\ outstanding' = outstanding + 1
  /\ Goto(a, "call")
  /\ Become(IF \A b \in Coroutines : pc'[b] # "unborn" THEN "join" ELSE "spawn")
  /\ UNCHANGED <<vars, made, om, printed, logVars>>

JoinTimeoutOnly ==                                               \* mutant
  /\ At("join")
  /\ pc["timeout"] = "ended"
  /\ Println
  /\ Become("lock")
  /\ UNCHANGED <<vars, pc, made, om, outstanding>>

\* t1.join() to timeout.join(), then "about to wait".
Join ==
  /\ At("join")
  /\ \A a \in Threads \cup {"timeout"} : pc[a] = "ended"
  /\ Println
  /\ Become("lock")
  /\ UNCHANGED <<vars, pc, made, om, outstanding>>

\* cv.wait: take om and evaluate the predicate, which prints; the wait that
\* follows releases om and sleeps.  (A spurious wakeup would print once more.)
Test ==
  /\ At("lock") \/ At("woken")
  /\ ~om
  /\ om' = TRUE
  /\ Println
  /\ Become(IF outstanding = 0 THEN "close" ELSE "sleep")
  /\ UNCHANGED <<vars, pc, made, outstanding>>

Sleep ==
  /\ At("sleep")
  /\ om' = FALSE
  /\ Become("asleep")
  /\ UNCHANGED <<vars, pc, made, outstanding, printed, logVars>>

\* logs.close(): the closing is dispatched to the strand of the log.
CloseLogs ==
  /\ At("close")
  /\ strand' = Append(strand, <<"close">>)
  /\ Become("wait")
  /\ UNCHANGED <<vars, pc, made, om, outstanding, printed, unsent, logClosed, written>>

\* logger_promise.get_future().wait(), and the end of main.
Finish ==
  /\ At("wait")
  /\ pc["logger"] = "ended"
  /\ Become("done")
  /\ UNCHANGED <<vars, pc, made, om, outstanding, printed, logVars>>

-----------------------------------------------------------------------------
(***************************************************************************)
(* The strand of the log.  The closure <<"logger", n>> resumes log_task    *)
(* with line n, or starts it when n is 0; <<"stop">> tells it of the close. *)
(***************************************************************************)
Closure == Head(strand)

Runs(f) ==
  /\ strand # <<>>
  /\ Closure[1] = f
  /\ UNCHANGED <<vars, made, main, om, outstanding, printed>>

Resumes(f) == strand' = Append(Tail(strand), f)

\* The closure of println(): logger_->async_send(line, detached).  A line waits
\* for the logger, unless the log is closed.
SendLine ==
  /\ Runs("line")
  /\ IF pc["logger"] = "await"
     THEN Goto("logger", "call") /\ Resumes(<<"logger", Closure[2]>>) /\ UNCHANGED unsent
     ELSE /\ unsent' = IF logClosed THEN unsent ELSE Append(unsent, Closure[2])
          /\ strand' = Tail(strand)
          /\ UNCHANGED pc
  /\ UNCHANGED <<logClosed, written>>

\* The close of the log cancels the lines that wait.
RunCloseLogs ==
  /\ Runs("close")
  /\ logClosed' = TRUE
  /\ unsent' = <<>>
  /\ IF pc["logger"] = "await"
     THEN Goto("logger", "call") /\ Resumes(<<"stop">>)
     ELSE strand' = Tail(strand) /\ UNCHANGED pc
  /\ UNCHANGED written

AskLast ==                                                       \* mutant
  IF unsent # <<>>
  THEN Resumes(<<"logger", Last(unsent)>>) /\ unsent' = Front(unsent) /\ UNCHANGED pc
  ELSE /\ UNCHANGED unsent
       /\ IF logClosed THEN Resumes(<<"stop">>) /\ UNCHANGED pc
          ELSE strand' = Tail(strand) /\ Goto("logger", "await")

\* logs.async_consume() of log_task.
Ask ==
  IF unsent # <<>>
  THEN Resumes(<<"logger", Head(unsent)>>) /\ unsent' = Tail(unsent) /\ UNCHANGED pc
  ELSE /\ UNCHANGED unsent
       /\ IF logClosed THEN Resumes(<<"stop">>) /\ UNCHANGED pc
          ELSE strand' = Tail(strand) /\ Goto("logger", "await")

\* log_task writes the line that it got, and asks for the next.
Log ==
  /\ Runs("logger")
  /\ written' = Closure[2]
  /\ Ask
  /\ UNCHANGED logClosed

\* log_task sees the close, and its completion sets logger_promise.
LoggerDone ==
  /\ Runs("stop")
  /\ strand' = Tail(strand)
  /\ Goto("logger", "ended")
  /\ UNCHANGED <<unsent, logClosed, written>>

-----------------------------------------------------------------------------
\* The threads run, the coroutines are still to be spawned, and log_task is
\* about to start in the strand of the log.
XInit ==
  /\ Init
  /\ pc = [a \in Actors \cup {"timeout", "logger"} |->
             IF a \in Coroutines THEN "unborn" ELSE "call"]
  /\ made = [a \in Actors \cup {"logger"} |-> 0]
  /\ main = "spawn"
  /\ om = FALSE
  /\ outstanding = 0
  /\ printed = 0
  /\ strand = <<<<"logger", 0>>>>
  /\ unsent = <<>>
  /\ logClosed = FALSE
  /\ written = 0

Act(a) ==
  IF a \in Senders THEN Send(a) \/ Stop(a) ELSE Receive(a) \/ Report(a)

Strand == SendLine \/ RunCloseLogs \/ Log \/ LoggerDone
Main == (\E a \in Coroutines : Spawn(a)) \/ Join \/ Test \/ Sleep \/ CloseLogs \/ Finish

XNext ==
  \/ \E a \in Actors : Act(a)
  \/ PingDone
  \/ \E a \in Coroutines : Notify(a)
  \/ Timeout \/ RunCloseMessages
  \/ Main
  \/ Strand
  \/ Progress /\ UNCHANGED progVars
  \/ At("done") /\ UNCHANGED allVars

XSpec == XInit /\ [][XNext]_allVars

\* The program goes on as long as anything in it can.  MaxSends lets it run
\* only so far before the close, so the time is up in every fair behaviour; the
\* program itself relies on sleep_for(1s) coming to an end.
FairX == XSpec /\ WF_allVars(XNext)

-----------------------------------------------------------------------------
\* When main returns everybody has stopped, and no closure is left that would
\* use the log through logger_, which dangles from then on: each coroutine
\* prints before it notifies, and closures run in order
\* (cross-threads.cpp:30, 42, 134-138, 187).
NothingLeft ==
  At("done") =>
    /\ \A a \in Actors : pc[a] = "ended"
    /\ \A i \in DOMAIN strand : strand[i][1] # "line"

\* A message that its sender was told is sent has been printed by exactly one
\* consumer when main stops waiting: the consumers drain the channel after
\* its close, before they are told of it.
Takers(p) ==
  {a \in Consumers : \E n \in 1 .. made[a] :
     \E i \in DOMAIN posted[Get(a, n)] : posted[Get(a, n)][i].val = p}

MessagesArrive ==
  At("close") => \A p \in Producer : posted[p] # <<>> =>
    Cardinality(Takers(p)) = IF posted[p][1].ec = "ok" THEN 1 ELSE 0

\* The logger writes the lines in the order they were printed and skips none:
\* what the close of the log loses are the last ones.
LogIsPrefix == [][written' # written => written' = written + 1]_written

\* main returns: the last notify() finds it asleep or about to test (cv.wait
\* with om), and the close of the log ends the logger.
MainReturns == <>At("done")
=============================================================================
