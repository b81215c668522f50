----------------------------- MODULE EventLoop -----------------------------
(***************************************************************************)
(* The programs examples/intro.cpp and examples/multi-consumer.cpp on top  *)
(* of Channel: coroutines on one io_context that is run by one thread.     *)
(* Coroutines receive from an unbuffered channel until it is closed; one   *)
(* sends words on it, at once or after a delay each, and closes it.        *)
(*                                                                         *)
(* The io_context runs what was posted to it, one handler after the other, *)
(* in the order in which it was posted.  A handler resumes a coroutine,    *)
(* which goes on to its next call - and through the flush of that call -   *)
(* before the next handler runs.                                           *)
(***************************************************************************)
EXTENDS Channel

CONSTANTS
  Programs,   \* the programs: a script of the sender and a set of receivers
  MaxWords,   \* bounds the words of a script
  Push        \* the coroutine that sends

VARIABLES
  program,    \* the program that runs
  ready,      \* the handlers posted to the io_context: coroutines to resume
  step,       \* step[r]: how many calls (of the script) coroutine r has made
  timer,      \* a timer of the sender is set
  ended,      \* the coroutines that have ended
  printed,    \* history: the words in the order in which they are printed
  returned    \* ioc.run() has returned

loopVars == <<program, ready, step, timer, ended, printed, returned>>
allVars == <<vars, loopVars>>

Receivers == UNION {g.receivers : g \in Programs}
Coroutine == Receivers \cup {Push}

(***************************************************************************)
(* The calls: Nth(r, n) is the n-th receive of r or the n-th send of Push, *)
(* and also the only operation of that call.  A word is its send.          *)
(***************************************************************************)
Nth(r, n) == <<"loop", r, n>>

LoopChan == 0
LoopClose == <<"close", LoopChan>>

LoopConsumer == {Nth(r, n) : r \in Receivers, n \in 1 .. MaxWords + 1}
LoopProducer == {Nth(Push, n) : n \in 1 .. MaxWords}
LoopCall == LoopConsumer \cup LoopProducer
LoopChanOf == [o \in LoopCall |-> LoopChan]
LoopCallOf == [o \in LoopCall |-> o]
LoopTarget == [t \in {LoopClose} |-> LoopChan]

\* The scripts of produce() and push().
Busy(words) == [i \in 1 .. words |-> "send"] \o <<"close">>
Delayed(words) ==
  [i \in 1 .. 2 * words + 1 |-> IF i % 2 = 1 THEN "wait" ELSE "send"] \o <<"close">>

LoopPrograms ==
  {[script |-> Busy(6), receivers |-> {"a", "b", "c"}],
   [script |-> Delayed(2), receivers |-> {"a"}]}

\* No channel has a slot, and the calls on LoopChan are those of the programs.
ASSUME EventLoopAssumption ==
  /\ \A c \in Chan : Capacity[c] = 0
  /\ LoopChan \in Chan /\ LoopCall \subseteq Call
  /\ LoopProducer \subseteq Producer /\ LoopConsumer \subseteq Consumer
  /\ \A o \in LoopCall : CallOf[o] = LoopCallOf[o] /\ ChanOf[o] = LoopChanOf[o]
  /\ LoopClose \in Closer /\ LoopClose \in Inline
  /\ Target[LoopClose] = LoopTarget[LoopClose]
  /\ Poller = {} /\ ~NullMutex

\* A script sends at most MaxWords words, and ends with the close.
ASSUME ProgramsAssumption ==
  /\ MaxWords \in Nat /\ Push \notin Receivers
  /\ \A g \in Programs :
       /\ IsFiniteSet(g.receivers)
       /\ g.script \in Seq({"send", "wait", "close"}) /\ g.script # <<>>
       /\ \A i \in DOMAIN g.script : g.script[i] = "close" <=> i = Len(g.script)
       /\ Cardinality({i \in DOMAIN g.script : g.script[i] = "send"}) <= MaxWords

\* The words that push() and produce() send.
ScriptWords == Cardinality({i \in DOMAIN program.script : program.script[i] = "send"})

-----------------------------------------------------------------------------
\* The thread is between two handlers.
Idle == \A c \in Chan : mutex[c] = NoOne

\* The coroutines that the completion of the calls K resumes: for a direct
\* transfer the sender first.
ResumedBy(K) ==
  (IF \E k \in K : k[2] = Push THEN <<Push>> ELSE <<>>)
    \o (IF \E k \in K : k[2] # Push
          THEN <<(CHOOSE k \in K : k[2] # Push)[2]>> ELSE <<>>)

NewlyPosted == {k \in LoopCall : posted'[k] # posted[k]}

PostsFront == ready' = ResumedBy(NewlyPosted) \o ready           \* mutant

\* A handler that is posted goes to the back of the queue.
Posts == ready' = ready \o ResumedBy(NewlyPosted)

\* The coroutine that runs goes through the flush of its call.
Flush ==
  /\ \E c \in Chan : mutex[c] # NoOne /\ FlushStep(mutex[c], c)
  /\ Posts
  /\ UNCHANGED <<program, step, timer, ended, printed, returned>>

\* The next handler resumes coroutine r.
Resume(r) ==
  /\ Idle /\ ready # <<>> /\ Head(ready) = r
  /\ ready' = Tail(ready)
  /\ UNCHANGED <<program, returned>>

Calls(r) == step' = [step EXCEPT ![r] = @ + 1]

\* What the receive that resumed r has got, if r has made one.
Got(r) == IF step[r] = 0 THEN <<>> ELSE posted[Nth(r, step[r])]

Prints(r) ==
  printed' = IF Got(r) = <<>> THEN printed ELSE Append(printed, Got(r)[1].val)

\* pull() and consume(): print the word and receive the next.
Receive(r) ==
  /\ Resume(r)
  /\ Got(r) # <<>> => Got(r)[1].ec = "ok"
  /\ Prints(r)
  /\ Calls(r)
  /\ SubmitConsume(Nth(r, step[r] + 1))
  /\ UNCHANGED <<timer, ended>>

\* pull() and consume(): the channel is closed.
Depart(r) ==
  /\ Resume(r)
  /\ Got(r) # <<>> /\ Got(r)[1].ec # "ok"
  /\ ended' = ended \cup {r}
  /\ UNCHANGED <<vars, step, timer, printed>>

\* What push() and produce() do next, and the number of the word in it.
Script(s) ==
  /\ Resume(Push)
  /\ program.script[step[Push] + 1] = s
  /\ Calls(Push)
  /\ UNCHANGED printed

Word == Cardinality({i \in 1 .. step[Push] + 1 : program.script[i] = "send"})

SendWord ==
  /\ Script("send")
  /\ SubmitProduce(Nth(Push, Word))
  /\ UNCHANGED <<timer, ended>>

SetTimer ==
  /\ Script("wait")
  /\ timer' = TRUE
  /\ UNCHANGED <<vars, ended>>

TimerExpires ==
  /\ timer /\ Idle
  /\ timer' = FALSE
  /\ ready' = Append(ready, Push)
  /\ UNCHANGED <<vars, program, step, ended, printed, returned>>

\* close() in the executor of the channel runs at once; then push() ends.
CloseAndEnd ==
  /\ Script("close")
  /\ RunClose(LoopClose)
  /\ ended' = ended \cup {Push}
  /\ UNCHANGED timer

\* The operations that wait keep the executor of their handler busy
\* (outstanding_work.tracked): run() does not return before they complete.
InFlight(k) == k \notin unsubmitted /\ ~completed[k]

RunReturns ==
  /\ Idle /\ ready = <<>> /\ ~timer /\ ~returned
  /\ \A k \in LoopCall : ~InFlight(k)
  /\ returned' = TRUE
  /\ UNCHANGED <<vars, program, ready, step, timer, ended, printed>>

-----------------------------------------------------------------------------
\* main() spawns the coroutines, in any order, and runs the io_context.
Starts(g) ==
  /\ program = g
  /\ ready \in {s \in [1 .. Cardinality(g.receivers) + 1 -> Coroutine] :
                  Range(s) = g.receivers \cup {Push}}
  /\ step = [r \in Coroutine |-> 0]
  /\ timer = FALSE
  /\ ended = {}
  /\ printed = <<>>
  /\ returned = FALSE

LoopInit == Init /\ \E g \in Programs : Starts(g)

Sends == SendWord \/ SetTimer \/ CloseAndEnd

LoopNext ==
  \/ Flush
  \/ \E r \in Receivers : Receive(r) \/ Depart(r)
  \/ Sends
  \/ TimerExpires
  \/ RunReturns
  \/ returned /\ UNCHANGED allVars

LoopSpec == LoopInit /\ [][LoopNext]_allVars

-----------------------------------------------------------------------------
\* The words are printed in the order in which they were sent, though several
\* coroutines receive them and each is resumed later than it was matched.
PrintedInOrder == \A i \in DOMAIN printed : printed[i] = Nth(Push, i)

WordsOf(r) == Cardinality({n \in 1 .. step[r] : \E i \in DOMAIN posted[Nth(r, n)] :
                                posted[Nth(r, n)][i].ec = "ok"})

\* The receivers take turns: none gets a second word more than another, since
\* handlers are run, and operations matched, in the order they came.
TakeTurns ==
  \A r, s \in program.receivers : WordsOf(r) <= WordsOf(s) + 1

\* ioc.run() has returned, every coroutine has ended and every word was printed.
RunEnded ==
  returned /\ ended = program.receivers \cup {Push} /\ Len(printed) = ScriptWords
=============================================================================
