# A verification of boost_channels

boost_channels is a C++20 library of Go-like channels on top of Asio
(`src/include/boost/channels`).  This directory holds TLA+ specifications of
it, TLC configurations that model-check them on small instances, and proofs
that TLAPS checks for all instances.

* [The system](#the-system)
* [The modules](#the-modules)
* [The runs](#the-runs)
* [What is proved](#what-is-proved)
* [Where the code and its documentation disagree](#where-the-code-and-its-documentation-disagree)
* [What is not modelled, and the plan](#what-is-not-modelled-and-the-plan)

## The system

| Component | State | Operations | Concurrency |
|---|---|---|---|
| value buffer (`detail/value_buffer.hpp`) | `begin`, `end`, `size`, `capacity`, raw slots after the channel object | `push`, `front` + `pop`, `destroy` | used under the mutex of the channel |
| channel implementation (`detail/channel_impl.hpp`) | `mutex_`, buffer, queues `producers_` and `consumers_`, `state_` | `submit_produce_op`, `submit_consume_op`, `close`, `consume_if`, destructor | any thread; each operation locks `mutex_` |
| flush (`detail/implement_channel_queue.hpp`) | none of its own | `flush_closed`, `flush_not_closed` | runs under the channel's mutex, takes the mutexes of operations |
| io operations (`detail/*_op_function.hpp`, `detail/shared_*_op.hpp`) | `completed_`, a mutex, the value or its reference, the completion | `consume`, `fail`, `commit` | reached by every channel that holds an operation of the call |
| select state (`detail/select_state*.hpp`) | one flag, mutex and handler for all operations of a tie | `complete` | shared by channels |
| locks (`detail/lock.hpp`, `null_mutex.hpp`) | - | lock one operation, or two with `std::lock` | - |
| tie (`tie.hpp`) | the tuple of operations | `async_wait`: submits them in random order; `check_for_null` | one thread submits, channels complete |
| front end (`channel.hpp`, `channel_producer.hpp`, `channel_consumer.hpp`, `detail/free_deleter.hpp`) | executor, shared pointer to the implementation and its storage | `async_send`, `async_consume`, `async_wait`, `consume_if`, `close`, `create_impl`, destructor | `close` is dispatched to the executor |
| handler posting (`detail/postit.hpp`) | handler and arguments | posts the handler to its executor | handlers run later, elsewhere |
| error codes (`error_code.hpp`) | - | `message`, `make_error_code` | - |

The example programs (`examples/*.cpp`) are the users that the repository
itself gives: coroutines and threads, on an `io_context`, on strands and on the
system executor, that talk through channels and must all come to an end.

`channel_send_op.hpp`, `channel_consume_op.hpp` and `select_wait_op.hpp` are
older operation classes that nothing creates any more; `process_producer`,
`process_consumer` and `rebind_and_call` have no caller.

**How they interact.** A call (`async_send`, `async_consume`, `async_wait`)
builds one operation per leg and submits each to the implementation of its
channel, which pushes it on a queue and flushes.  The flush matches operations
with the buffer and with each other.  It locks the operations that it looks
at, because an operation of a tie is also known, through its select state, to
other channels; it completes the ones it serves, which posts the handler; and
it drops the ones whose call is completed already ("stale" operations).

**What is hard.** Several channels race to complete one tie.  A thread that
flushes holds its channel's mutex and wants the mutexes of one or two calls
while others do the same in another order.  Operations go stale between the
moment they are queued and the moment they are looked at.  A close races with
sends, receives and polls, and may be run later by the executor - after the
channel object that asked for it is gone, or never.
`PROJECT.json` lists each hazard at its line with the properties that cover it.

**What makes each part correct.**

* Value buffer: it is a bounded first-in first-out queue, and a slot holds an
  object exactly when the indices say so, so that every constructor and
  destructor meets the right storage.
* Calls: each handler is posted once, and for one operation only.
* Values: none is lost, duplicated or sent by a call that failed.
* Queues: a flush leaves nothing behind that could be matched; service is in
  the order of submission; a close completes everybody; receivers are told of
  the close only when the buffer is empty.
* Lifetime: an implementation lives as long as something holds it, and whichever
  holder goes first or last, every call comes to its end.
* Locks: no cycle of threads waiting for each other.
* Storage: a channel that was created has room for every value its capacity
  admits, and its memory is freed exactly once.
* Programs: words arrive in the order they were sent, nothing that was sent is
  lost in a shutdown, and everybody who waits is woken.

## The modules

| Module | Models | Correspondence |
|---|---|---|
| `BoundedFifo` | what a channel's buffer promises | abstract: a sequence, `Push`, `Pop`, `Drop` |
| `ValueBuffer` | `value_buffer_data`, `value_buffer_ref` | one variable per field; `slot` is the storage, `Raw` where no object lives; `Push`, `Pop`, `DestroyFront` are `push`, `front`+`pop` and a turn of the loop of `destroy` |
| `Channel` | `channel_impl`, both flushes, the io operations, the select state, the locks, the submission of ties, the front end's `close` | below |
| `ChannelProofs` | - | theorems about `Channel`: types, calls, locks, settled queues, the close |
| `ChannelValueProofs` | - | theorems about `Channel`: values, order, room, drained channels; that it implements `ChannelAbs`; and what the steps of channels without slots look like to the programs on them |
| `DistinctSequences` | - | lemmas about sequences without repetitions, for queues, buffers and strands |
| `ChannelAbs` | what channels and ties promise to callers | abstract: no mutexes, flags or flushes; an operation waits or is matched in one step, and a call that completes withdraws all its operations |
| `ChannelRefinement` | - | the mapping from `Channel` to `ChannelAbs` |
| `MCChannel`, `MCTies` | - | scenarios: the constants of `Channel` for TLC; `MCTies` also says who takes part in a behaviour |
| `Lifetime` | the channel objects, their copies and operations, the shared implementation and its destructor, the closures and handlers in the executor | one variable per kind of holder; `Settle` is the end of a step that closes or lets go: the flush of `close` or of `~channel_impl` |
| `LifetimeProofs` | - | theorems about `Lifetime` |
| `TieLoop` | the test "2 producers, 2 consumer, threads" (`test/test_select.cpp`) | `Channel` whose calls come in the order of the two loops of the test; `ReceiverSubmits`, `SenderSubmits` and `SenderCloses` are its `async_wait`s and `close`s |
| `TieLoopProofs` | - | the theorem about `TieLoop` |
| `MultiConsumerTie` | `examples/multi-consumer-tie.cpp` | on `Channel`; `Produce` and `Consume` are its coroutines, flushes and late legs included |
| `EventLoop` | `examples/intro.cpp`, `examples/multi-consumer.cpp`, `postit`, one `io_context` | on `Channel`; `ready` is the queue of handlers, and whoever a handler resumes runs to its next call and through its flush |
| `MCExamples` | - | instances of the two modules above for TLC, one behaviour running one example |
| `ExampleProofs` | - | theorems about `MultiConsumerTie` and `EventLoop` |
| `CrossThreads` | `examples/cross-threads.cpp` | on `ChannelAbs`; `strand` is the strand of the log, `om` and `outstanding` are those of `main` |
| `CrossThreadsProofs` | - | theorems about `CrossThreads` |
| `Storage` | `create_impl` | sizes modulo `SizeLimit`, which is 2^64 in the program |
| `ChannelMemory` | `ValueBuffer` and `Storage` together, `free_deleter` | the ring lives in the block of memory from the constructor of the implementation until the end of its destructor |
| `ChannelMemoryProofs` | - | theorems about `ValueBuffer`, about `Storage`, and about both in `ChannelMemory` |
| `ErrorText` | `get_message`, `message` into a buffer | `cells` is the memory of the caller's buffer and the cell behind it |
| `NullTie`, `MCNullTie` | `tie(...)`, `check_for_null`, the null paths of `async_wait` | `impl` says which operations have an implementation, `has[k]` which of them a call found |

`Channel` models any number of channels and calls.  A *call* is what owns one
handler, one flag and one mutex; its *legs* are the operations
(`Producer` and `Consumer`, with `CallOf` and `ChanOf`).  A plain `async_send`
has one leg, a tie several.  A producer also names the value it sends, so a
value can be followed wherever it goes.

| Variable | In the code |
|---|---|
| `closed`, `buffer`, `producers`, `consumers`, `mutex` | the members of `channel_impl` |
| `callMutex`, `completed` | `mutex_` and `completed_` of an operation, or of the select state of a tie |
| `posted` | the invocations of the handler given to `asio::post` |
| `unsubmitted` | legs that the caller, or the loop over `inits` in `tie.hpp`, has still to submit |
| `polled` | the results of `consume_if` |
| `closing` | how far a call of `close` has got: posted by `dispatch`, flushing, done |
| `arrived` | history: the order of submissions |

*The abstract view.* In `ChannelAbs` there are no queues: `ahead` has an entry
for each operation that waits, the set of the operations of its kind on its
channel that came before it and still wait.  An operation is matched when this
set is empty.  `ChannelRefinement` computes it from the queues of `Channel`
without the stale operations, and from `arrived`: what lies in a queue and
belongs to a completed call is invisible to callers.  So a turn of a flush
that completes a call is one step of `ChannelAbs`; locking, unlocking and
popping a stale operation are none.  A leg that is submitted after
its call was completed by another leg arrives without waiting.
`CrossThreads` is built on `ChannelAbs`, so that its threads,
coroutines, strand and condition variable can be explored without the
flushes in between.

*Grain.* A submission pushes its operation and takes the channel's mutex in
one step.  Each turn of a flush loop is two steps: `LockHeads` takes the
mutexes of the calls at the heads of the queues, then `Cancel`, `Serve`,
`Accept`, `Deliver`, `TransferValue` or `TransferDropsStale` reads the flags,
acts, unlocks and pops.  `FlushDone` releases the channel.  Between two steps
of a thread any other thread may run on another channel.  Nothing finer is
observable: the buffer and the queues are guarded by the channel's mutex, the
flag and the handler by the call's, and a completion is one critical section.
The pop that follows the unlock touches only the queue.  `consume_if` is one
step because it takes no second lock; that it reads the flag of a tied
operation without its mutex is a data race of its own, whose outcomes include
the double completion that the run `stale_poll` shows.

*Choices.* Callers may make their calls in any order, each from its own
thread; the legs of a tie are submitted in any order, one at a time.  A close
by a member of `Inline` runs at once (the caller is in the executor), any
other is posted first.  With `NullMutex` no lock ever fails, and then, as such
channels require, one thread makes all calls: none starts while another is
under way.

*Constants.* The sets and functions are arbitrary.  The assumptions say that
producers and consumers, and the kinds of threads, are disjoint, that the
sentinels are not values, and that the functions are functions.

## The runs

| Run | Scenario | Checks | Distinct states |
|---|---|---|---|
| `ties` | two unbuffered channels and one of one slot, and three casts: a tie of two senders and a tie of two receivers with a plain sender, a plain receiver and a close; two ties that each send on one channel and receive from the other, a plain partner for each kind of leg, two closes; a tie that sends or receives, a tie of receivers, a sender, a poll, a posted close and an inline one | `TypeOK`, `CompletedOnce`, `ValueInOnePlace`, `Settled`, `FifoOrder`, `LocksInv`, `NoWaitingCycle`, `ImplementsChannelAbs`, `CallsReturn`, `CloseDrains` | 107 thousand |
| `buffered` | one channel of two slots, three senders, two receivers, three polls, a posted close and an inline one | `CallsInv`, `RoomOnlyByPoll`, `FifoOrder`, `ClosedMeansDrained`, `NoSendAfterClose` | 806 thousand |
| `tie_loop` | a thread that sends and a thread that receives by ties on two unbuffered channels, for two rounds, then two closes | `RoundsMatch`, `LoopsEnd` | 113 thousand |
| `examples` | `multi-consumer-tie.cpp` with two channels, of two words and of one (three channels of six in the program): ties until a channel is closed, then receives that drain the other; `multi-consumer.cpp`: six words to three receivers at once; `intro.cpp`: two words with delays to one; coroutines spawned in any order | `WordsInOrder`, `ClosedAfterAll`, `StaleSwept`, `PrintedInOrder`, `TakeTurns`, `ProgramsEnd` | 220 thousand |
| `cross_threads` | a thread that sends, the ping, two consumers, a channel of one slot, the logger, the timeout and main | `NothingLeft`, `MessagesArrive`, `LogIsPrefix`, `MainReturns` | 214 thousand |
| `value_buffer` | a ring of four slots and two values, in storage for values of one to four bytes behind an implementation of one to eight, with sizes of four bits | `TypeOK`, `LiveWindow`, `NoOverwrite`, `AllDestroyed`, `ImplementsFifo`, `RoomUnlessWrapped`, `NoLeak`, `ObjectsInStorage` | 16 thousand |
| `lifetime` | two copies of a channel, two operations made from it, two senders and a receiver; closes inline and posted | `TypeOK`, `AliveWhileHeld`, `CallsAccounted`, `DestructorCloses`, `WaitsEnd` | 45 thousand |
| `stale_poll`, `mixed_tie`, `close_outside`, `null_tie`, `c_string` | see below | one property each, violated | - |

**Bounds.** In `Channel` there is no bound but the finite constants: every call is made at
most once, so `Len(posted[k])` and the queues are bounded by the number of
operations, and the runs explore every interleaving to the end.  The
scenarios are chosen so that the interesting cases occur: a tie that is won
on either channel while stale legs stay on the other; stale legs of senders
meeting stale legs of receivers; a full buffer with a sender waiting behind
it; values buffered when the channel closes; two channels whose heads belong
to the same two ties.  More channels or calls add partners of a kind that is
there already.  `Rounds` is 2 in `tie_loop` (1000 in the test): a round leaves
at most the one stale receiver that its second tie has too many, and the next
round's sender pops it, so a third round starts as the second did.  A ring of four slots wraps, fills and empties in all
positions.  `MaxClosures` in `lifetime` bounds how often `close` is called while
closures are posted: a second closure finds a closed channel, and so would a
third.  In `examples` one channel of the ties has two words and the other one: the
receiver then leaves up to four ties in each queue, of which the drain meets
all that lost, and the second word of a channel may come by a tie or by a
receive that drains.  `MaxThreads` is 2: as many threads of `system_executor` are
at work at once, that is, inside a channel or between two legs of a tie
(`Working`), and whoever calls next waits for one of them.  Two are enough for a
call to overtake the thread that began the call before: the run has behaviours
where a leg is submitted after the next tie, the next send or the first receive that
drains was answered, where the legs of two ties come late at once, and where
a leg comes after all coroutines have ended.  A thread at work is never held
up by the bound, so nothing stops because of it, and the theorems below do
without it.  `MaxWords` bounds only the sets of calls
of the programs on one `io_context`.  `MaxSends` in `cross_threads` bounds how
often a producer sends before the close: with one slot and one message of the
thread besides the ping, messages are buffered, waiting, received and refused
in all orders around the close.  (With `MaxSends` 2 the run has 930 thousand
states and the same results.)  `MaxGets` bounds the receives of a consumer; no
consumer can reach it, since there are not that many messages.  `SizeLimit` is 16 in `value_buffer`: of the 32
layouts some fit, some wrap around, and for some `calloc` cannot succeed; the
theorems below hold for every width.  `MaxLen` in `c_string` is three cells more
than the longest message.  `CHECK_DEADLOCK` is off for `lifetime` only, where
everything may be gone.  In `Channel` the action `Stopped` says where the
system may rest, so a deadlock of threads would be reported.

**Fairness.** Safety needs none.  In `ties` the system is under `Fairness`:
what goes on in a channel goes on as long as it can (weak fairness of the
channel's `FlushStep`s: the operating system schedules the one thread that
holds the channel, and in these instances a mutex that it waits for is taken by
others only finitely often), and the executor runs closures that are posted.
Nobody is obliged to call anything.  In `tie_loop` the two threads of the test
are fair as wholes (`WF_vars(Receives)`, `WF_vars(Sends)`): a thread that can go
on does, in its loop as in a flush.  In `examples` and `cross_threads` weak
fairness of the whole program is enough, that is, the machine does not stop as
long as anybody can go on, and timers expire: every behaviour of these programs
is bounded (sends before the close are, in `cross_threads`, as `sleep_for` must
end), so the properties say that nobody is left waiting when nothing can go on.
In `lifetime` the executor's context keeps running until it is destroyed
(`WF_vars(Run)`); no object has to go.  `AllDestroyed` needs only that
`destroy()` goes on with its loop.

**What they show.**

* `CompletedOnce`, `CallsInv`: whichever channel wins a tie, its handler is
  posted once.  `CallsInv` adds what makes that inductive.
* `ValueInOnePlace`: a value is in exactly one place - a buffer, a receiver, a
  poll - when its own operation succeeded, and nowhere otherwise.
* `Settled`: when no thread is inside a channel, no receiver waits while there
  is a value or a sender, and nobody waits on a closed channel.
* `RoomOnlyByPoll`: a sender waits beside a free slot only if `consume_if`
  freed it.  `consume_if` does not flush, which the property tolerates: it states
  how much room can be left unused by that.
* `FifoOrder`: no operation succeeds before an earlier one of its kind is
  settled, and values do not overtake each other in the buffer.
* `ClosedMeansDrained`, `NoSendAfterClose`, `CloseDrains`: what a close means
  to receivers, to senders, and to everybody who waits.
* `LocksInv`, `NoWaitingCycle`, `CallsReturn`: locks are nested, and threads
  never wait in a cycle.

* `ImplementsChannelAbs`: the two-step turns, with flags read under several
  mutexes, stale operations and a random order of submission, cannot be told by
  callers from matching each operation in one step, in order.
* `StaleSwept`: stale operations do pile up in the queue of an idle channel, one for
  every tie, but no operation that lies before a successful one stays; so the
  queue holds only what came after the last match.  It sets no bound on the queue of
  a channel that is never matched, and the code has none.

* `RoundsMatch`, `LoopsEnd`: what the test checks for the
  schedules it happens to meet, for all of them: the two ties of a round get
  that round's two values, though stale legs of earlier ties lie in the queues
  and a losing leg may be submitted after the call it belongs to was completed;
  and no call fails before the end.

* `WordsInOrder`, `ClosedAfterAll`, `ProgramsEnd`: what a reader expects of the output of
  `multi-consumer-tie.cpp`: each sentence is complete and in order though its words
  come by ties and by receives, and the end of a channel is seen after its
  last word.  The coroutines run on the threads of `system_executor` without a
  strand, so the receiver may be resumed by one leg of a tie (`postit.hpp:77`) and begin
  its next receive while the thread that began the tie is in a flush or has
  further legs to submit (`tie.hpp:83-84`): `Resumed` asks only that the handler was
  posted.  A leg that comes late is stale when it comes.

* `PrintedInOrder`, `TakeTurns`, `ProgramsEnd`: matching in order and running handlers in
  order compose, so three receivers take words in turn and print them in order;
  `run()` does not return early, because a waiting operation keeps its
  context busy, and does return, because `close` completes every operation.

* `NothingLeft`, `MessagesArrive`, `LogIsPrefix`, `MainReturns`: the shutdown of
  `cross-threads.cpp`.  `main` is not left asleep; when it returns nobody will use
  `logger_`, which dangles from then on; every message whose sender was told so
  was received exactly once.  Lines that still wait in the log when it is closed are cancelled
  without notice, and `LogIsPrefix` says that these are the last ones.  They can
  be lost because the log has no buffer: 100000 is an argument of
  `make_strand` (`cross-threads.cpp:147`) instead of the channel, whose capacity is then 0.

* `RoomUnlessWrapped`, `NoLeak`, `ObjectsInStorage`: for a capacity whose size in
  bytes wraps around `std::size_t`, `create_impl` succeeds with a block that is
  too small, and this is the only case; in all others no object of the ring ever
  lies outside the block, or in it after it was freed.

* `AliveWhileHeld`, `CallsAccounted`, `DestructorCloses`, `WaitsEnd`: the closure
  that `~channel` posts finds the implementation alive; operations that outlive
  their channel are told that it is closed; when the context is destroyed with
  the closure still posted, `~channel_impl` fails what waits, and those handlers
  are dropped with the context like all others.  The destructor of one copy
  closes the channel for all copies: callers that pass channels by value should
  know it.

Each property of a passing run has a mutant in `PROJECT.json`: a small change
of an action, such as a dropped guard, that makes TLC report the property
violated.  The operators marked `mutant` in the modules are used for nothing
else.

## What is proved

For all constants that satisfy the modules' assumptions, checked by TLAPS:

| Module | Theorem | Statement |
|---|---|---|
| `ChannelMemoryProofs` | `RingInvariant`, `RingTypeCorrect`, `WindowIsLive`, `NeverOverwrites` | the ring's indices and live slots, for every capacity |
| | `RingImplementsFifo` | `ValueBuffer` implements `BoundedFifo` |
| | `StorageTypeCorrect`, `Room`, `StorageFreed` | the properties of `Storage`, for sizes of every width |
| | `RingInChannel`, `StorageOfChannel`, `ObjectsInside` | `ChannelMemory` is a behaviour of the ring and of the storage, and `[]ObjectsInStorage` |
| `ChannelProofs` | `TypeCorrect` | `Spec => []TypeOK`; in it, no buffer exceeds its capacity |
| | `SettledInvariant` | `Spec => []Settled` |
| | `CallsInvariant`, `CallsCompleteOnce` | if `SafeUse`, `[]CallsInv` and `[]CompletedOnce` |
| | `LocksInvariant` | `Spec => []LocksInv` |
| | `NoDeadlock` | if `PlainPolls` and `NoMixedTie`, `[]NoWaitingCycle` |
| | `ClosedAcceptsNothing` | if `SafeUse`, `NoSendAfterClose` |
| `ChannelValueProofs` | `OneValueOnePlace` | if `SafeUse`, `[]ValueInOnePlace` |
| | `FirstComeFirstServed`, `MatchSweepsQueue` | if `SafeUse`, `[]FifoOrder` and `[]StaleSwept` |
| | `ClosedIsDrained` | if `SafeUse`, `[]ClosedMeansDrained` |
| | `RoomIsMadeByPolls` | `Spec => []RoomOnlyByPoll` |
| | `ChannelsImplementChannelAbs` | if `SafeUse`, `Channel` implements `ChannelAbs` |
| `LifetimeProofs` | `TypeCorrect`, `ImplementationHeld`, `DestructorClosesForAll`, `CallsAreAccounted` | the safety properties of `Lifetime`, for any number of objects and calls |
| `CrossThreadsProofs` | `EverybodyHasStopped`, `LinesInOrder` | `[]NothingLeft` and `LogIsPrefix`, for any number of threads and coroutines |
| | `SentIsReceived` | if there is a consumer, `[]MessagesArrive` |
| `TieLoopProofs` | `RoundsAlwaysMatch` | `[]RoundsMatch`, for any number of rounds |
| `ExampleProofs` | `TiedWordsInOrder`, `TiesClosedAfterAll` | `[]WordsInOrder` and `[]ClosedAfterAll`, for any number of channels and words |
| | `EventsPrintedInOrder`, `ReceiversTakeTurns` | `[]PrintedInOrder` and `[]TakeTurns`, for all scripts of the sender and any receivers |

`SafeUse` says that no sender of a tie is on a channel that is polled and, for
channels of `null_mutex`, that no tie sends to and receives from one channel.
The runs `stale_poll` and `mixed_tie` show that neither half can be dropped.

**The ring.** `RingInv` is inductive: the types, the relation `end = begin + size` modulo
the capacity, and the live window.  From it follows that `push` meets a raw
slot and `pop` the oldest object, so each step of the ring is a step of the
queue under the mapping `queue <- Contents`.

**Calls and locks.** For `Channel` the argument goes in layers.  `TypeOK` is
inductive.  `Settled` is: only `FlushDone` frees a mutex, and only when no turn
is left; `consume_if` only removes.  `CompletedOnce` is not: an action
completes a call because its flag was read as false, which is enough for the
flushes but not for `consume_if` - hence `PollsFindLive`, which in turn needs
`QueuedOnce`, because an operation queued twice would be live and completed.
`PollsFindLive` is false in general; it holds under `PlainPolls`.  A tie matched
with itself completes twice unless its mutexes exclude it.  `LocksInv` says that
a locked call is at the head of a queue of the channel held by the same
thread, with all that its turn needs.  So if a thread cannot lock what it
wants, the thread that holds it has everything and can move: that is
`NoDeadlock`.  `NoSendAfterClose` follows from the guards of the turns and from
`QueuedOnce`: an operation is only in the queue of its own channel.

**Values.** The steps are brought to one form first: the set of results with
which calls are completed (`Finishes`), and the effect on queues and buffer
(`FlushEffect`, `NextHasEffect`).  On this form the invariants are proved once
and not once per turn.  `ValuesInv` adds to `ValueInOnePlace` that each buffer holds
values of its own channel without repetitions, that a poll returns once, and in which
kinds of place a value can be; it needs `CallsInv`, as a call completed twice
would duplicate a value.  `ClosedMeansDrained` is inductive together with
`CallsInv`: the first error of a consumer is posted only by a flush that finds the
buffer empty, and nothing enters the buffer of a closed channel.  `RoomInv` adds
to `RoomOnlyByPoll` that only finitely many polls have taken a value: a flush ends
with a full buffer or no sender waiting, and each such poll adds at most one slot.

**Order.** `OrderInv` says that an operation that was submitted and is no longer
in its queue belongs to a completed call; that a queue is in the order of
`arrived`, and has everything of its kind that came after its head; and that the values in
a buffer are in the order of their senders, none having been overtaken.
`FifoOrder` and `StaleSwept` are consequences of it.

**Refinement.** A turn that completes calls pops the heads of queues whose calls are
not completed.  By `OrderInv` all operations before them are finished, so in
`ChannelAbs` it is their turn (`First`); the call's other legs become
stale, which is what `Withdraw` says.  Each other step changes none of `Waiting`,
`CameBefore` among what waits, or the shared state, or is `Arrive` or `Close`.

**Lifetime.** `HeldInv` is inductive: `AliveWhileHeld` alone does not say that
nothing is held before the constructor ran (`NothingYet`), and
`DestructorCloses` is what makes the last operation let go of a channel that is
closed or about to be.  `CallsAccounted` is inductive beside it, once the
context is known to outlive all objects (`ContextOutlives`).

**Storage.** `IInv` says that the block has the size that was computed for it while
there is one.  What is left is arithmetic: `RoundUp` (a number of blocks of `i`
bytes next above `x`), `WrapAround` (a size is itself in `std::size_t`, or at
least `SizeLimit` less), and `Rounding`, which combines them: rounding up to whole
blocks never makes up for what wrapping loses, since it adds at most one
block and the implementation itself is one.  `ObjectsOfChannel`, that the ring holds
objects only while the channel is there, connects it with the ring: the destructor
frees the block only when the ring is empty.

**The program.** `XInv` of `CrossThreadsProofs` has a part for each of the things that
interact.  `ChanInv` is about the channel of messages: a call has one answer at most, a message
that was sent is in the buffer or was received by one consumer, and who is told
of the close is told by a drained channel.  `ConsumersInv`: a consumer ends only
then.  `MainInv`: `outstanding` counts the coroutines that run, so `main` gets past
its waits only when all have ended.  `LogInv`: while the log is open there is an `h`, the
last line handed to the logger, such that the lines that wait and then those
in the strand are the ones after `h`, in order; and no line is behind the close
in the strand.  `SentIsReceived` needs a consumer, without which the messages
that were buffered stay where they are; the program has three.

**Programs on `Channel`.** A program takes the steps of `Channel`, with calls in an
order of its own, so that the theorems about `Channel` hold in it; that its
users keep to `SafeUse` follows from its assumptions (`LoopAssumption`,
`TiesAssumption`, `EventLoopAssumption`: its channels have no slots, nobody polls,
and the calls on these channels are those of the program).  Without slots a
step means one of few things to the callers, whatever the flush does inside: a call
is begun, two calls meet (`Meets`: the first live operations of both queues), a
call is told of the close (`Ends`), or nothing they can see.  `FlushOutward` and
`SubmitBegins` of `ChannelValueProofs` say so, and the invariants of the programs are
proved on that form.

* *`TieLoop`.* Each thread has one call under way (`SenderInOrder`,
  `ReceiverInOrder`), so of all that lies in the queues only the legs of two
  calls are live.  They can only meet each other; `RoundMatched` says that
  the n-th call of the sender ends with the n-th call of the receiver, and that
  the second calls of a round use the channel that the ties left.
* *`MultiConsumerTie`.* A sender has one send under way (`SendsInOrder`), and of the
  receives on a channel only the last one begun is live (`ReceivesInOrder`).
  Legs of an earlier tie may be submitted after it, but their call is completed.
  So each match gives the next word of a channel to a receive that comes after all
  those which got its earlier words: `GotInOrder`.  `WordsGot` says that the
  words of completed sends, and no others, were got; a receive is told of the close
  when the sender is done.
* *`EventLoop`.* The receivers stand in one line: first those that wait in the
  queue of the channel, then those in the queue of the `io_context`.  A match
  sends the first of the line to its end with one word more; resuming a receiver,
  which calls again, only moves the border between the two queues.  `LineOrdered` says
  that the words got never decrease along the line while the channel is open; with
  `TurnsTaken`, that they differ by one at most, it is kept by a match, and it cannot
  be left out: `TakeTurns` says nothing of who is next.
  `WordsLinedUp` says that the words in the event loop are those that were sent
  and not printed, in order.  `ProgramsAssumption` says of a script that it
  ends with its only close and sends at most `MaxWords` words.

**Model-checked only:** the liveness properties `CallsReturn`, `CloseDrains`, `LoopsEnd`,
`ProgramsEnd`, `MainReturns`, `WaitsEnd`, `AllDestroyed`, which are beyond what TLAPS
can prove about fairness and `ENABLED`.  Every safety property of a passing run is
stated by a theorem.

## Where the code and its documentation disagree

* `stale_poll`: `consume_if` takes from `producers_.front()` without looking at
  `completed()` (`channel_impl.hpp:195-199`).  A tie sends on `a` and `b`, a
  receiver takes from `b`, a poll of `a` then takes from the stale leg: the
  handler is posted twice, against `@pre completed() == false`
  (`produce_op_interface.hpp:23`).
* `mixed_tie`: a tie with a sender and a receiver of one channel of
  `null_mutex` is matched with itself and completes twice
  (`implement_channel_queue.hpp:121-128`; `consume_op_interface.hpp:25`).
  With `std::mutex` the same turn gives `std::lock` one mutex twice.
* `close_outside`: `close()` promises `@post closed() == true`
  (`channel.hpp:130`), but only dispatches the closing to the executor
  (`channel.hpp:322`).
* `null_tie`: `check_for_null` tests `which != -1`, which is never true
  (`tie.hpp:98`), so the "early completion if one of the ops has no state"
  (`tie.hpp:51`) never happens.  A tie made of an operation that an earlier tie
  was made of by move submits its operations, and the null one is dereferenced.
* `c_string`: `message(ev, buffer, len)` writes the terminator to `buffer[len]`
  (`error_code.hpp:59`), behind the buffer and not behind the text, where the
  comment has C strings in mind (`error_code.hpp:51-53`).

## What is not modelled, and the plan

Not modelled: the compile-time concepts and the scope guard; the older operation
classes, which nothing creates; `channel::consume()`, which is declared and not
defined; the null paths of `async_send`, `async_consume`, `consume_if` and `close`, which
no channel reaches because its destructor suppresses the move; the unit tests of
single operations in one thread, as programs; time (a timer expires at any
moment); Asio itself beyond "a posted function runs later, a strand runs its
functions one after the other".  `TransferValue` and the other turns keep only the
value, the error code and the operation of a handler's arguments.

The modules were written in this order.

1. `BoundedFifo`, `ValueBuffer`, `Channel`, `Lifetime`, `TieLoop`, their instances,
   and the proofs about them.
2. `ChannelAbs` and `ChannelRefinement`: what channels and ties promise, refined by
   `Channel`.
3. The programs: `MultiConsumerTie` and `EventLoop` on `Channel`, `CrossThreads` on
   `ChannelAbs`.
4. `NullTie`, `Storage` with its proofs and `ChannelMemory`, `ErrorText`.

5. The proofs about the programs on `Channel`, on top of what a step of a channel
   without slots means to its callers.

Every safety property that is checked is proved.  What could follow are programs
whose channels have slots: the lemmas on `Meets` and `Ends` would need a case for a
value that waits in the buffer.
