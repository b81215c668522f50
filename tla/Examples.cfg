\* Ties of two channels with two words and one; six words to three receivers
\* and two delayed words to one, the coroutines spawned in any order.
CONSTANTS
  Channels = 2
  Words <- ExWords
  MaxThreads = 2
  Programs <- LoopPrograms
  MaxWords = 6
  Push = "push"
  Chan <- ExChan
  Capacity <- ExCapacity
  Call <- ExCall
  Producer <- ExProducer
  Consumer <- ExConsumer
  ChanOf <- ExChanOf
  CallOf <- ExCallOf
  Poller = {}
  Closer <- ExCloser
  Target <- ExTarget
  Inline <- ExCloser
  NullMutex = FALSE
  NoOne = NoOne
  NoValue = NoValue
SPECIFICATION FairExamples
INVARIANT WordsInOrder
INVARIANT ClosedAfterAll
INVARIANT StaleSwept
INVARIANT PrintedInOrder
INVARIANT TakeTurns
PROPERTY ProgramsEnd
