\* Two rounds of the test with two threads and two unbuffered channels.
CONSTANTS
  Rounds = 2
  Chan = {"a", "b"}
  Capacity <- LoopCapacity
  Call <- LoopCall
  Producer <- LoopProducer
  Consumer <- LoopConsumer
  ChanOf <- LoopChanOf
  CallOf <- LoopCallOf
  Poller = {}
  Closer <- LoopCloser
  Target <- LoopTarget
  Inline <- LoopCloser
  NullMutex = FALSE
  NoOne = NoOne
  NoValue = NoValue
SPECIFICATION FairLoop
INVARIANT RoundsMatch
PROPERTY LoopsEnd
