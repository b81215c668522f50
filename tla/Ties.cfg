\* Ties on two unbuffered channels and a buffered one, in three casts.
CONSTANTS
  Chan = {"a", "b", "c"}
  Capacity <- TiesCapacity
  Call = {"s1", "s2", "r1", "r2", "x1", "x2", "s3", "r3", "x3", "r4", "s4"}
  Producer <- TiesProducer
  Consumer <- TiesConsumer
  ChanOf <- TiesChanOf
  CallOf <- TiesCallOf
  Poller = {"poll1"}
  Closer = {"close1", "close2", "close3", "close4"}
  Target <- TiesTarget
  Inline = {"close4"}
  NullMutex = FALSE
  NoOne = NoOne
  NoValue = NoValue
SPECIFICATION FairTies
INVARIANT TypeOK
INVARIANT CompletedOnce
INVARIANT ValueInOnePlace
INVARIANT Settled
INVARIANT FifoOrder
INVARIANT LocksInv
INVARIANT NoWaitingCycle
PROPERTY ImplementsChannelAbs
PROPERTY CallsReturn
PROPERTY CloseDrains
