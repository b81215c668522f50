\* One thread that sends, the ping, and two consumers; a channel of one slot.
CONSTANTS
  Threads = {"t1"}
  Producers = {}
  Consumers = {"a", "b"}
  Slots = 1
  MaxSends = 1
  Chan = {"messages"}
  Capacity <- XCapacity
  Call <- XCall
  Producer <- XProducer
  Consumer <- XConsumer
  ChanOf <- XChanOf
  CallOf <- XCallOf
  Poller = {}
  Target <- XTarget
  NoValue = NoValue
SPECIFICATION FairX
INVARIANT NothingLeft
INVARIANT MessagesArrive
PROPERTY LogIsPrefix
PROPERTY MainReturns
