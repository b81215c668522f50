\* A tie that sends to and receives from one channel of null_mutex.
CONSTANTS
  Chan = {"a"}
  Capacity <- MixedCapacity
  Call = {"x1"}
  Producer <- MixedProducer
  Consumer <- MixedConsumer
  ChanOf <- MixedChanOf
  CallOf <- MixedCallOf
  Poller = {}
  Closer = {}
  Target <- MixedTarget
  Inline = {}
  NullMutex = TRUE
  NoOne = NoOne
  NoValue = NoValue
SPECIFICATION Spec
INVARIANT CompletedOnce
