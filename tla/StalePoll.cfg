\* consume_if meets the stale operation of a tie: a call completes twice.
CONSTANTS
  Chan = {"a", "b"}
  Capacity <- StaleCapacity
  Call = {"s1", "r1"}
  Producer <- StaleProducer
  Consumer <- StaleConsumer
  ChanOf <- StaleChanOf
  CallOf <- StaleCallOf
  Poller = {"poll1"}
  Closer = {}
  Target <- StaleTarget
  Inline = {}
  NullMutex = FALSE
  NoOne = NoOne
  NoValue = NoValue
SPECIFICATION Spec
INVARIANT CompletedOnce
