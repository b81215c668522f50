\* close() called from outside the executor returns before the channel is closed.
CONSTANTS
  Chan = {"a"}
  Capacity <- BufferedCapacity
  Call = {"s1", "s2", "s3", "r1", "r2"}
  Producer <- BufferedProducer
  Consumer <- BufferedConsumer
  ChanOf <- BufferedChanOf
  CallOf <- BufferedCallOf
  Poller = {"poll1", "poll2", "poll3"}
  Closer = {"close1", "close2"}
  Target <- BufferedTarget
  Inline = {"close2"}
  NullMutex = FALSE
  NoOne = NoOne
  NoValue = NoValue
SPECIFICATION Spec
INVARIANT ClosePostcondition
