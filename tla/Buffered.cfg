\* Plain senders and receivers, polls and closes on one channel of two slots.
CONSTANTS
  Chan = {"a"}
  Capacity <- BufferedCapacity
  Call = {"s1", "s2", "s3", "r1", "r2"}
  Producer <- BufferedProducer
  Consumer <- BufferedConsumer
  ChanOf <- BufferedChanOf
  CallOf <- BufferedCallOf
  Poller = {"poll1", "poll2", "poll3"}
  Closer = {"close1", "close2"}
  Target <- BufferedTarget
  Inline = {"close2"}
  NullMutex = FALSE
  NoOne = NoOne
  NoValue = NoValue
SPECIFICATION Spec
INVARIANT CallsInv
INVARIANT RoomOnlyByPoll
INVARIANT FifoOrder
INVARIANT ClosedMeansDrained
PROPERTY NoSendAfterClose
