\* Two copies of a channel, two operations, three calls.
\* The program may end, and the system with it.
CONSTANTS
  Handle = {h1, h2}
  Poc = {p1, p2}
  Sender = {s1, s2}
  Receiver = {r1}
  Closing = Closing
  MaxClosures = 2
SPECIFICATION FairSpec
INVARIANT TypeOK
INVARIANT AliveWhileHeld
INVARIANT CallsAccounted
INVARIANT DestructorCloses
PROPERTY WaitsEnd
CHECK_DEADLOCK FALSE
