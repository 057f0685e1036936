\* Two streams, frames that can be cut in two, a header block of one or two frames or too
\* long, bodies of up to two frames, and one acknowledgement at a time.
SPECIFICATION FairSpec
CONSTANTS
  Streams = {1, 3}
  FrameOctets = 2
  Takes = {0, 1, 2}
  MaxFlood = 1
  MaxBlock = 2
  Blocks = {1, 2, 3}
  Bodies = {2}
  InitialWindow = 1
  MaxEvents = 5
INVARIANTS
  ItemsOwned
  FloodCounted
PROPERTIES
  ImplementsSentFrames
  EverythingLeaves
CHECK_DEADLOCK FALSE
