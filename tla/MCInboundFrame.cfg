\* Short lengths of the magic, the head of a frame and the largest frame; the others as in HTTP/2.
SPECIFICATION FairSpec
CONSTANTS
  StreamIds = {1, 3, 5}
  MaxFrameSize = 20
  MagicLength = 2
  HeadLength = 3
  PriorityLength = 5
  EntryLength = 6
  WordLength = 4
  Inputs <- AllConnections
INVARIANTS
  PiecesDoNotMatter
  BlocksDecoded
  CountsRight
PROPERTIES
  
  CallReturns
CHECK_DEADLOCK FALSE
