SPECIFICATION MCSpec
CONSTANTS
  Static <- MCStatic
  Overhead = 1
  SizeOf <- MCSizeOf
  Buckets = {0, 1}
  BucketOf <- MCBucketOf
  Seqs = 4
  TokenOf <- MCTokenOf
  Unindexed = {"p"}
  DefaultMax = 8
  UInt32Max = 15
  Uses <- MCUses
  e1 = e1
  e2 = e2
  none = none
INVARIANTS
  TablesAgree
  BlocksRead
  StringsCoded
  WireUnderstood
PROPERTIES
  RequestsJudged
  ContainersKeep
CHECK_DEADLOCK FALSE
