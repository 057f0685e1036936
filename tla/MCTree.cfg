\* Cycles that wrap after a few frames; the bounds of each case are in MCTree.
SPECIFICATION MCSpec
CONSTANTS
  StreamIds = {1, 3, 5}
  Weights = {2}
  Deps = {0, 1, 3, 5}
  Exclusive = {FALSE, TRUE}
  DefaultWeight = 1
  MaxWeight = 2
  Lengths = {1}
  MaxLength = 1
  CycleMod = 8
  Reasons = {"user"}
  MaxPriorities = 2
  MaxJoins = 3
INVARIANTS
  TreeKept
  DueInOrder
  ProportionalShare
  HeapKept
CHECK_DEADLOCK FALSE
