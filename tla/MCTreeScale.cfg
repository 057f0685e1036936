SPECIFICATION Spec
CONSTANTS
  StreamIds = {1, 3, 5}
  Weights = {2}
  Deps = {0, 1}
  Exclusive = {FALSE, TRUE}
  DefaultWeight = 1
  MaxWeight = 2
  Lengths = {1}
  MaxLength = 1
  CycleMod = 32
  Reasons = {}
  MaxPriorities = 1
  MaxJoins = 2
INVARIANTS
  SameScale
CHECK_DEADLOCK FALSE
