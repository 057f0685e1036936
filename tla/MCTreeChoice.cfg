SPECIFICATION FairSpec
CONSTANTS
  StreamIds = {1, 3}
  Weights = {1, 2}
  Deps = {0, 1, 3}
  Exclusive = {FALSE, TRUE}
  DefaultWeight = 1
  MaxWeight = 2
  Lengths = {1}
  MaxLength = 1
  CycleMod = 8
  Reasons = {"user", "flow"}
  MaxPriorities = 1
  MaxJoins = 3
PROPERTIES
  ImplementsChoice
CHECK_DEADLOCK FALSE
