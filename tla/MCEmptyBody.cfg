SPECIFICATION KSpec
CONSTANTS
  DefaultMax = 9
  IdleFloor = 0
  IdleCeil = 1
  MaxWindow = 3
  InitialWindow = 2
  MaxChunk = 2
  Increments = {2}
  BodySizes = {0, 3}
  MaxConcurrent = 2
  WindowSizes = {2}
  StreamIds = {1, 3}
  MaxFrames = 3
  Inputs <- KituraInputs
INVARIANTS
  EndCompletes
