\* Two concurrent streams; the bounds of each connection are in MCSession.
SPECIFICATION MCSpec
CONSTANTS
  DefaultMax = 9
  IdleFloor = 0
  IdleCeil = 1
  MaxWindow = 3
  InitialWindow = 2
  MaxChunk = 2
  Increments = {0, 2, 3}
  BodySizes = {0, 3}
  MaxConcurrent = 2
  WindowSizes = {0, 2, 3, 4}
  StreamIds = {1, 2, 3, 5}
  MaxFrames = 6
  Inputs <- AllInputs
INVARIANTS
  TypeOK
  Consistent
  ConcurrencyLimit
  OpenAssertion
  DeferredHasNoWindow
  WindowsKept
  ObjectsBounded
  RepeatedOnce
  HeldStreamLive
  StreamsClose
  NothingForgotten
PROPERTIES
  ImplementsExchange
  SendReturns
