\* Windows a few frames use up; the bounds of each use are in MCRecvWindow.
SPECIFICATION FairSpec
CONSTANTS
  StreamIds = {1, 3}
  MaxWindow = 7
  ConnectionWindow = 4
  InitialWindow = 3
  Uses <- MCUses
INVARIANTS
  LedgersAgree
  AccusedRightly
  NoStall
PROPERTIES
  WindowReopens
CHECK_DEADLOCK FALSE
