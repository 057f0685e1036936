------------------------------ MODULE MCSession ------------------------------
(***************************************************************************)
(* The session on small instances.  On each connection the peer keeps to    *)
(* the frames that one group of properties is about, so that long sequences *)
(* of those frames stay within reach of TLC.                                *)
(***************************************************************************)
EXTENDS Session

VARIABLE peer   \* what this connection is about

\* The life of streams: opening, idle anchors, resets, completed responses
Streams == INSTANCE Session
  WITH Inputs <- {"HEADERS", "RST_STREAM", "PRIORITY", "ACK"}, MaxFrames <- 4,
       Increments <- {}, BodySizes <- {0}, WindowSizes <- {2}

\* Windows: every way the peer opens and shuts them, on two streams
Flow == INSTANCE Session
  WITH Inputs <- {"HEADERS", "SETTINGS", "WINDOW_UPDATE"}, MaxFrames <- 5,
       WindowSizes <- {0, 3, 4}

\* Errors and shutdown: all that may end the session or a message half way
Shutdown == INSTANCE Session
  WITH Inputs <- {"HEADERS", "DATA", "GOAWAY", "PING", "INVALID"}, MaxFrames <- 6,
       Increments <- {}, BodySizes <- {0}, WindowSizes <- {2}

\* The upgrade of a connection, with failures of the application's data provider
UpgradeInputs == {"HEADERS", "BAD_UPGRADE", "READ_FAILURE"}
Upgraded == INSTANCE Session
  WITH Inputs <- UpgradeInputs, MaxFrames <- 3, Increments <- {}, WindowSizes <- {0, 2, 4}

AllInputs ==
  {"HEADERS", "DATA", "RST_STREAM", "PRIORITY", "SETTINGS", "ACK", "WINDOW_UPDATE", "GOAWAY", "PING",
   "INVALID"} \cup UpgradeInputs

\* Where the identifiers do not matter the peer uses two
TwoStreams ==
  lastRecv' \in {0, 1, 3} /\ \A s \in StreamIds \ {1, 3} : tbl'.strm[s].st = "ABSENT"

MCInit == Init /\ peer \in {"streams", "flow", "shutdown", "upgrade"}

MCNext ==
  /\ \/ peer = "streams" /\ Streams!Next
     \/ peer = "flow" /\ Flow!Next /\ TwoStreams
     \/ peer = "shutdown" /\ Shutdown!Next /\ TwoStreams
     \/ peer = "upgrade" /\ Upgraded!Next /\ TwoStreams
  /\ UNCHANGED peer

MCSpec == MCInit /\ [][MCNext]_<<vars, peer>> /\ WF_vars(Send) /\ WF_vars(CallbackReturns)
=============================================================================
