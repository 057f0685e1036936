------------------------------- MODULE MCKitura -------------------------------
(***************************************************************************)
(* The Swift layer on small instances.                                     *)
(***************************************************************************)
EXTENDS KituraSession

\* Requests with bodies and trailers, resets and windows that open late
KituraInputs == {"HEADERS", "DATA", "RST_STREAM", "WINDOW_UPDATE"}
=============================================================================
