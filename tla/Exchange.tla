------------------------------ MODULE Exchange ------------------------------
(***************************************************************************)
(* What a server session promises for each stream, whatever the order of    *)
(* frames, resets and window updates on the others: a request is given to   *)
(* the application, which may answer it once; the answer goes out as one    *)
(* header block and then its body, byte for byte and never more, the last   *)
(* part of which ends the stream; and nothing follows a reset.              *)
(***************************************************************************)
EXTENDS Integers

CONSTANTS Streams

VARIABLES
  asked,      \* requests the application got
  answered,   \* requests it answered
  size,       \* the length of each answer's body
  wire        \* what was sent: header blocks, bytes of body, ends and resets

vars == <<asked, answered, size, wire>>

Init ==
  /\ asked = {} /\ answered = {}
  /\ size = [s \in Streams |-> 0]
  /\ wire = [s \in Streams |-> [hdr |-> 0, body |-> 0, fin |-> 0, rst |-> 0]]

Ask(s) ==
  /\ s \notin asked
  /\ asked' = asked \cup {s}
  /\ UNCHANGED <<answered, size, wire>>

Answer(s) ==
  /\ s \in asked \ answered
  /\ answered' = answered \cup {s}
  /\ size'[s] \in Nat /\ size' = [size EXCEPT ![s] = size'[s]]
  /\ UNCHANGED <<asked, wire>>

SendHeader(s) ==
  /\ s \in answered /\ wire[s].hdr = 0 /\ wire[s].rst = 0
  /\ wire' = [wire EXCEPT ![s].hdr = 1]
  /\ UNCHANGED <<asked, answered, size>>

\* A part of the body; the part that completes it ends the stream
SendBody(s) ==
  /\ wire[s].hdr = 1 /\ wire[s].fin = 0 /\ wire[s].rst = 0
  /\ \E n \in 0 .. size[s] - wire[s].body :
       wire' = [wire EXCEPT ![s].body = @ + n,
                            ![s].fin = IF wire[s].body + n = size[s] THEN 1 ELSE 0]
  /\ UNCHANGED <<asked, answered, size>>

Reset(s) ==
  /\ wire' = [wire EXCEPT ![s].rst = @ + 1]
  /\ UNCHANGED <<asked, answered, size>>

Next ==
  \E s \in Streams : Ask(s) \/ Answer(s) \/ SendHeader(s) \/ SendBody(s) \/ Reset(s)

Spec == Init /\ [][Next]_vars
=============================================================================
