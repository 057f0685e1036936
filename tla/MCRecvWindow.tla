----------------------------- MODULE MCRecvWindow -----------------------------
(***************************************************************************)
(* The windows a server grants, on small instances.                         *)
(***************************************************************************)
EXTENDS RecvWindow

\* As KituraHTTP2 uses it: two streams, padding, resets
Auto ==
  [auto |-> TRUE, honest |-> TRUE, payloads |-> {1, 3}, pads |-> {1}, increments |-> {},
   sizes |-> {}, initials |-> {}, streams |-> {1, 3}, frames |-> 2, calls |-> 1]

\* One stream that uses its window up more than once, and a new initial window on the way
Long == [Auto EXCEPT !.streams = {1}, !.frames = 4, !.calls = 0]
Settings == [Auto EXCEPT !.initials = {1}, !.streams = {1}, !.frames = 3]

\* The application says what it has consumed, of two streams or of one that is reset
Manual == [Auto EXCEPT !.auto = FALSE, !.payloads = {1, 2}, !.calls = 0]
ManualReset == [Manual EXCEPT !.streams = {1}, !.frames = 3, !.calls = 1]

\* Windows that grow and shrink under way
Resize ==
  [Auto EXCEPT !.payloads = {2}, !.pads = {}, !.increments = {-2, 3}, !.sizes = {1, 6},
               !.streams = {1}, !.calls = 2]

\* Windows the application only makes larger
Grow == [Manual EXCEPT !.payloads = {2}, !.pads = {}, !.increments = {3}, !.streams = {1}, !.calls = 1]

\* A peer that sends what it likes: more than its stream's window holds, soon more than the
\* connection's, and padding longer than the payload; so the session may end
Greedy ==
  [Auto EXCEPT !.honest = FALSE, !.payloads = {0, 4}, !.pads = {4}, !.streams = {1}, !.calls = 0]

MCUses == {Auto, Long, Settings, Manual, ManualReset, Resize, Grow, Greedy}
=============================================================================
