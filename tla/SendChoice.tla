------------------------------ MODULE SendChoice ------------------------------
(***************************************************************************)
(* What the session asks of its scheduler, and no more: the turn goes to a  *)
(* stream that has DATA and is not held back by another, and one that stays *)
(* so is served.  Session.tla leaves the choice free in just this way.      *)
(***************************************************************************)
CONSTANT StreamIds

VARIABLES
  ready,    \* streams whose DATA may be sent
  served    \* the last one served, and a bit that changes each time

vars == <<ready, served>>

Init == ready = {} /\ served = <<0, FALSE>>

\* Streams come to be ready, or no longer are
Change == ready' \in SUBSET StreamIds /\ UNCHANGED served

\* The turn is given to s: DATA is sent, perhaps its last, or s is put off
Serve(s) ==
  /\ s \in ready
  /\ served' = <<s, ~served[2]>>
  /\ ready' \in SUBSET StreamIds

Next == Change \/ \E s \in StreamIds : Serve(s)

\* Weak fairness of each Serve(s), which can happen just when s is ready
EachServed == \A s \in StreamIds : []<>(s \notin ready) \/ []<><<Serve(s)>>_vars

Spec == Init /\ [][Next]_vars /\ EachServed
=============================================================================
