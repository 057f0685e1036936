------------------------------ MODULE TreeShare ------------------------------
(***************************************************************************)
(* What the weights are for.  The dependency tree with a count, per child   *)
(* of stream 0, of the bytes its subtree has sent since the set of those    *)
(* with something to send, or their weights, last changed.                  *)
(***************************************************************************)
EXTENDS StreamTree

VARIABLE sent

Contest == [s \in {c \in StreamIds : t.depPrev[c] = 0 /\ t.queued[c]} |-> t.weight[s]]

RECURSIVE Top(_)
Top(s) == IF t.depPrev[s] = 0 THEN s ELSE Top(t.depPrev[s])

\* What all have had in proportion to their weights is left out of the count
Settle(f, w) ==
  IF \A s \in DOMAIN w : f[s] >= w[s]
  THEN [s \in DOMAIN f |-> IF s \in DOMAIN w THEN f[s] - w[s] ELSE 0] ELSE f

Count ==
  sent' = IF Contest' # Contest \/ Contest = <<>> THEN [s \in StreamIds |-> 0]
          ELSE IF served' = served \/ t'.lastWrite[served'[1]] = 0 THEN sent
          ELSE Settle([sent EXCEPT ![Top(served'[1])] = @ + t'.lastWrite[served'[1]]], Contest)

ShareSpec == (Init /\ sent = [s \in StreamIds |-> 0]) /\ [][Next /\ Count]_<<vars, sent>>

\* Two subtrees that both have something to send get bytes in proportion to their weights:
\* neither is ever ahead by more than two of the longest frames of each.
ProportionalShare ==
  \A a, b \in DOMAIN Contest :
    sent[a] * t.weight[b] - sent[b] * t.weight[a] <= 2 * MaxLength * (t.weight[a] + t.weight[b])
=============================================================================
