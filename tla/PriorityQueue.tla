----------------------------- MODULE PriorityQueue ----------------------------
(***************************************************************************)
(* The binary heap of nghttp2_pq.c.  A queue is a sequence of entries; what *)
(* an entry is compared by is given by key, a function on entries, because  *)
(* the entries are streams whose cycles live elsewhere and change while     *)
(* they are not in the heap.  Allocation never fails.                       *)
(***************************************************************************)
EXTENDS Naturals, Sequences

CONSTANT Less(_, _)   \* pq->less, on keys

\* Mutant: one of the two entries is overwritten
SwapLosing(q, i, j) == [q EXCEPT ![i] = q[j]]

\* swap: the entries know their index, which here is their place
Swap(q, i, j) == [q EXCEPT ![i] = q[j], ![j] = q[i]]

RECURSIVE BubbleUp(_, _, _)
BubbleUp(q, key, i) ==
  IF i = 1 \/ ~Less(key[q[i]], key[q[i \div 2]]) THEN q
  ELSE BubbleUp(Swap(q, i, i \div 2), key, i \div 2)

\* The smaller of the two children, if it is smaller than its parent
RECURSIVE BubbleDown(_, _, _)
BubbleDown(q, key, i) ==
  LET Lesser(a, b) == IF b <= Len(q) /\ Less(key[q[b]], key[q[a]]) THEN b ELSE a
      m == Lesser(Lesser(i, 2 * i), 2 * i + 1)
  IN IF m = i THEN q ELSE BubbleDown(Swap(q, i, m), key, m)

Push(q, key, e) == BubbleUp(Append(q, e), key, Len(q) + 1)

Shorter(q) == SubSeq(q, 1, Len(q) - 1)

\* Mutant: the others move up one place
PopShifted(q, key) == SubSeq(q, 2, Len(q))

Pop(q, key) ==
  IF Len(q) <= 1 THEN <<>>
  ELSE BubbleDown(Shorter([q EXCEPT ![1] = q[Len(q)]]), key, 1)

\* Mutant: the entry moved into the gap only ever sinks
DeleteSinking(q, key, e) ==
  LET i == CHOOSE k \in DOMAIN q : q[k] = e
  IN IF i = 1 THEN Pop(q, key)
     ELSE IF i = Len(q) THEN Shorter(q)
     ELSE BubbleDown(Shorter([q EXCEPT ![i] = q[Len(q)]]), key, i)

\* nghttp2_pq_remove: the last entry takes the place of the one removed
Delete(q, key, e) ==
  LET i == CHOOSE k \in DOMAIN q : q[k] = e
      r == Shorter([q EXCEPT ![i] = q[Len(q)]])
  IN IF i = 1 THEN Pop(q, key)
     ELSE IF i = Len(q) THEN Shorter(q)
     ELSE IF Less(key[e], key[r[i]]) THEN BubbleDown(r, key, i) ELSE BubbleUp(r, key, i)

\* nghttp2_pq_update, once the keys of some entries have changed
RECURSIVE Sift(_, _, _)
Sift(q, key, i) == IF i = 0 THEN q ELSE Sift(BubbleDown(q, key, i), key, i - 1)

Update(q, key) == Sift(q, key, Len(q))

-----------------------------------------------------------------------------
(* No entry is smaller than its parent *)
IsHeap(q, key) == \A i \in 2..Len(q) : ~Less(key[q[i]], key[q[i \div 2]])
=============================================================================
