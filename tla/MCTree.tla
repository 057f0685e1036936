-------------------------------- MODULE MCTree --------------------------------
(***************************************************************************)
(* The dependency tree on small instances, and its heap by itself: in the   *)
(* tree a queue is too short for every way an entry may be taken out of it. *)
(***************************************************************************)
EXTENDS TreeShare

VARIABLES
  about,       \* "shape", "cycles" or "heap"
  q, key, in   \* a heap, the keys of its entries, and what should be in it

heap == <<q, key, in>>

\* Links and queues: every way to move a node, and nothing sent
Shape ==
  INSTANCE StreamTree WITH Lengths <- {}, Reasons <- {"user"}, MaxPriorities <- 2, MaxJoins <- 2

\* The scheduling of three streams side by side or in a chain, which stay open
Cycles ==
  INSTANCE TreeShare WITH Deps <- {0, 1}, Exclusive <- {FALSE}, Reasons <- {}, MaxPriorities <- 0

StayOpen == \A s \in StreamIds : t'.state[s] # "closed"

Entries == 1..6
KeyLess(a, b) == a < b
Heap == INSTANCE PriorityQueue WITH Less <- KeyLess

\* A new entry takes the first name that is free: which one makes no difference to the heap
Insert(e) ==
  /\ e \notin in /\ \A f \in Entries \ in : e <= f
  /\ in' = in \cup {e}
  /\ key' \in {[key EXCEPT ![e] = k] : k \in {1, 2}} /\ q' = Heap!Push(q, key', e)
Gone(e) == in' = in \ {e} /\ key' = [key EXCEPT ![e] = 1]
Drop(e) == e \in in /\ q' = Heap!Delete(q, key, e) /\ Gone(e)
Take == in # {} /\ q' = Heap!Pop(q, key) /\ Gone(q[1])
Rekey ==
  /\ key' \in [Entries -> {1, 2}] /\ \A e \in Entries \ in : key'[e] = key[e]
  /\ q' = Heap!Update(q, key') /\ UNCHANGED in

MCInit ==
  /\ Init /\ sent = [s \in StreamIds |-> 0]
  /\ about \in {"shape", "cycles", "heap"}
  /\ q = <<>> /\ in = {} /\ key = [e \in Entries |-> 1]

MCNext ==
  /\ \/ about = "shape" /\ Shape!Next /\ UNCHANGED <<sent, heap>>
     \/ about = "cycles" /\ Cycles!Next /\ Count /\ StayOpen /\ UNCHANGED heap
     \/ /\ about = "heap" /\ UNCHANGED <<vars, sent>>
        /\ Take \/ Rekey \/ \E e \in Entries : Insert(e) \/ Drop(e)
  /\ UNCHANGED about

MCSpec == MCInit /\ [][MCNext]_<<vars, sent, heap, about>>

\* Whatever is inserted, taken, removed from the middle or given another key, no entry is
\* smaller than its parent, so that the first is a least one (nghttp2_pq.c).
HeapOrdered == Heap!IsHeap(q, key) /\ \A i \in DOMAIN q : ~KeyLess(key[q[i]], key[q[1]])

\* No operation of the heap loses an entry or leaves one behind.
NothingLost == {q[i] : i \in DOMAIN q} = in /\ Len(q) = Cardinality(in)

\* The links are those of a tree, with weights that can be divided by and cycles in 32 bits
\* (nghttp2_stream.c:316, 590-860).
TreeKept == TypeOK /\ WellFormed

\* A node is in the queue of the node it depends on exactly while it or one below it has
\* something to send, and the first of a queue is the one that is due, which comparing cycles
\* tells as long as those of one queue are close together (nghttp2_stream.c:34, 45, 139, 177).
DueInOrder == QueuedIffActive /\ FirstIsDue /\ SameScale

\* The heap keeps its entries and their order (nghttp2_pq.c).
HeapKept == HeapOrdered /\ NothingLost
=============================================================================
