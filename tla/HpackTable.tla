------------------------------ MODULE HpackTable ------------------------------
(***************************************************************************)
(* The table of header fields that HPACK keeps at each end of a connection: *)
(* nghttp2_hd_context.  A context is a record: its entries, newest first,   *)
(* the room they take and may take, the sequence number of the next entry,  *)
(* and, in an encoder, the chains of the hash map over the same entries.    *)
(* The operators below map a context to its next.                           *)
(***************************************************************************)
EXTENDS Integers, Sequences, SequencesExt, FiniteSetsExt

CONSTANTS
  Static,       \* the static table: [name, value] records, equal names side by side
  Overhead,     \* NGHTTP2_HD_ENTRY_OVERHEAD
  SizeOf(_),    \* the length of a name or a value
  Buckets,      \* the buckets of the hash map
  BucketOf(_),  \* the bucket of a name
  Seqs          \* sequence numbers are taken modulo this (2^32 in the code)

ASSUME TableAssumption == Overhead \in Nat /\ Seqs \in Nat \ {0} /\ IsFiniteSet(Buckets)

Room(name, value) == Overhead + SizeOf(name) + SizeOf(value)
Weight(entries) == FoldLeft(LAMBDA w, e : w + Room(e.name, e.value), 0, entries)

NoMap == <<>>
EmptyMap == [b \in Buckets |-> <<>>]

Context(max, map) ==
  [table |-> <<>>, bufsize |-> 0, max |-> max, next |-> 0, map |-> map, bad |-> FALSE]

\* Lower indices are linked near the root of a chain.
MapInsert(map, e) == [b \in DOMAIN map |-> IF b = BucketOf(e.name) THEN <<e>> \o map[b] ELSE map[b]]
\* Mutant: entries that leave the table stay in the map.
MapRemoveNothing(map, gone) == map
MapRemove(map, gone) == [b \in DOMAIN map |-> SelectSeq(map[b], LAMBDA e : e \notin gone)]

\* How many of the entries stay when the oldest make place for a room of need.
Kept(c, need) ==
  LET n == Len(c.table)
      fits == {k \in 0..n : c.bufsize - Weight(SubSeq(c.table, k + 1, n)) + need <= c.max}
  IN IF fits = {} THEN 0 ELSE Max(fits)

Evict(c, need) ==
  LET k == Kept(c, need)
      gone == SubSeq(c.table, k + 1, Len(c.table))
  IN [c EXCEPT !.table = SubSeq(@, 1, k), !.bufsize = @ - Weight(gone),
               !.map = MapRemove(@, ToSet(gone))]

\* Mutant: a smaller maximum leaves the entries in place.
ShrinkLater(c) == c
Shrink(c) == Evict(c, 0)

Add(c, name, value) ==
  LET d == Evict(c, Room(name, value))
      new == [name |-> name, value |-> value, seq |-> d.next]
  IN IF Room(name, value) > c.max
     THEN d
     ELSE [d EXCEPT !.table = <<new>> \o @, !.bufsize = @ + Room(name, value),
                    !.next = (@ + 1) % Seqs, !.map = MapInsert(@, new)]

MaxIndex(c) == Len(c.table) + Len(Static)

\* Indices count from 0 here and from 1 on the wire.
TableGet(c, index) ==
  IF index >= Len(Static) THEN c.table[index - Len(Static) + 1] ELSE Static[index + 1]
=============================================================================
