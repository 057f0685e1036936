------------------------------- MODULE HashMap -------------------------------
(***************************************************************************)
(* nghttp2_map: the streams of a session by their identifiers.  A table of  *)
(* buckets, each the first entry of a chain that goes on through the        *)
(* entries themselves, doubled when it is filled to three quarters.  A      *)
(* session looks for an identifier before it inserts it.                    *)
(***************************************************************************)
EXTENDS Integers, Sequences, FiniteSets, SequencesExt, Bitwise

CONSTANTS
  Keys,           \* identifiers of streams
  InitialLength   \* INITIAL_TABLE_LENGTH, 256

VARIABLES
  map,   \* the table, the number of its buckets and of its entries
  next,  \* nghttp2_map_entry.next of each entry, whether it is in the map or not
  held   \* history: the keys that were inserted and not removed

mapVars == <<map, next, held>>

Null == 0

MapAssumption == Keys \subseteq Nat \ {Null}

Fresh(len) == [i \in 0..(len - 1) |-> Null]
MapInit ==
  /\ map = [table |-> Fresh(InitialLength), len |-> InitialLength, size |-> 0]
  /\ next = [k \in Keys |-> Null] /\ held = {}

\* The bits of the identifier folded into the last ones; the length is a power of two.
Hash(key, len) ==
  LET h == key ^^ (shiftR(key, 20) ^^ shiftR(key, 12))
  IN (h ^^ (shiftR(h, 7) ^^ shiftR(h, 4))) % len

\* The entries of a chain from e on.  One that goes around is cut.
Chain(e, nexts) ==
  LET walk[c \in Keys \cup {Null}, n \in 0..Cardinality(Keys)] ==
        IF c = Null \/ n = 0 THEN <<>> ELSE <<c>> \o walk[nexts[c], n - 1]
  IN walk[e, Cardinality(Keys)]

Bucket(m, nexts, key) == Chain(m.table[Hash(key, m.len)], nexts)
Find(m, nexts, key) == \E i \in DOMAIN Bucket(m, nexts, key) : Bucket(m, nexts, key)[i] = key
\* nghttp2_map_each: the entries in the order it visits them.
Each(m, nexts) == FlattenSeq([i \in 1..m.len |-> Chain(m.table[i - 1], nexts)])

-----------------------------------------------------------------------------
(* An entry goes to the head of its chain; its link is set only when there  *)
(* is one already.                                                          *)

\* Mutant: the chain is lost.
LinkAlone(s, key) == [s EXCEPT !.table[Hash(key, s.len)] = key]
Link(s, key) ==
  LET h == Hash(key, s.len)
  IN [s EXCEPT !.next[key] = IF s.table[h] = Null THEN @ ELSE s.table[h], !.table[h] = key]

\* resize: every entry is taken out of the old table in turn, and put into one of len buckets.
Resized(s, len) ==
  FoldLeft(LAMBDA t, key : Link([t EXCEPT !.next[key] = Null], key),
           [s EXCEPT !.table = Fresh(len), !.len = len], Each(s, s.next))

\* Mutant: the table never grows.
GrownNever(s) == s
Grown(s) == IF (s.size + 1) * 4 > s.len * 3 THEN Resized(s, 2 * s.len) ELSE s

State == [table |-> map.table, len |-> map.len, size |-> map.size, next |-> next]
Becomes(s) == map' = [table |-> s.table, len |-> s.len, size |-> s.size] /\ next' = s.next

\* nghttp2_map_entry_init, of the new stream
\* Mutant: an entry that was in a map before keeps its link.
EntryInitNot(s, key) == s
EntryInit(s, key) == [s EXCEPT !.next[key] = Null]

InsertKey(key) ==
  /\ key \notin held /\ held' = held \cup {key}
  /\ LET s == Link(Grown(EntryInit(State, key)), key) IN Becomes([s EXCEPT !.size = @ + 1])

\* What pointed to the entry points behind it; the entry keeps its own link.
Unlinked(s, key) ==
  LET chain == Bucket(s, s.next, key)
      i     == CHOOSE j \in DOMAIN chain : chain[j] = key
  IN [IF i = 1 THEN [s EXCEPT !.table[Hash(key, s.len)] = s.next[key]]
      ELSE [s EXCEPT !.next[chain[i - 1]] = s.next[key]]
      EXCEPT !.size = @ - 1]

RemoveKey(key) == Find(map, next, key) /\ Becomes(Unlinked(State, key)) /\ held' = held \ {key}

MapNext == \E key \in Keys : InsertKey(key) \/ RemoveKey(key)

-----------------------------------------------------------------------------
\* The map finds what was inserted and not removed, visits each of it once, counts it, and stays
\* filled to three quarters at most, through every doubling of the table and every removal from
\* the middle of a chain (nghttp2_map.c:93-187).
MapKeeps ==
  /\ \A key \in Keys : Find(map, next, key) = (key \in held)
  /\ ToSet(Each(map, next)) = held /\ Len(Each(map, next)) = Cardinality(held)
  /\ map.size = Cardinality(held) /\ 4 * map.size <= 3 * map.len
=============================================================================
