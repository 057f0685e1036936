-------------------------------- MODULE Hpack --------------------------------
(***************************************************************************)
(* Header compression between two sessions of the library.  One end         *)
(* compresses header blocks with its deflater, the other decompresses them  *)
(* with its inflater, and nothing but the order of the frames keeps the two *)
(* tables alike.  The inflating end may announce other table sizes in       *)
(* SETTINGS at any time; the deflating end applies them when they arrive,   *)
(* the inflating end when their acknowledgement does.                       *)
(*                                                                         *)
(* A header block is a sequence of representations; the octets they take    *)
(* are the subject of HpackInflater.                                        *)
(***************************************************************************)
EXTENDS HpackTable

CONSTANTS
  TokenOf(_),     \* the token of a name: its first index in the static table, or -1;
                  \* names the library knows otherwise have larger ones
  Unindexed,      \* names the deflater never puts in the table
  DefaultMax,     \* NGHTTP2_HD_DEFAULT_MAX_BUFFER_SIZE
  UInt32Max,
  Uses            \* what the two ends do with it: records of
                  \*   deflateMax     the largest table the deflater is willing to keep
                  \*   lists          the header lists that are sent: sequences of
                  \*                  [name, value, secret]
                  \*   announcements  contents of SETTINGS frames: sequences of table sizes
                  \*   blocks, settings   bounds: header blocks and SETTINGS frames sent

ASSUME SizesAssumption ==
  /\ DefaultMax \in Nat /\ UInt32Max > DefaultMax
  /\ \A u \in Uses :
       /\ u.deflateMax \in Nat /\ u.blocks \in Nat /\ u.settings \in Nat
       /\ \A a \in u.announcements : a # <<>> /\ \A i \in DOMAIN a : a[i] \in 0..UInt32Max

VARIABLES
  use,       \* the member of Uses that this behaviour is of
  enc,       \* the deflater: its context, notify_table_size_change and the least maximum
  dec,       \* the inflater: its context, the announced maximum, the least one and its state
  urgent,    \* acknowledgements the deflating end has queued (ob_urgent)
  toDec,     \* frames to the inflating end: acknowledgements and header blocks
  toEnc,     \* SETTINGS to the deflating end
  inflight,  \* SETTINGS not yet acknowledged
  decoded,   \* the last header list: the one that was sent and the one that came out
  blocks, changes  \* for the bounds

vars == <<use, enc, dec, urgent, toDec, toEnc, inflight, decoded, blocks, changes>>

InitDeflater ==
  [c |-> Context(IF use.deflateMax < DefaultMax THEN use.deflateMax ELSE DefaultMax, EmptyMap),
   notify |-> use.deflateMax < DefaultMax, least |-> UInt32Max]

InitInflater ==
  [c |-> Context(DefaultMax, NoMap), settings |-> DefaultMax, least |-> UInt32Max,
   state |-> "INFLATE_START", out |-> <<>>]

Init ==
  /\ use \in Uses
  /\ enc = InitDeflater /\ dec = InitInflater
  /\ urgent = <<>> /\ toDec = <<>> /\ toEnc = <<>> /\ inflight = <<>>
  /\ decoded = [sent |-> <<>>, got |-> <<>>]
  /\ blocks = 0 /\ changes = 0

-----------------------------------------------------------------------------
(* The deflater.                                                            *)

Least(a, b) == IF a <= b THEN a ELSE b

\* Mutant: only the last of several sizes is announced in the next block.
ChangeEncoderOnly(e, size) ==
  LET next == Least(size, use.deflateMax)
  IN [e EXCEPT !.c = Shrink([@ EXCEPT !.max = next]), !.least = next, !.notify = TRUE]
ChangeEncoder(e, size) ==
  LET next == Least(size, use.deflateMax)
  IN [e EXCEPT !.c = Shrink([@ EXCEPT !.max = next]), !.least = Least(@, next),
               !.notify = TRUE]

SameName(entry, name) ==
  TokenOf(entry.name) = TokenOf(name) /\ (TokenOf(name) = -1 => entry.name = name)

\* The first entry of the chain with the name, or better the first with the value too.
MapFind(map, field, nameOnly) ==
  LET chain == SelectSeq(map[BucketOf(field.name)], LAMBDA e : SameName(e, field.name))
      same == {i \in DOMAIN chain : chain[i].value = field.value}
  IN [entries |-> chain, exact |-> ~nameOnly /\ same # {},
      at |-> IF nameOnly \/ same = {} THEN 1 ELSE Min(same)]

SearchStatic(field, nameOnly) ==
  LET same == {i \in TokenOf(field.name)..Len(Static) - 1 :
                 Static[i + 1].name = field.name /\ Static[i + 1].value = field.value}
  IN IF nameOnly \/ same = {}
     THEN [index |-> TokenOf(field.name), exact |-> FALSE]
     ELSE [index |-> Min(same), exact |-> TRUE]

\* Where an entry is now, from its sequence number.
\* Mutant: sequence numbers do not wrap.
IndexOfAtFirst(c, entry) == c.next - 1 - entry.seq + Len(Static)
IndexOf(c, entry) == ((c.next - 1 - entry.seq) % Seqs) + Len(Static)

SearchTable(c, field, nameOnly) ==
  LET found == MapFind(c.map, field, nameOnly)
  IN IF ~found.exact /\ TokenOf(field.name) \in 0..Len(Static) - 1
     THEN SearchStatic(field, nameOnly)
     ELSE IF found.entries = <<>>
     THEN [index |-> -1, exact |-> FALSE]
     ELSE [index |-> IndexOf(c, found.entries[found.at]), exact |-> found.exact]

Mode(c, field) ==
  IF field.secret THEN "never"
  ELSE IF field.name \in Unindexed \/ Room(field.name, field.value) > (c.max * 3) \div 4
  THEN "without" ELSE "with"

\* Mutant: the index is looked up after the field was added.
DeflateFieldLate(e, field) ==
  LET mode == Mode(e.c, field)
      c1   == IF mode = "with" THEN Add(e.c, field.name, field.value) ELSE e.c
      res  == SearchTable(e.c, field, mode = "never")
      late == SearchTable(c1, field, TRUE)
  IN IF res.exact
     THEN [e EXCEPT !.out = Append(@, [op |-> "indexed", index |-> res.index + 1])]
     ELSE [e EXCEPT !.c = c1,
            !.out = Append(@, IF res.index = -1
                    THEN [op |-> "newname", name |-> field.name, value |-> field.value, mode |-> mode]
                    ELSE [op |-> "indname", index |-> late.index + 1, value |-> field.value,
                          mode |-> mode])]
\* The index is that of the table before the field is added to it.
DeflateField(e, field) ==
  LET mode == Mode(e.c, field)
      res  == SearchTable(e.c, field, mode = "never")
  IN IF res.exact
     THEN [e EXCEPT !.out = Append(@, [op |-> "indexed", index |-> res.index + 1])]
     ELSE [e EXCEPT
            !.c = IF mode = "with" THEN Add(@, field.name, field.value) ELSE @,
            !.out = Append(@, IF res.index = -1
                    THEN [op |-> "newname", name |-> field.name, value |-> field.value, mode |-> mode]
                    ELSE [op |-> "indname", index |-> res.index + 1, value |-> field.value,
                          mode |-> mode])]

SizeUpdates(e) ==
  IF ~e.notify THEN <<>>
  ELSE (IF e.c.max > e.least THEN <<[op |-> "size", size |-> e.least]>> ELSE <<>>)
       \o <<[op |-> "size", size |-> e.c.max]>>

\* The deflater after a block and the block itself.
Deflate(e, fields) ==
  LET r == FoldLeft(DeflateField, [c |-> e.c, out |-> SizeUpdates(e)], fields)
  IN [enc |-> [c |-> r.c, notify |-> FALSE, least |-> UInt32Max], block |-> r.out]

-----------------------------------------------------------------------------
(* The inflater.                                                            *)

Fail(d) == [d EXCEPT !.c.bad = TRUE]

ChangeDecoder(d, size) ==
  LET smaller == d.c.max > size
  IN IF d.state \notin {"EXPECT_TABLE_SIZE", "INFLATE_START"} THEN Fail(d)
     ELSE [d EXCEPT !.state = IF smaller THEN "EXPECT_TABLE_SIZE" ELSE @,
                    !.least = IF smaller THEN size ELSE @,
                    !.settings = size,
                    !.c = Shrink([@ EXCEPT !.max = size])]

InflateSize(d, rep) ==
  IF d.state = "OPCODE" \/ rep.size > Least(d.least, d.settings) THEN Fail(d)
  ELSE [d EXCEPT !.state = "INFLATE_START", !.least = UInt32Max,
                 !.c = Shrink([@ EXCEPT !.max = rep.size])]

\* The referenced entry is read before the new one is added, which may evict it.
\* Mutant: every literal enters the table.
InflateFieldAlways(d, rep) ==
  LET known == TableGet(d.c, rep.index - 1)
      name  == IF rep.op = "newname" THEN rep.name ELSE known.name
      value == IF rep.op = "indexed" THEN known.value ELSE rep.value
  IN IF \/ d.state = "EXPECT_TABLE_SIZE"
        \/ rep.op # "newname" /\ rep.index \notin 1..MaxIndex(d.c)
     THEN Fail(d)
     ELSE [d EXCEPT !.state = "OPCODE",
                    !.c = IF rep.op # "indexed" THEN Add(@, name, value) ELSE @,
                    !.out = Append(@, [name |-> name, value |-> value, secret |-> FALSE])]
InflateField(d, rep) ==
  LET known == TableGet(d.c, rep.index - 1)
      name  == IF rep.op = "newname" THEN rep.name ELSE known.name
      value == IF rep.op = "indexed" THEN known.value ELSE rep.value
      mode  == IF rep.op = "indexed" THEN "without" ELSE rep.mode
  IN IF \/ d.state = "EXPECT_TABLE_SIZE"
        \/ rep.op # "newname" /\ rep.index \notin 1..MaxIndex(d.c)
     THEN Fail(d)
     ELSE [d EXCEPT !.state = "OPCODE",
                    !.c = IF mode = "with" THEN Add(@, name, value) ELSE @,
                    !.out = Append(@, [name |-> name, value |-> value, secret |-> mode = "never"])]

Inflate(d, rep) ==
  IF d.c.bad THEN d ELSE IF rep.op = "size" THEN InflateSize(d, rep) ELSE InflateField(d, rep)

InflateBlock(d, block) ==
  LET r == FoldLeft(Inflate, [d EXCEPT !.out = <<>>], block)
  IN IF r.c.bad \/ r.state = "EXPECT_TABLE_SIZE"
     THEN Fail(r) ELSE [r EXCEPT !.state = "INFLATE_START"]

-----------------------------------------------------------------------------
(* The two sessions.                                                        *)

\* Of the table sizes of a SETTINGS frame both ends apply the least and the last.
LeastAndLast(sizes) ==
  LET least == Min(ToSet(sizes))
  IN IF least < Last(sizes) THEN <<least, Last(sizes)>> ELSE <<Last(sizes)>>

SubmitSettings(sizes) ==
  /\ changes < use.settings /\ changes' = changes + 1
  /\ inflight' = Append(inflight, sizes) /\ toEnc' = Append(toEnc, sizes)
  /\ UNCHANGED <<use, enc, dec, urgent, toDec, decoded, blocks>>

\* Applied when they arrive; the acknowledgement is queued before anything else can be.
OnSettings ==
  /\ toEnc # <<>> /\ toEnc' = Tail(toEnc)
  /\ enc' = FoldLeft(ChangeEncoder, enc, LeastAndLast(Head(toEnc)))
  /\ urgent' = Append(urgent, [op |-> "ack"])
  /\ UNCHANGED <<use, dec, toDec, inflight, decoded, blocks, changes>>

SendAck ==
  /\ urgent # <<>> /\ urgent' = Tail(urgent)
  /\ toDec' = Append(toDec, Head(urgent))
  /\ UNCHANGED <<use, enc, dec, toEnc, inflight, decoded, blocks, changes>>

OnAck ==
  /\ toDec # <<>> /\ Head(toDec).op = "ack" /\ toDec' = Tail(toDec) /\ ~dec.c.bad
  /\ dec' = FoldLeft(ChangeDecoder, dec, LeastAndLast(Head(inflight)))
  /\ inflight' = Tail(inflight)
  /\ UNCHANGED <<use, enc, urgent, toEnc, decoded, blocks, changes>>

\* Header blocks are compressed as they are sent, and sent when nothing urgent waits.
\* Mutant: an acknowledgement does not overtake them.
NothingUrgentIgnored == TRUE
NothingUrgent == urgent = <<>>

\* Mutant: a deflater that failed goes on.
UsableAnyway == TRUE
Usable == ~enc.c.bad

SendBlock(fields) ==
  /\ blocks < use.blocks /\ blocks' = blocks + 1
  /\ NothingUrgent /\ Usable
  /\ LET r == Deflate(enc, fields)
     IN /\ enc' = r.enc
        /\ toDec' = Append(toDec, [op |-> "block", block |-> r.block, fields |-> fields])
  /\ UNCHANGED <<use, dec, urgent, toEnc, inflight, decoded, changes>>

\* Memory runs out after some of the fields: they are in the table and not on the wire.
BlockFails(fields) ==
  /\ blocks < use.blocks /\ blocks' = blocks + 1
  /\ NothingUrgent /\ Usable
  /\ \E k \in DOMAIN fields :
       enc' = [Deflate(enc, SubSeq(fields, 1, k)).enc EXCEPT !.c.bad = TRUE]
  /\ UNCHANGED <<use, dec, urgent, toDec, toEnc, inflight, decoded, changes>>

OnBlock ==
  /\ toDec # <<>> /\ Head(toDec).op = "block" /\ toDec' = Tail(toDec) /\ ~dec.c.bad
  /\ dec' = InflateBlock(dec, Head(toDec).block)
  /\ decoded' = [sent |-> Head(toDec).fields, got |-> dec'.out]
  /\ UNCHANGED <<use, enc, urgent, toEnc, inflight, blocks, changes>>

Next ==
  \/ \E sizes \in use.announcements : SubmitSettings(sizes)
  \/ \E fields \in use.lists : SendBlock(fields) \/ BlockFails(fields)
  \/ OnSettings \/ SendAck \/ OnAck \/ OnBlock

Spec == Init /\ [][Next]_vars
-----------------------------------------------------------------------------
(* Properties.                                                              *)

Modes == {"with", "without", "never"}

\* Every context, queue and frame has its type; an index on the wire counts from 1.
TypeOK ==
  /\ \A c \in {enc.c, dec.c} : c.next \in 0..Seqs - 1 /\ c.bufsize \in Nat /\ c.bad \in BOOLEAN
  /\ enc.notify \in BOOLEAN /\ enc.least \in 0..UInt32Max
  /\ dec.state \in {"EXPECT_TABLE_SIZE", "INFLATE_START", "OPCODE"}
  /\ \A i \in DOMAIN toDec : toDec[i].op = "block" =>
       \A j \in DOMAIN toDec[i].block :
         LET rep == toDec[i].block[j]
         IN CASE rep.op = "size" -> rep.size \in 0..UInt32Max
              [] rep.op = "indexed" -> rep.index \in Nat \ {0}
              [] rep.op = "indname" -> rep.index \in Nat \ {0} /\ rep.mode \in Modes
              [] rep.op = "newname" -> rep.mode \in Modes

\* Two ends that run this code never lose the connection to a compression error: the
\* deflater announces every reduction of its table in time, nothing but the head of a
\* block, and no block overtakes the acknowledgement it depends on.
NeverFails == ~dec.c.bad

\* What comes out of a header block is what went in, with the mark of a field that no
\* intermediary may index; also after sizes changed and after the deflater failed.
FieldsIntact == decoded.got = decoded.sent

\* When no header block is on its way, the deflater's table is the newer part of the
\* inflater's: each of its indices means the same entry at both ends.
EncoderSubsumed ==
  LET plain(c) == [i \in DOMAIN c.table |-> [name |-> c.table[i].name, value |-> c.table[i].value]]
  IN (~enc.c.bad /\ \A i \in DOMAIN toDec : toDec[i].op = "ack")
       => IsPrefix(plain(enc.c), plain(dec.c))

\* The hash map holds exactly the entries of the table, the newest of a bucket first, and
\* the sequence number of each leads back to its place.
EntriesFound ==
  /\ \A b \in Buckets :
       enc.c.map[b] = SelectSeq(enc.c.table, LAMBDA e : BucketOf(e.name) = b)
  /\ \A i \in DOMAIN enc.c.table : IndexOf(enc.c, enc.c.table[i]) = i - 1 + Len(Static)

\* Each end's table takes the room it says it does, within its maximum, and the maximum
\* is within what the inflating end announced and the deflating end is willing to keep.
RoomBounded ==
  /\ \A c \in {enc.c, dec.c} : c.bufsize = Weight(c.table) /\ c.bufsize <= c.max
  /\ enc.c.max <= use.deflateMax /\ dec.c.max <= dec.settings
=============================================================================
