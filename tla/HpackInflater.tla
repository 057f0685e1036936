---------------------------- MODULE HpackInflater ----------------------------
(***************************************************************************)
(* nghttp2_hd_inflate_hd_nv: a header block, octet by octet.  The block     *)
(* arrives in pieces that end anywhere, in the middle of an integer or of a *)
(* string too, and each state of the inflater has to go on where it         *)
(* stopped.  There is one action per state of its loop.                     *)
(*                                                                         *)
(* What a whole block means, by RFC 7541, is defined after the inflater and *)
(* without its states.                                                      *)
(***************************************************************************)
EXTENDS HpackTable, HuffmanCode

CONSTANTS
  WordBits,    \* integers have this many bits (32 in the code)
  MaxNV,       \* NGHTTP2_HD_MAX_NV
  Blocks,      \* blocks by their representations, which the encoder writes
  OtherBlocks, \* blocks that are octets of the peer's own making
  Inflaters    \* the states a header block may find the inflater in

InflaterAssumption == WordBits \in Nat \ {0} /\ MaxNV \in Nat

VARIABLES
  reps,     \* the representations that were encoded, or those of no block
  octets,   \* the block
  wire,     \* what of it has yet to arrive
  in,       \* what is left of the current piece
  final,    \* the current piece is the last one
  calling,  \* "no", "yes", or "end" when the block is over
  busy,     \* the loop goes on without input
  d,        \* the inflater
  first,    \* the inflater before the block
  out       \* the fields it has emitted

vars == <<reps, octets, wire, in, final, calling, busy, d, first, out>>

Drop(s, n) == SubSeq(s, n + 1, Len(s))
NoReps == <<[op |-> "none"]>>

-----------------------------------------------------------------------------
(* What the deflater writes.                                                *)

\* An integer in the last bits of an octet that begins with first, and more octets if it
\* does not fit: seven bits in each, the least significant first.
EncodeLength(head, n, prefix) ==
  LET k    == 2^prefix - 1
      rest == n - k
      more == CHOOSE m \in 1..8 : rest < 128^m /\ \A l \in 1..(m - 1) : rest >= 128^l
  IN IF n < k THEN <<head + n>>
     ELSE <<head + k>> \o [i \in 1..more |->
            ((rest \div 128^(i - 1)) % 128) + (IF i < more THEN 128 ELSE 0)]

\* The shorter of the string and its Huffman code.
EmitString(string) ==
  IF EncodeCount(string) < Len(string)
  THEN EncodeLength(128, EncodeCount(string), 7) \o Encoded(string)
  ELSE EncodeLength(0, Len(string), 7) \o string

PackFirstByte(mode) == CASE mode = "with" -> 64 [] mode = "without" -> 0 [] mode = "never" -> 16

Emit(rep) ==
  CASE rep.op = "size"    -> EncodeLength(32, rep.size, 5)
    [] rep.op = "indexed" -> EncodeLength(128, rep.index, 7)
    [] rep.op = "indname" -> EncodeLength(PackFirstByte(rep.mode), rep.index,
                                          IF rep.mode = "with" THEN 6 ELSE 4) \o EmitString(rep.value)
    [] rep.op = "newname" -> <<PackFirstByte(rep.mode)>> \o EmitString(rep.name) \o EmitString(rep.value)

Init ==
  /\ \/ reps \in Blocks /\ octets = FlattenSeq([i \in DOMAIN reps |-> Emit(reps[i])])
     \/ reps = NoReps /\ octets \in OtherBlocks
  /\ d \in Inflaters /\ first = d
  /\ wire = octets /\ in = <<>> /\ final = FALSE /\ calling = "no" /\ busy = FALSE /\ out = <<>>

-----------------------------------------------------------------------------
(* Integers.                                                                *)

WordMax == 2^WordBits - 1

\* The octets after the first one, from number n and shift on.
\* Mutant: an integer that does not fit is cut off.
GroupsUnchecked(n, shift, s) ==
  FoldLeft(LAMBDA r, octet :
    IF r.fin THEN r
    ELSE LET add == octet % 128
         IN [r EXCEPT !.n = (@ + add * 2^r.shift) % (WordMax + 1), !.used = @ + 1, !.fin = octet < 128,
                      !.shift = IF octet < 128 \/ @ >= WordBits THEN @ ELSE @ + 7],
    [ok |-> TRUE, n |-> n, shift |-> shift, fin |-> FALSE, used |-> 0], s)
Groups(n, shift, s) ==
  FoldLeft(LAMBDA r, octet :
    IF r.fin \/ ~r.ok THEN r
    ELSE LET add == octet % 128
         IN IF \/ r.shift >= WordBits
               \/ WordMax \div 2^r.shift < add
               \/ WordMax - add * 2^r.shift < r.n
            THEN [r EXCEPT !.ok = FALSE]
            ELSE [r EXCEPT !.n = @ + add * 2^r.shift, !.used = @ + 1, !.fin = octet < 128,
                           !.shift = IF octet < 128 THEN @ ELSE @ + 7],
    [ok |-> TRUE, n |-> n, shift |-> shift, fin |-> FALSE, used |-> 0], s)

\* decode_length: begins with the prefix, or goes on with the octets after it when there is
\* a number already.
DecodeLength(n, shift, s, prefix) ==
  LET k == 2^prefix - 1
      low == s[1] % 2^prefix
      rest == Groups(k, shift, Tail(s))
  IN IF n # 0 THEN Groups(n, shift, s)
     ELSE IF low # k THEN [ok |-> TRUE, n |-> low, shift |-> 0, fin |-> TRUE, used |-> 1]
     ELSE [rest EXCEPT !.used = @ + 1]

-----------------------------------------------------------------------------
(* The loop.                                                                *)

Fresh(e) == [e EXCEPT !.left = 0, !.shift = 0]

\* Any error is the end of header decompression on this connection.
Fails ==
  /\ d' = [d EXCEPT !.c.bad = TRUE] /\ calling' = "end"
  /\ UNCHANGED <<reps, octets, wire, in, final, busy, first, out>>

\* The next turn of the loop, with n octets of the piece read.
Turn(e, n) ==
  /\ d' = e /\ in' = Drop(in, n) /\ busy' = FALSE
  /\ UNCHANGED <<reps, octets, wire, final, calling, first, out>>

\* The same, and a field goes to the caller, which calls again.
TurnEmit(e, field, n) ==
  /\ d' = [e EXCEPT !.state = "OPCODE"] /\ out' = Append(out, field)
  /\ in' = Drop(in, n) /\ busy' = FALSE
  /\ UNCHANGED <<reps, octets, wire, final, calling, first>>

InState(states) == calling = "yes" /\ (in # <<>> \/ busy) /\ d.state \in states

\* A piece of the block, perhaps empty, or an empty one after all of it.
Call ==
  /\ calling = "no" /\ calling' = "yes"
  /\ \E n \in 0..Len(wire) :
       /\ in' = SubSeq(wire, 1, n) /\ wire' = Drop(wire, n)
       /\ final' \in (IF n = Len(wire) THEN BOOLEAN ELSE {FALSE})
       /\ n > 0 \/ final'
  /\ UNCHANGED <<reps, octets, busy, d, first, out>>

ReadOpcode ==
  /\ InState({"EXPECT_TABLE_SIZE", "INFLATE_START", "OPCODE"})
  /\ LET o == Head(in)
         literal(op) == [Fresh(d) EXCEPT !.opcode = op, !.index_required = (o \div 64) % 2 = 1,
                                         !.no_index = o \div 16 = 1]
     IN IF o \div 32 = 1
        THEN IF d.state = "OPCODE" THEN Fails
             ELSE Turn([Fresh(d) EXCEPT !.state = "READ_TABLE_SIZE", !.opcode = "INDEXED"], 0)
        ELSE IF d.state = "EXPECT_TABLE_SIZE" THEN Fails
        ELSE IF o >= 128
        THEN Turn([Fresh(d) EXCEPT !.state = "READ_INDEX", !.opcode = "INDEXED"], 0)
        ELSE IF o \in {64, 0, 16}
        THEN Turn([literal("NEWNAME") EXCEPT !.state = "NEWNAME_CHECK_NAMELEN"], 1)
        ELSE Turn([literal("INDNAME") EXCEPT !.state = "READ_INDEX"], 0)

Least(a, b) == IF a <= b THEN a ELSE b

\* Mutant: a length that is not complete is begun again.
ReadLenAgain(e, prefix) ==
  DecodeLength(0, 0, in, prefix)
ReadLen(e, prefix) == DecodeLength(e.left, e.shift, in, prefix)

\* The inflater with what has been read of a number.
Counted(e, r) == [e EXCEPT !.left = r.n, !.shift = r.shift]

SizeRead(r) ==
  IF ~r.ok \/ r.n > Least(d.least, d.settings) THEN Fails
  ELSE IF ~r.fin THEN Turn(Counted(d, r), r.used)
  ELSE Turn([Counted(d, r) EXCEPT !.state = "INFLATE_START", !.least = WordMax,
                                  !.c = Shrink([@ EXCEPT !.max = r.n])], r.used)

ReadTableSize == InState({"READ_TABLE_SIZE"}) /\ SizeRead(ReadLen(d, 5))

IndexRead(r) ==
  IF ~r.ok \/ r.n > MaxIndex(d.c) \/ (r.fin /\ r.n = 0) THEN Fails
  ELSE IF ~r.fin THEN Turn(Counted(d, r), r.used)
  ELSE IF d.opcode = "INDEXED"
  THEN TurnEmit(Counted(d, r), [name   |-> TableGet(d.c, r.n - 1).name,
                                value  |-> TableGet(d.c, r.n - 1).value, secret |-> FALSE], r.used)
  ELSE Turn([Counted(d, r) EXCEPT !.index = r.n - 1, !.state = "CHECK_VALUELEN"], r.used)

ReadIndex ==
  InState({"READ_INDEX"})
    /\ IndexRead(ReadLen(d, IF d.opcode = "INDEXED" THEN 7 ELSE IF d.index_required THEN 6 ELSE 4))

\* An empty buffer for a string of the length that was read: a Huffman string may double.
\* Mutant: Huffman strings get as much room as others.
WrapSingle(e) == [e EXCEPT !.buf = <<>>, !.room = e.left + 1, !.huff = DecodeInit]
Wrap(e) ==
  [e EXCEPT !.buf = <<>>, !.room = (IF e.huffman THEN e.left * 2 ELSE e.left) + 1, !.huff = DecodeInit]

LengthRead(e, r, next, mustTurn) ==
  IF ~r.ok \/ r.n > MaxNV THEN Fails
  ELSE /\ d' = IF r.fin THEN Wrap([Counted(e, r) EXCEPT !.state = next]) ELSE Counted(e, r)
       /\ in' = Drop(in, r.used) /\ busy' = (r.fin /\ mustTurn)
       /\ UNCHANGED <<reps, octets, wire, final, calling, first, out>>

\* The length of a string; its first octet tells whether it is a Huffman string.
ReadStringLength(check, state, next, mustTurn) ==
  /\ InState({check, state})
  /\ LET e == IF d.state = check
              THEN [Fresh(d) EXCEPT !.state = state, !.huffman = Head(in) >= 128] ELSE d
     IN LengthRead(e, ReadLen(e, 7), next, mustTurn)

\* Mutant: an empty value waits for the next octet.
EmptyValueTurnsNot == FALSE
EmptyValueTurns == TRUE

ReadNameLength == ReadStringLength("NEWNAME_CHECK_NAMELEN", "NEWNAME_READ_NAMELEN", "NEWNAME_READ_NAME", FALSE)
ReadValueLength == ReadStringLength("CHECK_VALUELEN", "READ_VALUELEN", "READ_VALUE", EmptyValueTurns)

\* hd_inflate_read and hd_inflate_read_huff: what there is of a string.
PlainRead(n) ==
  [ok |-> TRUE, used |-> n, e |-> [d EXCEPT !.left = @ - n, !.buf = @ \o SubSeq(in, 1, n)]]
HuffRead(n, h) ==
  [ok |-> ~h.fail, used |-> n,
   e |-> [d EXCEPT !.left = @ - n, !.huff = [h EXCEPT !.out = <<>>], !.buf = @ \o h.out]]
StringRead ==
  LET n == Least(Len(in), d.left)
  IN IF d.huffman THEN HuffRead(n, Decode(d.huff, SubSeq(in, 1, n), n = d.left)) ELSE PlainRead(n)

NameRead(r) ==
  IF ~r.ok THEN Fails
  ELSE IF r.e.left > 0 THEN Turn(r.e, r.used)
  ELSE Turn([r.e EXCEPT !.state = "CHECK_VALUELEN", !.name = r.e.buf], r.used)

ReadName == InState({"NEWNAME_READ_NAME"}) /\ NameRead(StringRead)

\* The field is complete; the name of an entry is taken before the entry may be evicted.
\* Mutant: the table is changed first.
CommitLate(e) ==
  LET c == IF e.index_required
           THEN Add(e.c, IF e.opcode = "NEWNAME" THEN e.name ELSE TableGet(e.c, e.index).name, e.buf)
           ELSE e.c
      name == IF e.opcode = "NEWNAME" THEN e.name
              ELSE IF e.index < MaxIndex(c) THEN TableGet(c, e.index).name ELSE <<>>
  IN [e |-> [e EXCEPT !.c = c], field |-> [name |-> name, value |-> e.buf, secret |-> e.no_index]]
Commit(e) ==
  LET name == IF e.opcode = "NEWNAME" THEN e.name ELSE TableGet(e.c, e.index).name
  IN [e |-> [e EXCEPT !.c = IF e.index_required THEN Add(@, name, e.buf) ELSE @],
      field |-> [name |-> name, value |-> e.buf, secret |-> e.no_index]]

FieldRead(c, used) == TurnEmit(c.e, c.field, used)

ValueRead(r) ==
  IF ~r.ok THEN Fails
  ELSE IF r.e.left > 0 THEN Turn(r.e, r.used)
  ELSE FieldRead(Commit(r.e), r.used)

ReadValue == InState({"READ_VALUE"}) /\ ValueRead(StringRead)

\* The piece is used up.  After the last one the block must be between two representations.
MayEnd(e) == e.state \in {"OPCODE", "INFLATE_START"}

Return ==
  /\ calling = "yes" /\ in = <<>> /\ ~busy
  /\ IF final /\ ~MayEnd(d) THEN Fails
     ELSE /\ d' = IF final THEN [d EXCEPT !.state = "INFLATE_START"] ELSE d
          /\ calling' = IF final THEN "end" ELSE "no"
          /\ UNCHANGED <<reps, octets, wire, in, final, busy, first, out>>

Next ==
  \/ Call \/ ReadOpcode \/ ReadTableSize \/ ReadIndex \/ ReadNameLength \/ ReadName
  \/ ReadValueLength \/ ReadValue \/ Return

Spec == Init /\ [][Next]_vars

-----------------------------------------------------------------------------
(* What a block means: RFC 7541, for all of its octets at once.             *)

Bad == [ok |-> FALSE]

\* 5.1: the number at octet p, and where it ends.  Numbers that do not fit, and zeros that
\* would go on beyond any number that does, are errors.
NumberOf(n, next) == IF n > WordMax THEN Bad ELSE [ok |-> TRUE, n |-> n, next |-> next]
LongAt(s, p, k, ends) ==
  LET more == Min(ends) - p
  IN IF ends = {} THEN Bad
     ELSE IF 7 * (more - 1) >= WordBits THEN Bad
     ELSE NumberOf(FoldLeft(LAMBDA v, i : v + (s[p + i] % 128) * 128^(i - 1), k, [i \in 1..more |-> i]),
                   p + more + 1)
IntegerAt(s, p, prefix) ==
  LET k == 2^prefix - 1
  IN IF p > Len(s) THEN Bad
     ELSE IF s[p] % 2^prefix # k THEN [ok |-> TRUE, n |-> s[p] % 2^prefix, next |-> p + 1]
     ELSE LongAt(s, p, k, {q \in p + 1..Len(s) : s[q] < 128})

\* 5.2: the string at octet p.
PlainOf(decoded, next) ==
  IF decoded.fail THEN Bad ELSE [ok |-> TRUE, string |-> decoded.out, next |-> next]
StringOf(raw, huffman, next) ==
  IF huffman THEN PlainOf(Decode(DecodeInit, raw, TRUE), next)
  ELSE [ok |-> TRUE, string |-> raw, next |-> next]
StringBehind(s, huffman, length) ==
  IF ~length.ok THEN Bad
  ELSE IF length.n > MaxNV \/ length.next + length.n - 1 > Len(s) THEN Bad
  ELSE StringOf(SubSeq(s, length.next, length.next + length.n - 1), huffman, length.next + length.n)
StringAt(s, p) == IF p > Len(s) THEN Bad ELSE StringBehind(s, s[p] >= 128, IntegerAt(s, p, 7))

\* 6.1 and 6.2: the field at octet p, with the table as it is, and how it is to be indexed.
FieldOf(o, c, name, value) ==
  IF ~value.ok THEN Bad
  ELSE [ok |-> TRUE, next |-> value.next,
        field |-> [name |-> name, value |-> value.string, secret |-> o \in 16..31],
        c |-> IF o \in 64..127 THEN Add(c, name, value.string) ELSE c]
Literal(s, o, c, name) ==
  IF ~name.ok THEN Bad ELSE FieldOf(o, c, name.string, StringAt(s, name.next))
FieldBehind(s, p, c, index) ==
  LET known == TableGet(c, index.n - 1)
  IN IF ~index.ok THEN Bad
     ELSE IF index.n > MaxIndex(c) \/ (s[p] >= 128 /\ index.n = 0) THEN Bad
     ELSE IF s[p] >= 128
     THEN FieldOf(s[p], c, known.name, [ok |-> TRUE, string |-> known.value, next |-> index.next])
     ELSE Literal(s, s[p], c, IF index.n = 0 THEN StringAt(s, p + 1)
                              ELSE [ok |-> TRUE, string |-> known.name, next |-> index.next])
FieldAt(s, p, c) ==
  FieldBehind(s, p, c, IntegerAt(s, p, IF s[p] >= 128 THEN 7 ELSE IF s[p] >= 64 THEN 6 ELSE 4))

\* A block.  The table may be resized before the first field, within the limits, and has to be
\* when a smaller one was announced.
Over(r) == [r EXCEPT !.done = TRUE]
SizeMeant(r, size, settings) ==
  IF r.out # <<>> \/ ~size.ok THEN Over(r)
  ELSE IF size.n > Least(r.least, settings) THEN Over(r)
  ELSE [r EXCEPT !.p = size.next, !.must = FALSE, !.least = WordMax, !.c = Shrink([@ EXCEPT !.max = size.n])]
FieldMeant(r, f) ==
  IF r.must \/ ~f.ok THEN Over(r)
  ELSE [r EXCEPT !.p = f.next, !.c = f.c, !.out = Append(@, f.field)]
MeaningOf(s) ==
  LET Step(r, i) ==
        IF r.done THEN r
        ELSE IF r.p > Len(s) THEN [Over(r) EXCEPT !.ok = ~r.must]
        ELSE IF s[r.p] \in 32..63 THEN SizeMeant(r, IntegerAt(s, r.p, 5), first.settings)
        ELSE FieldMeant(r, FieldAt(s, r.p, r.c))
  IN FoldLeft(Step, [p |-> 1, c |-> first.c, out |-> <<>>, must |-> first.state = "EXPECT_TABLE_SIZE",
                     least |-> first.least, ok |-> FALSE, done |-> FALSE], [i \in 1..(Len(s) + 1) |-> i])

-----------------------------------------------------------------------------
(* Properties.                                                              *)

\* Strings stay in the buffers that were made for their length, Huffman strings too, with
\* room for the zero that ends them; an unfinished string is no longer than announced.
TypeOK ==
  /\ calling \in {"no", "yes", "end"} /\ busy \in BOOLEAN /\ final \in BOOLEAN
  /\ d.left \in 0..WordMax /\ Len(d.buf) < d.room
  /\ d.c.bufsize = Weight(d.c.table) /\ d.c.bufsize <= d.c.max

\* Wherever the pieces of a block end, it decodes to the fields and leaves the table that
\* the block means as a whole, or fails if it means nothing.
Decoded(meaning) ==
  /\ d.c.bad = ~meaning.ok /\ out = meaning.out
  /\ ~d.c.bad => d.c.table = meaning.c.table /\ d.c.max = meaning.c.max
PiecesDoNotMatter == calling = "end" => Decoded(MeaningOf(octets))

\* A field is emitted as soon as its last octet is there: between two calls the fields of
\* all representations that have arrived in full are out.
NothingHeldBack ==
  calling = "no" /\ octets # wire => out = MeaningOf(SubSeq(octets, 1, Len(octets) - Len(wire))).out

\* The octets the deflater writes for a representation are read as that representation.
EncodedAsMeant ==
  LET Field(rep) == [name  |-> IF rep.op = "newname" THEN rep.name ELSE TableGet(first.c, rep.index - 1).name,
                     value |-> IF rep.op = "indexed" THEN TableGet(first.c, rep.index - 1).value ELSE rep.value,
                     secret |-> rep.op # "indexed" /\ rep.mode = "never"]
  IN calling = "end" /\ reps # NoReps /\ Len(reps) = 1 /\ reps[1].op # "size"
       /\ first.state = "INFLATE_START"
     => ~d.c.bad /\ out = <<Field(reps[1])>>
=============================================================================
