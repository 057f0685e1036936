------------------------------- MODULE Huffman -------------------------------
(***************************************************************************)
(* nghttp2_hd_huffman.c.  A string is encoded symbol by symbol into the     *)
(* chunks of a header block, a code starting and ending anywhere in an      *)
(* octet and an octet in any chunk; what comes out, or any other sequence   *)
(* of octets, is decoded in pieces.                                         *)
(***************************************************************************)
EXTENDS HuffmanCode, Bufs

CONSTANTS
  Strings,     \* strings that are encoded
  Inputs,      \* octets of the peer's own making that are decoded
  ChunkSizes,  \* what a chunk may hold
  Before,      \* how many octets are in the chunk already
  MaxChunks    \* max_chunk of the buffers

HuffmanAssumption ==
  /\ ChunkSizes \subseteq Nat \ {0} /\ Before \subseteq Nat /\ MaxChunks \in Nat \ {0}
  /\ \A s \in Strings : \A i \in DOMAIN s : s[i] \in Symbols

VARIABLES
  phase,    \* "encode", "decode" or "done"
  string,   \* the string that is encoded, or NoString when the octets are the peer's
  at,       \* how many of its symbols have been
  bufs,     \* where the code goes
  avail,    \* the encoder's own count of the room in the current chunk
  rembits,  \* bits of the current octet that are not filled
  start,    \* the octets in the buffers before the string
  octets,   \* what is left to decode
  input,    \* all that is decoded
  d         \* the decoder

vars == <<phase, string, at, bufs, avail, rembits, start, octets, input, d>>

NoString == <<-1>>

Init ==
  /\ at = 0 /\ rembits = 8 /\ d = DecodeInit
  /\ \E size \in ChunkSizes, n \in Before :
       /\ start = n
       /\ bufs = BufsAdd(NewBufs(size, 0, MaxChunks, 1), [i \in 1..n |-> 0])
       /\ avail = Avail(bufs)
  /\ \/ phase = "encode" /\ string \in Strings /\ octets = <<>> /\ input = <<>>
     \/ phase = "decode" /\ string = NoString /\ octets \in Inputs /\ input = octets

-----------------------------------------------------------------------------
(* A code in a 32-bit word, its last bits those of the code; ByteAt is the  *)
(* octet of the word that is left after a shift to the right.               *)

Word(s) == Repeat(0, 32 - Len(CodeBits[s])) \o CodeBits[s]
ByteAt(word, shift) == ValueOf(SubSeq(Repeat(0, 8) \o word, 33 - shift, 40 - shift))
ShiftLeft(word, n) == SubSeq(word, n + 1, 32) \o Repeat(0, n)

\* Mutant: the code is not moved to the start of an octet.
AlignedNot(word, nbits) == word
Aligned(word, nbits) == IF nbits % 8 = 0 THEN word ELSE ShiftLeft(word, 8 - (nbits % 8))

\* Whole octets of what is left of a code, the first of them the most significant.
WholeOctets(nbits) == IF nbits % 8 = 0 THEN nbits \div 8 ELSE (nbits \div 8) + 1

\* Mutant: room for the octets that are filled is enough for the fast path.
IsSlowFilled(room, nbits) == room < nbits \div 8
IsSlow(room, nbits) == room < WholeOctets(nbits)

\* The octets of a code after the one it began in; the last one is held if not full.
\* The slow path makes sure of room for each, the fast one has looked before.
Spread(b, word, nbits, slow) ==
  LET n         == WholeOctets(nbits)
      full      == IF nbits % 8 = 0 THEN n ELSE n - 1
      Put(e, i) == IF slow THEN Addb(e, ByteAt(word, 8 * (n - i)))
                   ELSE FastAddb(e, ByteAt(word, 8 * (n - i)))
      c         == FoldLeft(Put, b, [i \in 1..full |-> i])
  IN IF full = n THEN c
     ELSE IF slow THEN AddbHold(c, ByteAt(word, 0)) ELSE FastAddbHold(c, ByteAt(word, 0))

\* Bits of the current octet that are left to fill after a code of nbits that began in it.
Unfilled(nbits) == 8 - (nbits % 8)

\* huff_encode_sym: the buffers and the two counts after the symbol.
EncodeSym(b, room, rem, s) ==
  LET n    == Len(CodeBits[s])
      left == n - rem
      head == FastOrb(b, ByteAt(Word(s), left))
      word == Aligned(Word(s), left)
      tail == Spread(head, word, left, IsSlow(room - 1, left))
  IN IF rem > n
     THEN [bufs |-> FastOrbHold(b, ByteAt(ShiftLeft(Word(s), rem - n), 0)), avail |-> room,
           rem |-> rem - n]
     ELSE IF rem = n
     THEN [bufs |-> FastOrb(b, ByteAt(Word(s), 0)), avail |-> room - 1, rem |-> 8]
     ELSE [bufs |-> tail, avail |-> Avail(tail), rem |-> Unfilled(left)]

\* Before a code that begins with an octet, that octet is cleared.
\* Mutant: only where a chunk begins.
FreshOctetStale(b, room) ==
  LET c == IF room > 0 THEN b ELSE AddbHold(b, 0)
  IN [bufs |-> c, avail |-> IF room > 0 THEN room ELSE Avail(c)]
FreshOctet(b, room) ==
  LET c == IF room > 0 THEN FastAddbHold(b, 0) ELSE AddbHold(b, 0)
  IN [bufs |-> c, avail |-> IF room > 0 THEN room ELSE Avail(c)]

EncodeNext ==
  /\ phase = "encode" /\ ~bufs.error /\ at < Len(string) /\ at' = at + 1
  /\ LET fresh == IF rembits = 8 THEN FreshOctet(bufs, avail)
                  ELSE [bufs |-> bufs, avail |-> avail]
         r == IF fresh.bufs.error THEN fresh @@ [rem |-> 8]
              ELSE EncodeSym(fresh.bufs, fresh.avail, rembits, string[at + 1])
     IN bufs' = r.bufs /\ avail' = r.avail /\ rembits' = r.rem
  /\ UNCHANGED <<phase, string, start, octets, input, d>>

\* The rest of the last octet is the beginning of the end of the string.
EncodeEnd ==
  /\ phase = "encode" /\ ~bufs.error /\ at = Len(string) /\ phase' = "decode"
  /\ bufs' = IF rembits = 8 THEN bufs
             ELSE FastOrb(bufs, ValueOf(SubSeq(CodeBits[Eos], 1, rembits)))
  /\ octets' = SubSeq(Contents(bufs'), start + 1, BufsLen(bufs')) /\ input' = octets'
  /\ UNCHANGED <<string, at, avail, rembits, start, d>>

\* The inflater passes on what it has of the string, and says when that is all of it.
DecodeSome ==
  /\ phase = "decode" /\ ~d.fail
  /\ \E n \in 0..Len(octets) :
       /\ n > 0 \/ octets = <<>>
       /\ d' = Decode(d, SubSeq(octets, 1, n), n = Len(octets))
       /\ octets' = SubSeq(octets, n + 1, Len(octets))
       /\ phase' = IF n = Len(octets) \/ d'.fail THEN "done" ELSE phase
  /\ UNCHANGED <<string, at, bufs, avail, rembits, start, input>>

Next == EncodeNext \/ EncodeEnd \/ DecodeSome
Spec == Init /\ [][Next]_vars

-----------------------------------------------------------------------------
(* Properties.                                                              *)

Written == SubSeq(Contents(bufs), start + 1, BufsLen(bufs))

\* The encoder's state is what its code assumes: at least a bit of the current octet is
\* free, and the octet that is held has been written.
TypeOK ==
  /\ phase \in {"encode", "decode", "done"} /\ rembits \in 1..8
  /\ rembits < 8 /\ phase = "encode" /\ ~bufs.error => bufs.chain[bufs.cur].under \in 0..255
  /\ \A i \in DOMAIN d.out : d.out[i] \in Symbols

\* Nothing is written past a chunk, on the fast path either, and the encoder's count of
\* the room in it is right whenever it starts an octet.
WithinChunks ==
  /\ \A i \in DOMAIN bufs.chain : Len(bufs.chain[i].data) <= bufs.room
  /\ phase = "encode" /\ ~bufs.error => avail = Avail(bufs)
  /\ phase = "encode" /\ rembits < 8 /\ ~bufs.error => Avail(bufs) > 0

\* However the chunks divide it, the code of a string is the one the standard defines and
\* takes the octets that were counted for it; it is missing only when all chunks are full.
CodeAsDefined ==
  /\ phase # "encode" /\ string # NoString =>
       Written = Encoded(string) /\ Len(Written) = EncodeCount(string)
  /\ bufs.error => BufsLen(bufs) = bufs.room * MaxChunks

\* What was encoded decodes to itself, in whatever pieces it is handed over.
RoundTrip == phase = "done" /\ string # NoString => ~d.fail /\ d.out = string

\* Octets decode only if they are the one encoding of the string that comes out: there is
\* no other padding, and the end of the string is not part of it.
OnlyEncoding == phase = "done" /\ ~d.fail => Encoded(d.out) = input
=============================================================================
