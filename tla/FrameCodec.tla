------------------------------ MODULE FrameCodec ------------------------------
(***************************************************************************)
(* nghttp2_frame.c: how a session writes a frame and another reads it.  The *)
(* payload is written into a chain of chunks, a head is put in front of     *)
(* each chunk, and padding into the first; the reader takes one head and    *)
(* payload after another and joins CONTINUATION to the HEADERS it goes on.  *)
(*                                                                         *)
(* A frame is a record of the fields of its kind.  Octets and lengths are   *)
(* those of the wire; the octets of a header block are left to HPACK.       *)
(***************************************************************************)
EXTENDS Bufs, FiniteSets

CONSTANTS
  Frames,      \* what is written: sets of fields, with the padding the sender selects
  Payload,     \* NGHTTP2_MAX_PAYLOADLEN, the room of a chunk
  Chunks       \* how many chunks there may be

VARIABLES
  frame,  \* what was given to the sender
  sent,   \* whether it was written: "no", "yes" or, when it did not fit, "failed"
  wire,   \* octets that have not been read
  heard   \* the frame as read so far

codecVars == <<frame, sent, wire, heard>>

Nothing == [type |-> -1]

DATA == 0
HEADERS == 1
PRIORITY == 2
RST_STREAM == 3
SETTINGS == 4
PING == 6
GOAWAY == 7
WINDOW_UPDATE == 8
CONTINUATION == 9

\* The flags are the bits of one octet; ACK shares that of END_STREAM.
END_STREAM == 1
END_HEADERS == 4
PADDED == 8
PRIORITY_FLAG == 32
Flags == {END_STREAM, END_HEADERS, PADDED, PRIORITY_FLAG}

CodecInit == frame \in Frames /\ sent = "no" /\ wire = <<>> /\ heard = Nothing

-----------------------------------------------------------------------------
(* Numbers, the most significant octet first.                               *)

Put(n, octets) == [i \in 1..octets |-> (n \div 256^(octets - i)) % 256]
Get(octets) == FoldLeft(LAMBDA n, o : 256 * n + o, 0, octets)

\* NGHTTP2_STREAM_ID_MASK, NGHTTP2_WINDOW_SIZE_INCREMENT_MASK
\* Mutant: the mask is a bit short.
GetMaskedShort(octets) == Get([octets EXCEPT ![1] = @ % 64])
GetMasked(octets) == Get([octets EXCEPT ![1] = @ % 128])

FlagsOctet(flags) == FoldSet(LAMBDA f, n : f + n, 0, flags)
OctetFlags(octet) == {f \in Flags : (octet \div f) % 2 = 1}

PackHd(hd) ==
  Put(hd.length, 3) \o <<hd.type, FlagsOctet(hd.flags)>> \o Put(hd.stream, 4)
HeadLength == 9
UnpackHd(octets) ==
  [length |-> Get(SubSeq(octets, 1, 3)), type |-> octets[4], flags |-> OctetFlags(octets[5]),
   stream |-> GetMasked(SubSeq(octets, 6, 9))]

\* The first bit of the stream a stream depends on says whether it does so alone, and the
\* weights 1 to 256 are written as 0 to 255.
DefaultSpec == [dep |-> 0, weight |-> 16, exclusive |-> FALSE]
PackSpec(spec) ==
  LET dep == Put(spec.dep, 4)
  IN <<dep[1] + IF spec.exclusive THEN 128 ELSE 0>> \o Tail(dep) \o <<spec.weight - 1>>
UnpackSpec(octets) ==
  [dep |-> GetMasked(SubSeq(octets, 1, 4)), weight |-> octets[5] + 1, exclusive |-> octets[1] >= 128]

-----------------------------------------------------------------------------
(* Writing.                                                                 *)

\* The payload of a frame, without its padding.
Content(f) ==
  CASE f.type = HEADERS       -> (IF PRIORITY_FLAG \in f.flags THEN PackSpec(f.spec) ELSE <<>>) \o f.block
    [] f.type = PRIORITY      -> PackSpec(f.spec)
    [] f.type = RST_STREAM    -> Put(f.error, 4)
    [] f.type = SETTINGS      -> FlattenSeq([i \in DOMAIN f.iv |-> Put(f.iv[i].id, 2) \o Put(f.iv[i].value, 4)])
    [] f.type = GOAWAY        -> Put(f.last, 4) \o Put(f.error, 4) \o f.opaque
    [] f.type = WINDOW_UPDATE -> Put(f.increment, 4)
    [] OTHER                  -> f.opaque

Written(f) == BufsAdd(NewBufs(Payload, 0, Chunks, 1), Content(f))

\* A header block takes a frame for each chunk, and the flag that ends it is that of the last;
\* the length of any other frame is that of its payload, whichever chunks it is in.
\* Mutant: the first of several frames still says that the block ends with it.
HeadFlagsKept(f, i, last) == IF i = 1 THEN f.flags ELSE IF i = last THEN {END_HEADERS} ELSE {}
HeadFlags(f, i, last) ==
  IF i = 1 THEN (IF last > 1 THEN f.flags \ {END_HEADERS} ELSE f.flags)
  ELSE IF i = last THEN {END_HEADERS} ELSE {}

InFrames(f, chunks) ==
  IF f.type = HEADERS
  THEN [i \in DOMAIN chunks |->
          [hd |-> [length |-> Len(chunks[i].data), type |-> IF i = 1 THEN HEADERS ELSE CONTINUATION,
                   flags |-> HeadFlags(f, i, Len(chunks)), stream |-> f.stream],
           payload |-> chunks[i].data]]
  ELSE LET all == FlattenSeq([i \in DOMAIN chunks |-> chunks[i].data])
       IN <<[hd |-> [length |-> Len(all), type |-> f.type, flags |-> f.flags, stream |-> f.stream],
             payload |-> all]>>

\* The padding the callback may select: as much as there is room for in one frame, its first
\* octet being the one that tells its length.
MaxPad == 256
PadOf(f, length) ==
  IF length >= Payload THEN 0
  ELSE IF length + f.pad > Payload THEN Payload - length ELSE f.pad
\* nghttp2_frame_add_pad: the octet before the payload, and the rest behind it.
AddPad(first, pad) ==
  IF pad = 0 THEN first
  ELSE [hd |-> [first.hd EXCEPT !.length = @ + pad, !.flags = @ \cup {PADDED}],
        payload |-> <<pad - 1>> \o first.payload \o [i \in 1..(pad - 1) |-> 0]]

\* A header block may fill several chunks, SETTINGS only one.
TooLong(f, bufs) == bufs.error \/ (f.type = SETTINGS /\ Len(bufs.chain) > 1)

Pack ==
  /\ sent = "no" /\ UNCHANGED <<frame, heard>>
  /\ LET bufs   == Written(frame)
         frames == InFrames(frame, bufs.chain)
         padded == [frames EXCEPT ![1] = AddPad(@, PadOf(frame, BufsLen(bufs)))]
         \* The bit before an identifier is reserved: other senders than this may set it.
         octets(r) == FlattenSeq([i \in DOMAIN padded |->
                        [PackHd(padded[i].hd) EXCEPT ![6] = @ + r] \o padded[i].payload])
     IN IF TooLong(frame, bufs) THEN sent' = "failed" /\ wire' = <<>>
        ELSE sent' = "yes" /\ \E r \in {0, 128} : wire' = octets(r)

-----------------------------------------------------------------------------
(* Reading.                                                                 *)

\* Mutant: the octet that tells the padding is counted as padding behind the payload.
TrailingOfAll(payload) == payload[1] + 1
Trailing(payload) == payload[1]

Unpadded(hd, payload) ==
  IF PADDED \in hd.flags THEN SubSeq(payload, 2, Len(payload) - Trailing(payload)) ELSE payload

Entries(octets) ==
  [i \in 1..(Len(octets) \div 6) |->
     [id |-> Get(SubSeq(octets, 6 * i - 5, 6 * i - 4)), value |-> Get(SubSeq(octets, 6 * i - 3, 6 * i))]]

Unpack(hd, payload) ==
  LET f == [type |-> hd.type, flags |-> hd.flags, stream |-> hd.stream]
      p == Unpadded(hd, payload)
  IN CASE hd.type = HEADERS /\ PRIORITY_FLAG \in hd.flags ->
            f @@ [spec |-> UnpackSpec(SubSeq(p, 1, 5)), block |-> SubSeq(p, 6, Len(p))]
       [] hd.type = HEADERS /\ PRIORITY_FLAG \notin hd.flags -> f @@ [spec |-> DefaultSpec, block |-> p]
       [] hd.type = PRIORITY      -> f @@ [spec |-> UnpackSpec(p)]
       [] hd.type = RST_STREAM    -> f @@ [error |-> Get(p)]
       [] hd.type = SETTINGS      -> f @@ [iv |-> Entries(p)]
       [] hd.type = GOAWAY        ->
            f @@ [last |-> GetMasked(SubSeq(p, 1, 4)), error |-> Get(SubSeq(p, 5, 8)),
                  opaque |-> SubSeq(p, 9, Len(p))]
       [] hd.type = WINDOW_UPDATE -> f @@ [increment |-> GetMasked(p)]
       [] OTHER                   -> f @@ [opaque |-> p]

\* CONTINUATION adds its flag and its part of the block.
Joined(f, hd, payload) ==
  [f EXCEPT !.flags = @ \cup (hd.flags \cap {END_HEADERS}), !.block = @ \o payload]

ReadFrame ==
  /\ wire # <<>> /\ UNCHANGED <<frame, sent>>
  /\ LET hd == UnpackHd(wire)
         payload == SubSeq(wire, HeadLength + 1, HeadLength + hd.length)
     IN /\ wire' = SubSeq(wire, HeadLength + hd.length + 1, Len(wire))
        /\ heard' = IF hd.type = CONTINUATION THEN Joined(heard, hd, payload) ELSE Unpack(hd, payload)

CodecNext == Pack \/ ReadFrame

-----------------------------------------------------------------------------
\* What a frame means to its reader: all but the padding, which leaves its flag.
Meaning(f) ==
  LET padded == IF PadOf(f, Len(Content(f))) > 0 THEN [f EXCEPT !.flags = @ \cup {PADDED}] ELSE f
  IN [x \in DOMAIN f \ {"pad"} |-> padded[x]]

\* A frame that was sent is read as it was meant, with the whole of its header block, whatever
\* the chunks it was divided into, its padding and the reserved bits (nghttp2_frame.c:37-52,
\* 249-380, 853-947); until its last part was read the block does not seem to have ended.
FramesSurvive ==
  /\ sent = "yes" /\ wire = <<>> => heard = Meaning(frame)
  /\ sent = "yes" /\ wire # <<>> /\ heard # Nothing => END_HEADERS \notin heard.flags

\* Only what does not fit is not sent.
FailsOnlyWhenTooLong ==
  sent = "failed" =>
    Len(Content(frame)) > Payload * (IF frame.type = SETTINGS THEN 1 ELSE Chunks)
=============================================================================
