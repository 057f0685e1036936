------------------------------- MODULE MCLayers ------------------------------
(***************************************************************************)
(* What is under the session, layer by layer and each on an instance of its *)
(* own.  Of header fields: the rules of HTTP, the two compression tables of *)
(* a connection, the octets of a header block, the code of a string, and    *)
(* the array a table is kept in.  Of the rest: the octets of frames, the    *)
(* settings of an upgrade, and the map of streams.  A behaviour is about    *)
(* one of them and leaves the others as they are.                           *)
(***************************************************************************)
EXTENDS Hpack

CONSTANTS e1, e2, none

VARIABLES
  about,   \* "fields", "lengths", "tables", "octets", "code", "array", "frames", "upgrade" or "map"
  stage, flags, length, recv, head, trailer, closed,                     \* HttpMessaging
  reps, octets, wire, in, final, calling, busy, d, first, out,           \* HpackInflater
  phase, string, at, bufs, avail, rembits, start, left, input, decoder,  \* Huffman
  buffer, mask, front, len,                                              \* HdRingbuf
  frame, sent, line, heard,                                              \* FrameCodec
  values, payload, verdict, rv, iv,                                      \* UpgradeSettings
  map, next, held                                                        \* HashMap

ruleVars == <<stage, flags, length, recv, head, trailer, closed>>
octetVars == <<reps, octets, wire, in, final, calling, busy, d, first, out>>
codeVars == <<phase, string, at, bufs, avail, rembits, start, left, input, decoder>>
arrayVars == <<buffer, mask, front, len>>
fieldVars == <<ruleVars, vars, octetVars, codeVars, arrayVars>>
frameVars == <<frame, sent, line, heard>>
askedVars == <<values, payload, verdict, rv, iv>>
mapVars == <<map, next, held>>
otherVars == <<frameVars, askedVars, mapVars>>

-----------------------------------------------------------------------------
(* The two tables.  ":m" has two static entries, "k" is a name the library  *)
(* has no static entry for, "a" and "b" are unknown to it and share a       *)
(* bucket; "v" is the longer value.                                         *)

MCStatic == <<[name |-> ":m", value |-> "v"], [name |-> ":m", value |-> "w"]>>
MCSizeOf(x) == IF x = "v" THEN 2 ELSE 1
MCBucketOf(name) == IF name \in {"a", "b"} THEN 1 ELSE 0
MCTokenOf(name) == CASE name = ":m" -> 0 [] name = "k" -> 7 [] OTHER -> -1

F(name, value) == [name |-> name, value |-> value, secret |-> FALSE]
Secret(name, value) == [name |-> name, value |-> value, secret |-> TRUE]

AllLists ==
  {<<>>, <<F("a", "v"), F("a", "w")>>, <<F("b", "w"), F(":m", "w")>>, <<F(":m", "x")>>,
   <<F("k", "w"), F("p", "w")>>, <<Secret("a", "v")>>}
FewLists == {<<F("a", "v"), F("a", "w")>>, <<F("b", "w")>>, <<F(":m", "x"), Secret("a", "v")>>}

\* Tables that are resized, and many blocks with one that is smaller than the default.
MCUses ==
  {[deflateMax |-> 10, lists |-> FewLists, blocks |-> 2, settings |-> 3,
    announcements |-> {<<0>>, <<5>>, <<12>>, <<0, 8>>, <<8, 5>>}],
   [deflateMax |-> 6, lists |-> AllLists, blocks |-> 5, settings |-> 0, announcements |-> {}]}

-----------------------------------------------------------------------------
(* The octets of a block.                                                   *)

\* Fifteen static entries, so that an index may fill the prefix of four bits.
FifteenStatic == [i \in 1..15 |-> [name |-> <<64 + i>>, value |-> IF i = 1 THEN <<>> ELSE <<i>>]]
OneBucket(name) == 0

\* Used for its operators only.
Layer == INSTANCE HpackInflater WITH
  Static <- FifteenStatic, Overhead <- 4, SizeOf <- Len, Buckets <- {0}, BucketOf <- OneBucket, Seqs <- 8,
  WordBits <- 16, MaxNV <- 127, Blocks <- {}, OtherBlocks <- {}, Inflaters <- {}

\* Two entries are in the table, with place for one more.
Known == Layer!Add(Layer!Add(Layer!Context(14, NoMap), <<97, 97>>, <<1>>), <<98>>, <<2>>)
Ready ==
  [c |-> Known, settings |-> 300, least |-> Layer!WordMax, state |-> "INFLATE_START", opcode |-> "NONE",
   index_required |-> FALSE, no_index |-> FALSE, left |-> 0, shift |-> 0, index |-> 0,
   huffman |-> FALSE, huff |-> Layer!DecodeInit, name |-> <<>>, buf |-> <<>>, room |-> 1]
\* A smaller table was announced: it has to be set first.
Expecting ==
  [Ready EXCEPT !.c = Layer!Shrink([@ EXCEPT !.max = 12]), !.settings = 12, !.least = 5,
                !.state = "EXPECT_TABLE_SIZE"]

Size(n) == [op |-> "size", size |-> n]
Indexed(i) == [op |-> "indexed", index |-> i]
Indname(i, value, mode) == [op |-> "indname", index |-> i, value |-> value, mode |-> mode]
Newname(name, value, mode) == [op |-> "newname", name |-> name, value |-> value, mode |-> mode]

FieldStrings == {<<>>, <<0>>, <<97, 97, 97>>}
One ==
  {Indexed(i) : i \in {1, 2, 16, 17}}
  \cup {Indname(i, v, m) : i \in {1, 15, 17}, v \in FieldStrings, m \in Modes}
  \cup {Newname(n, v, m) : n \in FieldStrings, v \in {<<>>, <<97, 97>>}, m \in Modes}
  \cup {Size(n) : n \in {0, 5, 12, 30, 31, 300}}
Then ==
  {Indexed(16), Indexed(17), Indname(17, <<>>, "with"), Newname(<<98, 98>>, <<>>, "with"), Size(5), Size(12)}

MCBlocks == {<<>>} \cup {<<a>> : a \in One} \cup {<<a, b>> : a, b \in Then}
  \cup {<<Size(0), Size(12), b>> : b \in Then}

\* Octets of the peer's own making: a block of the encoder that is cut short, or goes on
\* with other octets; long and empty numbers.
Whole(s) == FlattenSeq([i \in DOMAIN s |-> Layer!Emit(s[i])])
Samples == {<<Indname(17, <<97, 97>>, "without")>>, <<Newname(<<97, 97>>, <<0>>, "with")>>, <<Size(300)>>,
            <<Indexed(17)>>, <<Size(5), Indexed(16)>>}
MCOtherBlocks ==
  UNION {{SubSeq(Whole(s), 1, n) : n \in 0..(Len(Whole(s)) - 1)} : s \in Samples}
  \cup {<<o>> \o tail : o \in {15, 31, 63, 127, 255},
        tail \in {<<0>>, <<128, 0>>, <<129, 0>>, <<255, 127>>, <<128, 128, 0>>, <<128, 128, 4>>, <<240, 255, 3>>,
                  <<255, 255, 3>>, <<128, 128, 128, 0>>, <<128, 128, 128, 128, 1>>, <<1, 0>>, <<2, 0>>}}
  \cup {<<0>> \o tail : tail \in {<<130, 24, 255, 0>>, <<130, 24, 99, 0>>, <<129, 31, 129, 255>>, <<127, 1>>, <<3, 1, 2>>}}
  \cup {<<128>>, <<147>>, <<80, 0, 0>>, <<18, 1>>}

Inflater == INSTANCE HpackInflater WITH
  Static <- FifteenStatic, Overhead <- 4, SizeOf <- Len, Buckets <- {0}, BucketOf <- OneBucket, Seqs <- 8,
  WordBits <- 16, MaxNV <- 127, Blocks <- MCBlocks, OtherBlocks <- MCOtherBlocks,
  Inflaters <- {Ready, Expecting}

ASSUME Inflater!InflaterAssumption

-----------------------------------------------------------------------------
(* The code of a string.                                                    *)

Coder == INSTANCE HuffmanCode

\* One symbol for each length of a code that the table has.
OfEachLength ==
  {CHOOSE s \in Coder!Symbols : Coder!SymTable[s + 1][1] = n :
     n \in {Coder!SymTable[s + 1][1] : s \in Coder!Symbols}}
Few == {97, 33, 10, 0}

MCStrings ==
  {<<>>} \cup {<<s>> : s \in Coder!Symbols} \cup (OfEachLength \X OfEachLength) \cup (Few \X Few \X Few)

Octets == {0, 7, 15, 24, 31, 63, 127, 128, 248, 254, 255}
MCInputs ==
  LET lengths == {Coder!Encoded(<<a, b>>) : a, b \in {97, 32, 33, 35}}
  IN {<<a>> : a \in 0..255} \cup (Octets \X Octets) \cup {<<255, 255, a, b>> : a, b \in Octets}
     \cup {e \o <<255>> : e \in lengths}

Code == INSTANCE Huffman WITH
  Strings <- MCStrings, Inputs <- MCInputs, ChunkSizes <- {1, 2, 3, 12}, Before <- {0, 1}, MaxChunks <- 7,
  octets <- left, d <- decoder

ASSUME Code!HuffmanAssumption

-----------------------------------------------------------------------------
(* The array, with a range of the front that it soon comes around.          *)

Ring == INSTANCE HdRingbuf WITH
  Entries <- {e1, e2}, Garbage <- none, Word <- 16, InitSize <- 2, MaxLen <- 6, first <- front

ASSUME Ring!RingbufAssumption

-----------------------------------------------------------------------------
(* The rules of HTTP: lists of any fields, and those that are about the     *)
(* length of the content.                                                   *)

Given(name, value) == [name |-> name, spelt |-> "ok", value |-> value, digits |-> <<>>]
Spelt(name, spelt) == [name |-> name, spelt |-> spelt, value |-> "ok", digits |-> <<>>]
Length(value, digits) == [name |-> "content-length", spelt |-> "ok", value |-> value, digits |-> digits]

FieldValues == {"ok", "empty", "illegal", "CONNECT", "OPTIONS", "/", "*", "http", "trailers"}

\* Fields in every order: the pseudo-header fields, host, and what may not be there.
NoDigits == {<<>>}
AnyFields ==
  {Given(":method", v) : v \in {"ok", "CONNECT", "OPTIONS"}}
    \cup {Given(":path", v) : v \in {"/", "*", "ok", "empty", "illegal"}}
    \cup {Given(":scheme", v) : v \in {"http", "ok"}}
    \cup {Given(":authority", v) : v \in {"ok", "empty"}}
    \cup {Given("host", v) : v \in {"ok", "empty", "illegal"}}
    \cup {Given("te", v) : v \in {"trailers", "ok"}}
    \cup {Given(":other", "ok"), Given("hop-by-hop", "ok"), Spelt("other", "upper"),
          Spelt("other", "illegal")}

\* Lengths: numbers in base 3 up to 7, with content and trailers.
LengthDigits == {<<>>, <<0>>, <<1, 0>>, <<2, 1>>, <<2, 2>>, <<1, 0, 0>>, <<0, 1>>, <<3>>}
LengthFields ==
  {Given(":method", "ok"), Given(":method", "CONNECT"), Given(":path", "ok"), Given(":scheme", "ok"),
   Given(":authority", "ok"), Length("illegal", <<1>>)}
    \cup {Length("ok", digits) : digits \in LengthDigits}
LengthAllDigits == LengthDigits \cup {<<1>>, <<>>}

AnyRequest == INSTANCE HttpMessaging WITH
  Values <- FieldValues, Digits <- NoDigits, Peer <- AnyFields, MaxFields <- 5, MaxTrailers <- 1,
  Chunks <- {}, MaxContent <- 0, Base <- 3, MaxLength <- 7, phase <- stage
LengthRequest == INSTANCE HttpMessaging WITH
  Values <- FieldValues, Digits <- LengthAllDigits, Peer <- LengthFields, MaxFields <- 5, MaxTrailers <- 2,
  Chunks <- {1, 3}, MaxContent <- 8, Base <- 3, MaxLength <- 7, phase <- stage

ASSUME AnyRequest!MessagingAssumption /\ LengthRequest!MessagingAssumption

-----------------------------------------------------------------------------
(* The octets of frames: short chunks, so that a header block takes up to   *)
(* three, and identifiers, weights and paddings at their ends.              *)

Packer == INSTANCE FrameCodec WITH Frames <- {}, Payload <- 10, Chunks <- 3, wire <- line

LastId == 2147483647
Some(n) == [i \in 1..n |-> 10 * i]
Spec3(dep, weight, exclusive) == [dep |-> dep, weight |-> weight, exclusive |-> exclusive]
Plain(type, id) == [type |-> type, flags |-> {}, stream |-> id, pad |-> 0]
WithHeaders(f, pad, spec, n) ==
  [Plain(Packer!HEADERS, LastId) EXCEPT !.flags = f \cup {Packer!END_HEADERS}, !.pad = pad]
    @@ [spec |-> spec, block |-> Some(n)]

MCFrames ==
  {WithHeaders(f, pad, Packer!DefaultSpec, n) :
     f \in SUBSET {Packer!END_STREAM}, pad \in {0, 1, 2, 256}, n \in {0, 1, 9, 10, 11, 20, 21, 30, 31}}
  \cup {WithHeaders({Packer!PRIORITY_FLAG}, pad, Spec3(dep, w, x), n) :
          pad \in {0, 3}, n \in {0, 4, 5, 6, 20}, dep \in {0, LastId}, w \in {1, 256}, x \in BOOLEAN}
  \cup {Plain(Packer!PRIORITY, 5) @@ [spec |-> Spec3(dep, w, x)] :
          dep \in {0, 7}, w \in {1, 16, 256}, x \in BOOLEAN}
  \cup {Plain(Packer!RST_STREAM, 1) @@ [error |-> e] : e \in {0, 13, LastId}}
  \cup {Plain(Packer!SETTINGS, 0) @@ [iv |-> e] :
          e \in UNION {[1..n -> [id : {1, 1027}, value : {0, LastId}]] : n \in 0..2}}
  \cup {[Plain(Packer!PING, 0) EXCEPT !.flags = f] @@ [opaque |-> Some(8)] : f \in SUBSET {Packer!END_STREAM}}
  \cup {Plain(Packer!GOAWAY, 0) @@ [last |-> l, error |-> 2, opaque |-> Some(n)] :
          l \in {0, LastId}, n \in {0, 2}}
  \cup {Plain(Packer!WINDOW_UPDATE, id) @@ [increment |-> n] : id \in {0, 3}, n \in {1, LastId}}
  \cup {[Plain(Packer!DATA, 3) EXCEPT !.flags = f, !.pad = pad] @@ [opaque |-> Some(n)] :
          f \in SUBSET {Packer!END_STREAM}, n \in {0, 1, 9, 10}, pad \in {0, 1, 2, 256}}

Codec == INSTANCE FrameCodec WITH Frames <- MCFrames, Payload <- 10, Chunks <- 3, wire <- line

-----------------------------------------------------------------------------
(* The settings of an upgrade: lists of them, other octets, and values that *)
(* are no base64.                                                           *)

Setting(id, o) == <<0, id, o, 255, 251, 191>>
MCPayloads ==
  {<<>>, Setting(4, 1) \o <<0>>} \cup {Setting(id, o) : id \in {1, 4, 5}, o \in {0, 127}}
  \cup {Setting(3, 0) \o Setting(4, o) : o \in {0, 16}}
  \cup UNION {[1..n -> {0, 62, 251}] : n \in 1..3}

Client == INSTANCE UpgradeSettings WITH Payloads <- {}, Others <- {}
MCOthers ==
  {<<>>, <<Client!Encode(Setting(4, 0)), Client!Encode(<<>>)>>}
  \cup {<<s>> : s \in UNION {[1..n -> {0, Client!Plus, Client!Minus, Client!Equals, Client!Invalid}] : n \in 0..4}}

Asked == INSTANCE UpgradeSettings WITH Payloads <- MCPayloads, Others <- MCOthers

-----------------------------------------------------------------------------
(* The map of streams, from two buckets on.                                 *)

Streams == INSTANCE HashMap WITH Keys <- {1, 2, 3, 5, 7}, InitialLength <- 2

ASSUME Streams!MapAssumption

-----------------------------------------------------------------------------
(* A behaviour of one of them.                                         *)

TablesIdle ==
  /\ enc = [c |-> Context(0, EmptyMap)] /\ dec = [c |-> Context(0, NoMap)] /\ use = [blocks |-> 0]
  /\ urgent = <<>> /\ toDec = <<>> /\ toEnc = <<>> /\ inflight = <<>>
  /\ decoded = [sent |-> <<>>, got |-> <<>>] /\ blocks = 0 /\ changes = 0
OctetsIdle ==
  /\ reps = Inflater!NoReps /\ octets = <<>> /\ wire = <<>> /\ in = <<>> /\ final = FALSE
  /\ calling = "no" /\ busy = FALSE /\ d = [state |-> "NONE"] /\ first = d /\ out = <<>>
CodeIdle ==
  /\ phase = "none" /\ string = <<>> /\ at = 0 /\ bufs = <<>> /\ avail = 0 /\ rembits = 8
  /\ start = 0 /\ left = <<>> /\ input = <<>> /\ decoder = <<>>

RulesIdle ==
  /\ stage = "none" /\ flags = {} /\ length = -1 /\ recv = 0
  /\ head = <<>> /\ trailer = <<>> /\ closed = FALSE

FramesIdle == frame = Codec!Nothing /\ sent = "none" /\ line = <<>> /\ heard = Codec!Nothing
AskedIdle == values = <<>> /\ payload = <<>> /\ verdict = "none" /\ rv = 0 /\ iv = <<>>

Layers == {"fields", "lengths", "tables", "octets", "code", "array", "frames", "upgrade", "map"}

MCInit ==
  /\ about \in Layers
  /\ Ring!Init /\ Streams!MapInit
  /\ \/ about = "fields" /\ AnyRequest!Init
     \/ about = "lengths" /\ LengthRequest!Init
     \/ about \notin {"fields", "lengths"} /\ RulesIdle
  /\ IF about = "tables" THEN Init ELSE TablesIdle
  /\ IF about = "octets" THEN Inflater!Init ELSE OctetsIdle
  /\ IF about = "code" THEN Code!Init ELSE CodeIdle
  /\ IF about = "frames" THEN Codec!CodecInit ELSE FramesIdle
  /\ IF about = "upgrade" THEN Asked!UpgradeInit ELSE AskedIdle

\* What is under the session but not about header fields.
OtherNext ==
  \/ about = "frames" /\ Codec!CodecNext /\ UNCHANGED <<askedVars, mapVars>>
  \/ about = "upgrade" /\ Asked!AskedUpgrade /\ UNCHANGED <<frameVars, mapVars>>
  \/ about = "map" /\ Streams!MapNext /\ UNCHANGED <<frameVars, askedVars>>

FieldNext ==
  \/ about = "fields" /\ AnyRequest!Next /\ UNCHANGED <<vars, octetVars, codeVars, arrayVars>>
  \/ about = "lengths" /\ LengthRequest!Next /\ UNCHANGED <<vars, octetVars, codeVars, arrayVars>>
  \/ about = "tables" /\ Next /\ UNCHANGED <<ruleVars, octetVars, codeVars, arrayVars>>
  \/ about = "octets" /\ Inflater!Next /\ UNCHANGED <<ruleVars, vars, codeVars, arrayVars>>
  \/ about = "code" /\ Code!Next /\ UNCHANGED <<ruleVars, vars, octetVars, arrayVars>>
  \/ about = "array" /\ Ring!Next /\ UNCHANGED <<ruleVars, vars, octetVars, codeVars>>

MCNext ==
  /\ UNCHANGED about
  /\ \/ FieldNext /\ UNCHANGED otherVars
     \/ OtherNext /\ UNCHANGED fieldVars

MCSpec == MCInit /\ [][MCNext]_<<about, fieldVars, otherVars>>

-----------------------------------------------------------------------------
(* Properties: those of each module, of the behaviours that are about it.   *)

\* What the rules of HTTP let pass is well-formed so far, and a request that has ended has what
\* it needs and the content it declared; a stream is reset for its messaging only when nothing
\* that may follow could make the request well-formed (nghttp2_http.c:115, 408, 467, 524, 552).
RequestsJudged ==
  [][ /\ about = "fields" =>
           AnyRequest!OnlyWellFormed' /\ (stage' = "reset" => AnyRequest!MayReset)
      /\ about = "lengths" =>
           /\ LengthRequest!TypeOK' /\ LengthRequest!OnlyWellFormed'
           /\ stage' = "reset" => LengthRequest!MayReset ]_ruleVars

\* The two compression tables of a connection agree, so that no block fails to decompress and
\* each comes out as it went in, and the hash map and the room of each are right, though sizes
\* change and the deflater may fail (nghttp2_hd.c:1097, 1158, 1231, 1247, 1424).
TablesAgree ==
  about = "tables" =>
    TypeOK /\ NeverFails /\ FieldsIntact /\ EncoderSubsumed /\ EntriesFound /\ RoomBounded

\* Wherever the calls of nghttp2_hd_inflate_hd_nv divide a block, it means what it means as a
\* whole, each field is emitted by the call that brings its last octet, and what the deflater
\* writes is read as what it wrote (nghttp2_hd.c:780-1084, 1848-2221).
BlocksRead ==
  about = "octets" =>
    /\ Inflater!TypeOK /\ Inflater!PiecesDoNotMatter
    /\ Inflater!NothingHeldBack /\ Inflater!EncodedAsMeant

\* The Huffman code of a string is the standard's however chunks divide it, written within them;
\* it decodes to the string in any pieces, and nothing else does (nghttp2_hd_huff_encode,
\* nghttp2_hd_huff_decode).
StringsCoded ==
  about = "code" =>
    /\ Code!TypeOK /\ Code!WithinChunks /\ Code!CodeAsDefined
    /\ Code!RoundTrip /\ Code!OnlyEncoding

\* The array of a table behaves as a list (hd_ringbuf_push_front, hd_ringbuf_pop_back), and the
\* map of streams has those that were inserted and not removed (nghttp2_map.c).
ContainersKeep ==
  /\ [](about = "array" => Ring!TypeOK) /\ Ring!ImplementsDeque
  /\ [](about = "map" => Streams!MapKeeps)

\* A frame that is sent is read as it was meant, whatever the chunks it was divided into, its
\* padding and the reserved bits (nghttp2_frame.c), and only one that does not fit is not sent;
\* the settings of a client that asks for an upgrade are what the session gets, and a value that
\* is no base64, or not the only one, is refused (HTTP2ConnectionUpgradeFactory.swift:42-54).
WireUnderstood ==
  /\ about = "frames" => Codec!FramesSurvive /\ Codec!FailsOnlyWhenTooLong
  /\ about = "upgrade" => Asked!SettingsUnderstood
=============================================================================
