---------------------------- MODULE FrameMeaning -----------------------------
(***************************************************************************)
(* What the frames of a connection mean to a server: what each of them does *)
(* to the streams and to the header compression, and what the application   *)
(* is told, when every frame is there as a whole.  InboundFrame reads the   *)
(* same frames byte by byte, calls the same handlers, and has to arrive at  *)
(* the same events.                                                         *)
(*                                                                         *)
(* A frame is a record [type, flags, stream, payload]; a payload is a       *)
(* sequence of bytes, and a byte a record [kind, value]:                    *)
(*   "pad"    the Pad Length, value is the number                           *)
(*   "entry"  a byte of a SETTINGS entry, value is <<identifier, value>>    *)
(*   "block"  a byte of a header block: "whole", a field of one byte,       *)
(*            "first" and "second" for a field of two, "invalid", a field   *)
(*            HTTP does not allow, "undecodable"                            *)
(*   "data"   a byte of content; "excess" when it is beyond content-length  *)
(*   "other"  a byte nobody looks at                                        *)
(***************************************************************************)
EXTENDS Integers, Sequences, SequencesExt, FiniteSets

CONSTANTS
  StreamIds,      \* the streams of the peer
  MaxFrameSize,   \* SETTINGS_MAX_FRAME_SIZE of the server
  HeadLength,     \* NGHTTP2_FRAME_HDLEN, 9 bytes
  PriorityLength, \* NGHTTP2_PRIORITY_SPECLEN, 5 bytes
  EntryLength,    \* NGHTTP2_FRAME_SETTINGS_ENTRY_LENGTH, 6 bytes
  WordLength      \* 4 bytes: a payload of RST_STREAM, WINDOW_UPDATE; half of PING and GOAWAY;
                  \* the promised stream of PUSH_PROMISE

ASSUME LengthsAssumption ==
  /\ StreamIds \subseteq Nat \ {0}
  /\ {MaxFrameSize, HeadLength, PriorityLength, EntryLength, WordLength} \subseteq Nat \ {0}

Header(f) == [type |-> f.type, flags |-> f.flags, stream |-> f.stream, length |-> Len(f.payload)]

\* The session as far as receiving goes
NewSession ==
  [newest   |-> 0,        \* last_recv_stream_id
   live     |-> {},       \* streams nghttp2_session_get_stream returns
   shut     |-> {},       \* NGHTTP2_SHUT_RD
   closing  |-> {},       \* NGHTTP2_STREAM_CLOSING: RST_STREAM is queued
   asked    |-> {},       \* the request's header fields are complete
   unacked  |-> TRUE,     \* inflight_settings_head: the server's own SETTINGS
   goaway   |-> "none",   \* "queued": NGHTTP2_GOAWAY_TERM_ON_SEND, "sent": NGHTTP2_GOAWAY_TERM_SENT
   peerGone |-> FALSE,    \* NGHTTP2_GOAWAY_RECV
   half     |-> FALSE,    \* the inflater is inside a field
   bad      |-> FALSE,    \* hd_inflater.ctx.bad
   inflated |-> <<>>,     \* the bytes the inflater has decoded
   events   |-> <<>>]     \* the callbacks, the resets and the answers, in order

-----------------------------------------------------------------------------
(* The handlers.  Each maps a session to the next.                          *)

Emit(s, event) == [s EXCEPT !.events = Append(@, event)]

IsClosing(s) == s.goaway # "none"

Terminate(s) ==
  IF s.goaway # "none" THEN s
  ELSE Emit([s EXCEPT !.goaway = "queued"], <<"terminate">>)

\* Mutant: the stream is not marked as closing before its RST_STREAM is sent
AddRstOnly(s, id) == IF id \in s.closing THEN s ELSE Emit(s, <<"reset", id>>)
AddRst(s, id) ==
  IF id \in s.closing THEN s
  ELSE Emit([s EXCEPT !.closing = @ \cup ({id} \cap s.live)], <<"reset", id>>)

\* Mutant: GOAWAY does not end the reading
WantReadOn(s) == s.live # {} \/ ~s.peerGone
\* want_read: GOAWAY of the peer ends the reading when no stream is active
WantRead(s) == s.goaway # "sent" /\ (s.live # {} \/ ~s.peerGone)

\* HEADERS: take says whether the application gets to see the block.  A server
\* accepts no PUSH_PROMISE
ProcessHeaders(s, hd) ==
  LET id         == hd.stream
      ignored(r) == [s |-> r, take |-> FALSE]
      taken(r)   == [s |-> Emit(r, <<"begin", id>>), take |-> TRUE]
      seen       == [s EXCEPT !.newest = id]
  IN  IF hd.type = "PUSH_PROMISE" \/ id = 0 THEN ignored(Terminate(s))
      ELSE IF id \in s.live \/ id <= s.newest
      THEN IF id \in s.shut THEN ignored(Terminate(s))
           ELSE IF id \notin s.live \/ id \in s.closing THEN ignored(s)
           ELSE taken(s)
      ELSE IF IsClosing(s) THEN ignored(seen)
      ELSE taken([seen EXCEPT !.live = @ \cup {id}])

\* Mutant: the byte of a refused field is left to be decoded again
InflateByteAgain(acc, byte, id, take) ==
  IF acc.result # "ok" THEN acc
  ELSE LET s    == acc.s
           fed  == [s EXCEPT !.inflated = Append(@, byte), !.half = (byte.value = "first")]
           next(r, result) == [s |-> r, read |-> acc.read + 1, result |-> result]
       IN  IF s.bad \/ byte.value = "undecodable"
           THEN [acc EXCEPT !.result = "broken"]
           ELSE IF byte.value = "first" \/ ~take THEN next(fed, "ok")
           ELSE IF byte.value = "invalid" THEN [s |-> AddRst(fed, id), read |-> acc.read, result |-> "refused"]
           ELSE next(Emit([fed EXCEPT !.asked = @ \cup {id}], <<"header", id>>), "ok")
\* One byte of a header block; acc.result is "ok" until something is wrong
InflateByte(acc, byte, id, take) ==
  IF acc.result # "ok" THEN acc
  ELSE LET s    == acc.s
           fed  == [s EXCEPT !.inflated = Append(@, byte), !.half = (byte.value = "first")]
           next(r, result) == [s |-> r, read |-> acc.read + 1, result |-> result]
       IN  IF s.bad \/ byte.value = "undecodable"
           THEN [acc EXCEPT !.result = "broken"]
           ELSE IF byte.value = "first" \/ ~take THEN next(fed, "ok")
           ELSE IF byte.value = "invalid" THEN next(AddRst(fed, id), "refused")
           ELSE next(Emit([fed EXCEPT !.asked = @ \cup {id}], <<"header", id>>), "ok")

\* Decodes a piece of the block; final says that it is the last one
Inflate(s, id, bytes, final, take) ==
  LET fed == FoldLeft(LAMBDA acc, b : InflateByte(acc, b, id, take),
                      [s |-> s, read |-> 0, result |-> "ok"], bytes)
      broken == fed.result = "broken" \/ (fed.result = "ok" /\ (s.bad \/ (final /\ fed.s.half)))
      bad == [fed.s EXCEPT !.bad = TRUE]
  IN  IF ~broken THEN fed
      ELSE [s |-> Terminate(IF take /\ id \in s.live THEN AddRst(bad, id) ELSE bad),
            read |-> fed.read, result |-> "broken"]

\* The block is complete: the request, or its trailers, which must end the stream
AfterBlock(s, hd, request) ==
  LET id    == hd.stream
      ended == "END_STREAM" \in hd.flags
      valid == IF request THEN id \in s.asked ELSE ended
      told  == IF valid THEN Emit(s, <<"HEADERS", id>>) ELSE AddRst(s, id)
  IN  IF id \notin s.live \/ id \in s.closing THEN s
      ELSE IF ended THEN [told EXCEPT !.shut = @ \cup {id}]
      ELSE told

\* DATA: may the payload be taken at all
FailFast(s, id) ==
  IF id = 0 \/ id > s.newest \/ id \in s.shut THEN [s |-> Terminate(s), take |-> FALSE]
  ELSE [s |-> s, take |-> id \in s.live \ s.closing]

\* Content; a chunk that goes beyond content-length resets the stream
TakeData(s, id, bytes) ==
  IF \E i \in DOMAIN bytes : bytes[i].value = "excess" THEN [s |-> AddRst(s, id), take |-> FALSE]
  ELSE [s |-> [s EXCEPT !.events = @ \o [i \in DOMAIN bytes |-> <<"data", id>>]], take |-> TRUE]

\* The end of DATA.  That content falls short of content-length is for HttpMessaging
EndData(s, hd) ==
  LET told == Emit(s, <<"DATA", hd.stream>>)
  IN  IF hd.stream \notin s.live \ s.closing THEN s
      ELSE IF "END_STREAM" \in hd.flags THEN [told EXCEPT !.shut = @ \cup {hd.stream}]
      ELSE told

Unlimited == 1000     \* UINT32_MAX, the initial value of the extra entry
Identifiers(iv) == {iv[i][1] : i \in DOMAIN iv}
ValuesOf(iv, id) == {iv[i][2] : i \in {j \in DOMAIN iv : iv[j][1] = id}}

\* What a list of SETTINGS entries does: the last value of each identifier
\* stays, and the encoder's table goes through the least size on its way
Effect(iv) ==
  [id \in Identifiers(iv) |->
     [final |-> iv[CHOOSE i \in DOMAIN iv :
                     iv[i][1] = id /\ \A j \in i + 1..Len(iv) : iv[j][1] # id][2],
      least |-> IF id # "HEADER_TABLE_SIZE" THEN 0
                ELSE CHOOSE v \in ValuesOf(iv, id) : \A w \in ValuesOf(iv, id) : v <= w]]

\* The frames whose payload is read as a whole
ProcessSettings(s, hd, iv) ==
  IF hd.stream # 0 THEN Terminate(s)
  ELSE IF "ACK" \notin hd.flags THEN Emit(s, <<"SETTINGS", Effect(iv)>>)
  ELSE IF s.unacked THEN Emit([s EXCEPT !.unacked = FALSE], <<"SETTINGS", "ACK">>)
  ELSE Terminate(s)

ProcessPing(s, hd) ==
  LET answered == IF "ACK" \in hd.flags \/ IsClosing(s) THEN s ELSE Emit(s, <<"pong">>)
  IN  IF hd.stream # 0 THEN Terminate(s) ELSE Emit(answered, <<"PING">>)

ProcessRst(s, id) ==
  IF id = 0 \/ id > s.newest THEN Terminate(s)
  ELSE LET told == Emit([s EXCEPT !.shut = @ \cup ({id} \cap s.live)], <<"RST_STREAM", id>>)
       IN  [told EXCEPT !.live = @ \ {id}, !.closing = @ \ {id}]

ProcessGoaway(s, hd) ==
  IF hd.stream # 0 THEN Terminate(s) ELSE Emit([s EXCEPT !.peerGone = TRUE], <<"GOAWAY">>)

\* PRIORITY and WINDOW_UPDATE of the connection: their effects are those of
\* StreamTree and Session
ProcessOther(s, hd) ==
  IF hd.type = "PRIORITY" /\ hd.stream = 0 THEN Terminate(s) ELSE Emit(s, <<hd.type>>)

-----------------------------------------------------------------------------
(* The meaning of a sequence of frames, up to the point where the           *)
(* connection ends.                                                         *)

\* The length the payload of a frame of this type may have
SizeAllowed(hd) ==
  CASE hd.type = "PRIORITY" -> hd.length = PriorityLength
    [] hd.type \in {"RST_STREAM", "WINDOW_UPDATE"} -> hd.length = WordLength
    [] hd.type = "PING" -> hd.length = 2 * WordLength
    [] hd.type = "GOAWAY" -> hd.length >= 2 * WordLength
    [] hd.type = "SETTINGS" -> /\ hd.length % EntryLength = 0
                               /\ "ACK" \in hd.flags => hd.length = 0
    [] OTHER -> TRUE

Entries(payload) == [i \in 1..Len(payload) \div EntryLength |-> payload[i * EntryLength].value]

\* What precedes the header block, and the padding behind it
FixedFields(hd) ==
  IF hd.type = "PUSH_PROMISE" THEN WordLength
  ELSE IF "PRIORITY" \in hd.flags THEN PriorityLength ELSE 0
Before(f) == (IF "PADDED" \in f.flags THEN 1 ELSE 0) + FixedFields(Header(f))
Behind(f) == IF "PADDED" \in f.flags THEN f.payload[1].value ELSE 0
WellPadded(f) ==
  "PADDED" \in f.flags => f.payload # <<>> /\ f.payload[1].value < Len(f.payload)
Block(f) == SubSeq(f.payload, Before(f) + 1, Len(f.payload) - Behind(f))
Content(f) == SubSeq(f.payload, IF "PADDED" \in f.flags THEN 2 ELSE 1, Len(f.payload) - Behind(f))

\* acc: the session, the HEADERS whose block is under way and whether the
\* application takes it, whether the first frame has been seen
Stopped(acc) == acc.s.goaway # "none" \/ (acc.s.peerGone /\ acc.s.live \subseteq acc.s.closing)

BlockMeaning(acc, hd, bytes) ==
  LET final == "END_HEADERS" \in hd.flags
      got   == Inflate(acc.s, hd.stream, bytes, final, acc.take)
      rest  == Inflate(got.s, hd.stream, SubSeq(bytes, got.read + 1, Len(bytes)), final, FALSE)
      take  == acc.take /\ got.result = "ok"
      s     == IF got.result = "refused" THEN rest.s ELSE got.s
  IN  IF got.result = "broken" THEN [acc EXCEPT !.s = got.s]
      ELSE IF ~final THEN [acc EXCEPT !.s = s, !.open = {hd}, !.take = take]
      ELSE [acc EXCEPT !.s = IF take THEN AfterBlock(s, hd, acc.request) ELSE s, !.open = {}]

HeadersMeaning(acc, f) ==
  LET hd      == Header(f)
      process == ProcessHeaders(acc.s, hd)
  IN  IF ~WellPadded(f) \/ Before(f) > Len(f.payload) THEN [acc EXCEPT !.s = Terminate(@)]
      ELSE BlockMeaning([acc EXCEPT !.s = process.s, !.take = process.take,
                                    !.request = f.stream \notin acc.s.live], hd, Block(f))

DataMeaning(s, f) ==
  LET allowed == FailFast(s, f.stream)
      got     == TakeData(s, f.stream, Content(f))
  IN  IF ~allowed.take THEN allowed.s
      ELSE IF ~WellPadded(f) THEN Terminate(s)
      ELSE IF got.take THEN EndData(got.s, Header(f)) ELSE got.s

OneFrame(acc, f) ==
  LET hd == Header(f)
      becomes(s) == [acc EXCEPT !.s = s]
  IN  IF Stopped(acc) THEN acc
      ELSE IF acc.open # {}
      THEN LET open == CHOOSE h \in acc.open : TRUE
           IN  IF f.type # "CONTINUATION" \/ f.stream # open.stream THEN becomes(Terminate(acc.s))
               ELSE BlockMeaning(acc, [open EXCEPT !.flags = @ \cup (f.flags \cap {"END_HEADERS"})],
                                 f.payload)
      ELSE IF (acc.first /\ (f.type # "SETTINGS" \/ "ACK" \in f.flags))
              \/ hd.length > MaxFrameSize \/ ~SizeAllowed(hd) \/ f.type = "CONTINUATION"
      THEN becomes(Terminate(acc.s))
      ELSE LET a == [acc EXCEPT !.first = FALSE]
           IN CASE f.type \in {"HEADERS", "PUSH_PROMISE"} -> HeadersMeaning(a, f)
                [] f.type = "DATA"       -> [a EXCEPT !.s = DataMeaning(@, f)]
                [] f.type = "SETTINGS"   -> [a EXCEPT !.s = ProcessSettings(@, hd, Entries(f.payload))]
                [] f.type = "PING"       -> [a EXCEPT !.s = ProcessPing(@, hd)]
                [] f.type = "RST_STREAM" -> [a EXCEPT !.s = ProcessRst(@, f.stream)]
                [] f.type = "GOAWAY"     -> [a EXCEPT !.s = ProcessGoaway(@, hd)]
                [] f.type \in {"PRIORITY", "WINDOW_UPDATE"} -> [a EXCEPT !.s = ProcessOther(@, hd)]
                [] OTHER -> a

\* The session after these frames, or after those up to the end of the connection
Meaning(frames) ==
  FoldLeft(OneFrame, [s |-> NewSession, open |-> {}, take |-> FALSE,
                          request |-> FALSE, first |-> TRUE], frames)
=============================================================================
