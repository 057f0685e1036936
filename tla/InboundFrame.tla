---------------------------- MODULE InboundFrame -----------------------------
(***************************************************************************)
(* nghttp2_session_mem_recv: the connection is a sequence of bytes that the *)
(* socket hands over in pieces of any size, and every piece is worked off   *)
(* by a loop over the states of the inbound frame.  One action below is one *)
(* pass of that loop.  The peer sends one of Inputs, well-formed or not,    *)
(* and what the application is told has to be what FrameMeaning says of the *)
(* whole frames, wherever the pieces end.                                   *)
(***************************************************************************)
EXTENDS FrameMeaning

CONSTANTS
  MagicLength,    \* NGHTTP2_CLIENT_MAGIC_LEN, 24 bytes
  Inputs          \* what a peer may send: records [magic, frames]

ASSUME MagicAssumption == MagicLength \in Nat \ {0}

\* A sequence, whatever its elements are
IsSeq(x) == Len(x) \in Nat /\ x = [i \in 1..Len(x) |-> x[i]]

\* A peer may send frames of any type, flags, stream and length.  HEADERS name a stream of StreamIds
\* or none, and the payload of a frame that says it is padded begins with its Pad Length
ASSUME InputsAssumption ==
  \A input \in Inputs :
    /\ input.magic \in BOOLEAN /\ IsSeq(input.frames)
    /\ \A i \in DOMAIN input.frames :
         LET f == input.frames[i]
         IN  /\ f.type \in STRING /\ f.flags \subseteq STRING /\ f.stream \in Nat /\ IsSeq(f.payload)
             /\ f.type = "HEADERS" => f.stream \in StreamIds \cup {0}
             /\ f.type \in {"HEADERS", "PUSH_PROMISE", "DATA"} /\ "PADDED" \in f.flags /\ f.payload # <<>> =>
                  f.payload[1].kind = "pad" /\ f.payload[1].value \in Nat

VARIABLES
  sent,     \* what the peer of this connection sends
  wire,     \* the same as a sequence of bytes
  meaning,  \* and what it means
  at, last, \* in: the bytes read so far; last: the end of the current piece
  calling,  \* nghttp2_session_mem_recv is running
  iframe,   \* session->iframe
  s,        \* the rest of the session, as in FrameMeaning
  request,  \* frame.headers.cat = NGHTTP2_HCAT_REQUEST
  charged   \* bytes counted against the window of the connection

vars == <<sent, wire, meaning, at, last, calling, iframe, s, request, charged>>

Byte(kind, value) == [kind |-> kind, value |-> value]
Bytes(f) == [i \in 1..HeadLength |-> Byte("head", <<i, Header(f)>>)] \o f.payload
Magic(good) == [i \in 1..MagicLength |-> Byte("magic", good \/ i < MagicLength)]

\* session_inbound_frame_reset
NoHeader == [type |-> "none", flags |-> {}, stream |-> 0, length |-> 0]
ResetFrame == [state |-> "READ_HEAD", hd |-> NoHeader, payloadleft |-> 0, padlen |-> 0,
               sbuf |-> <<>>, mark |-> HeadLength, iv |-> <<>>, least |-> Unlimited]

Init ==
  /\ sent \in Inputs
  /\ wire = Magic(sent.magic) \o FlattenSeq([i \in DOMAIN sent.frames |-> Bytes(sent.frames[i])])
  /\ meaning = Meaning(IF sent.magic THEN sent.frames ELSE <<>>)
  /\ at = 0 /\ last = 0 /\ calling = FALSE
  /\ iframe = [ResetFrame EXCEPT !.state = "READ_CLIENT_MAGIC", !.payloadleft = MagicLength]
  /\ s = NewSession /\ request = FALSE
  /\ charged = 0

-----------------------------------------------------------------------------
(* The helpers.                                                             *)

Least(a, b) == IF a <= b THEN a ELSE b

\* inbound_frame_payload_readlen and inbound_frame_buf_read: how much this pass takes
PayloadReadLen == Least(last - at, iframe.payloadleft)
\* Mutant: the buffer takes the rest of the piece
BufReadAll == last - at
BufReadLen == Least(last - at, iframe.mark - Len(iframe.sbuf))

Taken(n) == SubSeq(wire, at + 1, at + n)

\* sbuf with what this pass takes, and without the bytes that are still to come
Filled == [iframe EXCEPT !.sbuf = @ \o Taken(BufReadLen)]
Incomplete == BufReadLen < iframe.mark - Len(iframe.sbuf)

SetMark(f, n) == [f EXCEPT !.sbuf = <<>>, !.mark = n]
In(f, state) == [f EXCEPT !.state = state]

\* Mutant: the flag alone, which HEADERS keeps while its CONTINUATION is read
TrailPadlenByFlag(f) == f.padlen - (IF "PADDED" \in f.hd.flags THEN 1 ELSE 0)
\* nghttp2_frame_trail_padlen: padlen counts the Pad Length byte itself
TrailPadlen(f) == IF f.padlen = 0 THEN 0 ELSE f.padlen - (IF "PADDED" \in f.hd.flags THEN 1 ELSE 0)

\* inbound_frame_compute_pad: -1 when there is more padding than payload
ComputePad(f) ==
  LET padlen == f.sbuf[1].value + 1
  IN  IF padlen - 1 > f.payloadleft THEN -1 ELSE padlen

\* Mutant: padding that began in an earlier piece is read as content
EffectiveReadLenOnce(f, left, readlen) ==
  LET padding == TrailPadlen(f) - left
  IN  IF padding <= 0 \/ readlen < padding THEN readlen ELSE readlen - padding
\* The bytes of this piece that are not padding, -1 when the padding began
\* before; left does not count the piece
EffectiveReadLen(f, left, readlen) ==
  LET padding == TrailPadlen(f) - left
  IN  IF padding <= 0 THEN readlen
      ELSE IF readlen < padding THEN -1
      ELSE readlen - padding

\* The header in sbuf; a reader that has lost its place sees no frame in it
UnpackHead(sbuf) ==
  IF \A i \in 1..HeadLength : sbuf[i].kind = "head" /\ sbuf[i].value = <<i, sbuf[1].value[2]>>
  THEN sbuf[1].value[2]
  ELSE [NoHeader EXCEPT !.type = "lost"]

\* One pass has taken n bytes.  The loop goes on while there is input, and
\* once more if the pass was busy: it left a state that needs no input
Pass(n, busy) ==
  /\ at' = at + n
  /\ calling' = (busy \/ at + n # last)
  /\ UNCHANGED <<sent, wire, meaning, last>>

\* return inlen: the piece is dropped
Drop == at' = last /\ calling' = FALSE /\ UNCHANGED <<sent, wire, meaning, last>>

Stays == UNCHANGED <<s, request, charged>>

InState(state) == calling /\ iframe.state = state

-----------------------------------------------------------------------------
(* The calls.                                                               *)

\* The socket hands over n bytes
Recv(n) ==
  /\ ~calling /\ at + n <= Len(wire)
  /\ last' = at + n
  /\ IF WantRead(s) THEN calling' = TRUE /\ UNCHANGED at
     ELSE at' = at + n /\ UNCHANGED calling
  /\ UNCHANGED <<sent, wire, meaning, iframe, s, request, charged>>

\* sessionSend after the call: the RST_STREAM go out, or the GOAWAY that ends
\* the session and drops them
SessionSend ==
  /\ ~calling
  /\ \/ s.goaway = "queued" /\ s' = [s EXCEPT !.goaway = "sent"]
     \/ s.goaway = "none" /\ s.closing # {} /\ s' = [s EXCEPT !.live = @ \ s.closing, !.closing = {}]
  /\ UNCHANGED <<sent, wire, meaning, at, last, calling, iframe, request, charged>>

-----------------------------------------------------------------------------
(* One pass of the loop in each state.                                      *)

\* A call that fails on the magic consumes nothing: the socket hands the
\* same bytes over again
ReadClientMagic ==
  /\ InState("READ_CLIENT_MAGIC")
  /\ LET n == PayloadReadLen
         left == iframe.payloadleft - n
     IN  IF \E i \in 1..n : Taken(n)[i] # Byte("magic", TRUE)
         THEN calling' = FALSE /\ UNCHANGED <<sent, wire, meaning, at, last, iframe>>
         ELSE /\ iframe' = IF left = 0 THEN In(ResetFrame, "READ_FIRST_SETTINGS")
                           ELSE [iframe EXCEPT !.payloadleft = left]
              /\ Pass(n, FALSE)
  /\ Stays

\* Mutant: a header block is ignored like any other payload
IgnPayloadOnly ==
  /\ InState("IGN_PAYLOAD")
  /\ LET n == PayloadReadLen
         left == iframe.payloadleft - n
     IN  /\ iframe' = IF left > 0 THEN [iframe EXCEPT !.payloadleft = left] ELSE ResetFrame
         /\ Pass(n, FALSE)
  /\ UNCHANGED <<s, request, charged>>
\* Ignored payloads: at the end of a header block that was not decoded the
\* inflater can never be right again
IgnPayload ==
  /\ InState("IGN_PAYLOAD")
  /\ LET n == PayloadReadLen
         left == iframe.payloadleft - n
     IN  /\ iframe' = IF left > 0 THEN [iframe EXCEPT !.payloadleft = left] ELSE ResetFrame
         /\ s' = IF left = 0 /\ iframe.hd.type \in {"HEADERS", "PUSH_PROMISE", "CONTINUATION"}
                 THEN [s EXCEPT !.bad = TRUE] ELSE s
         /\ Pass(n, FALSE)
  /\ UNCHANGED <<request, charged>>

IgnAll ==
  /\ InState("IGN_ALL")
  /\ Drop
  /\ UNCHANGED iframe /\ Stays

FrameSizeError ==
  /\ InState("FRAME_SIZE_ERROR")
  /\ s' = Terminate(s)
  /\ iframe' = In(iframe, "IGN_PAYLOAD")
  /\ Pass(0, TRUE)
  /\ UNCHANGED <<request, charged>>

\* The rest of a pass that ends with HEADERS or PUSH_PROMISE whose block comes next
BeginBlock(f, busyTaken) ==
  LET process == ProcessHeaders(s, f.hd)
  IN  /\ s' = process.s
      /\ request' = (f.hd.stream \notin s.live)
      /\ iframe' = In(f, IF process.take THEN "READ_HEADER_BLOCK" ELSE "IGN_HEADER_BLOCK")
      /\ Pass(busyTaken, TRUE)

Fails(f, state, n) ==
  /\ s' = Terminate(s)
  /\ iframe' = In(f, state)
  /\ Pass(n, TRUE)
  /\ UNCHANGED request

Continues(f, state, n, busy) ==
  /\ iframe' = In(f, state)
  /\ Pass(n, busy)
  /\ UNCHANGED <<s, request>>

HeadOfData(f, n) ==
  LET allowed == FailFast(s, f.hd.stream)
  IN  IF ~allowed.take
      THEN /\ s' = allowed.s /\ iframe' = In(f, "IGN_DATA") /\ Pass(n, TRUE)
           /\ UNCHANGED request
      ELSE IF "PADDED" \notin f.hd.flags THEN Continues(f, "READ_DATA", n, TRUE)
      ELSE IF f.hd.length < 1 THEN Fails(f, "IGN_DATA", n)
      ELSE Continues(SetMark(f, 1), "READ_PAD_DATA", n, TRUE)

HeadOfHeaders(f, n) ==
  IF "PADDED" \in f.hd.flags
  THEN IF f.hd.length < 1 THEN Fails(f, "IGN_PAYLOAD", n)
       ELSE Continues(SetMark(f, 1), "READ_NBYTE", n, FALSE)
  ELSE IF FixedFields(f.hd) = 0 THEN BeginBlock(f, n)
  ELSE IF f.payloadleft < FixedFields(f.hd) THEN Continues(f, "FRAME_SIZE_ERROR", n, TRUE)
  ELSE Continues(SetMark(f, FixedFields(f.hd)), "READ_NBYTE", n, FALSE)

HeadOfSettings(f, n) ==
  IF ~SizeAllowed(f.hd) THEN Continues(f, "FRAME_SIZE_ERROR", n, TRUE)
  ELSE IF f.payloadleft > 0 THEN Continues(SetMark(f, EntryLength), "READ_SETTINGS", n, FALSE)
  ELSE Continues(SetMark(f, 0), "READ_SETTINGS", n, TRUE)

\* How much of a frame of fixed layout is buffered before it is processed
FixedPart(type) ==
  CASE type = "PRIORITY" -> PriorityLength
    [] type \in {"RST_STREAM", "WINDOW_UPDATE"} -> WordLength
    [] type \in {"PING", "GOAWAY"} -> 2 * WordLength

\* READ_HEAD once the header is there: the type decides
Dispatch(hd, n) ==
  LET f == [iframe EXCEPT !.hd = hd, !.payloadleft = hd.length, !.sbuf = <<>>]
  IN  IF hd.length > MaxFrameSize THEN Fails(f, "IGN_PAYLOAD", n)
      ELSE CASE hd.type = "DATA"     -> HeadOfData(f, n)
             [] hd.type \in {"HEADERS", "PUSH_PROMISE"} -> HeadOfHeaders(f, n)
             [] hd.type = "SETTINGS" -> HeadOfSettings(f, n)
             [] hd.type \in {"PRIORITY", "RST_STREAM", "WINDOW_UPDATE", "PING", "GOAWAY"} ->
                  IF ~SizeAllowed(hd) THEN Continues(f, "FRAME_SIZE_ERROR", n, TRUE)
                  ELSE Continues(SetMark(f, FixedPart(hd.type)), "READ_NBYTE", n, FALSE)
             [] hd.type = "CONTINUATION" -> Fails(f, "IGN_PAYLOAD", n)
             [] OTHER -> Continues(f, "IGN_PAYLOAD", n, TRUE)

Wait == iframe' = Filled /\ Pass(BufReadLen, FALSE) /\ UNCHANGED <<s, request>>

\* Mutant: the loop does not leave while some of the frame head is missing
ReadHeadBusy ==
  /\ calling /\ iframe.state \in {"READ_HEAD", "READ_FIRST_SETTINGS"}
  /\ LET hd == UnpackHead(Filled.sbuf)
     IN  IF Incomplete THEN iframe' = Filled /\ Pass(BufReadLen, TRUE) /\ UNCHANGED <<s, request>>
         ELSE IF iframe.state = "READ_FIRST_SETTINGS" /\ (hd.type # "SETTINGS" \/ "ACK" \in hd.flags)
         THEN /\ s' = Terminate(s) /\ iframe' = In(Filled, "IGN_ALL") /\ Drop
              /\ UNCHANGED request
         ELSE Dispatch(hd, BufReadLen)
  /\ UNCHANGED charged
\* READ_FIRST_SETTINGS falls through to READ_HEAD with the same header
ReadHead ==
  /\ calling /\ iframe.state \in {"READ_HEAD", "READ_FIRST_SETTINGS"}
  /\ LET hd == UnpackHead(Filled.sbuf)
     IN  IF Incomplete THEN Wait
         ELSE IF iframe.state = "READ_FIRST_SETTINGS" /\ (hd.type # "SETTINGS" \/ "ACK" \in hd.flags)
         THEN /\ s' = Terminate(s) /\ iframe' = In(Filled, "IGN_ALL") /\ Drop
              /\ UNCHANGED request
         ELSE Dispatch(hd, BufReadLen)
  /\ UNCHANGED charged

\* READ_NBYTE, HEADERS and PUSH_PROMISE: first the Pad Length, then the priority or the
\* promised stream, then the block
NbyteOfHeaders(f, n) ==
  LET padlen == ComputePad(f)
      padded == [f EXCEPT !.padlen = padlen]
  IN  IF f.padlen # 0 \/ "PADDED" \notin f.hd.flags THEN BeginBlock(f, n)
      ELSE IF padlen < 0 THEN Fails(f, "IGN_PAYLOAD", n)
      ELSE IF FixedFields(f.hd) = 0 THEN BeginBlock(SetMark(padded, 0), n)
      ELSE IF f.payloadleft < FixedFields(f.hd) THEN Continues(padded, "FRAME_SIZE_ERROR", n, TRUE)
      ELSE Continues(SetMark(padded, FixedFields(f.hd)), "READ_NBYTE", n, FALSE)

Processed(t, n) == s' = t /\ iframe' = ResetFrame /\ Pass(n, FALSE) /\ UNCHANGED request

ReadNbyte ==
  /\ InState("READ_NBYTE")
  /\ LET n == BufReadLen
         f == [Filled EXCEPT !.payloadleft = @ - n]
     IN  IF Incomplete THEN iframe' = f /\ Pass(n, FALSE) /\ UNCHANGED <<s, request>>
         ELSE CASE f.hd.type \in {"HEADERS", "PUSH_PROMISE"} -> NbyteOfHeaders(f, n)
                [] f.hd.type = "RST_STREAM" -> Processed(ProcessRst(s, f.hd.stream), n)
                [] f.hd.type = "PING"       -> Processed(ProcessPing(s, f.hd), n)
                [] f.hd.type = "GOAWAY"     -> Continues(f, "READ_GOAWAY_DEBUG", n, TRUE)
                [] OTHER                    -> Processed(ProcessOther(s, f.hd), n)
  /\ UNCHANGED charged

ReadGoawayDebug ==
  /\ InState("READ_GOAWAY_DEBUG")
  /\ LET n == PayloadReadLen
         left == iframe.payloadleft - n
     IN  IF left > 0 THEN Continues([iframe EXCEPT !.payloadleft = left], iframe.state, n, FALSE)
         ELSE Processed(ProcessGoaway(s, iframe.hd), n)
  /\ UNCHANGED charged

\* inbound_frame_set_settings_entry: a known identifier keeps its place in the
\* list and takes the new value; the least size of the table is kept apart
SetSettingsEntry(f, entry) ==
  LET places == {i \in DOMAIN f.iv : f.iv[i][1] = entry[1]}
      iv     == IF places = {} \/ entry[1] = "UNKNOWN" THEN Append(f.iv, entry)
                ELSE [i \in DOMAIN f.iv |-> IF i \in places THEN entry ELSE f.iv[i]]
      least  == IF entry[1] = "HEADER_TABLE_SIZE" /\ entry[2] < f.least
                THEN entry[2] ELSE f.least
  IN  [f EXCEPT !.iv = iv, !.least = least]

\* session_process_settings_frame: the least size goes first, the value that
\* stays is moved to the end
WithLeast(f) ==
  LET at1 == CHOOSE i \in DOMAIN f.iv : f.iv[i][1] = "HEADER_TABLE_SIZE"
  IN  IF f.least = Unlimited \/ f.least = f.iv[at1][2] THEN f.iv
      ELSE Append([f.iv EXCEPT ![at1] = <<"HEADER_TABLE_SIZE", f.least>>], f.iv[at1])

ReadSettings ==
  /\ InState("READ_SETTINGS")
  /\ LET n == BufReadLen
         f == [Filled EXCEPT !.payloadleft = @ - n]
         g == IF n > 0 THEN SetSettingsEntry(f, f.sbuf[Len(f.sbuf)].value) ELSE f
     IN  IF Incomplete THEN Continues(f, f.state, n, FALSE)
         ELSE IF g.payloadleft > 0 THEN Continues(SetMark(g, EntryLength), g.state, n, FALSE)
         ELSE Processed(ProcessSettings(s, g.hd, WithLeast(g)), n)
  /\ UNCHANGED charged

\* The block has been read to the end of the frame
EndOfBlock(f, t, n) ==
  /\ IF "END_HEADERS" \in f.hd.flags
     THEN /\ iframe' = ResetFrame
          /\ s' = IF f.state = "READ_HEADER_BLOCK" THEN AfterBlock(t, f.hd, request) ELSE t
     ELSE /\ iframe' = In([SetMark(f, HeadLength) EXCEPT !.padlen = 0],
                          IF f.state = "READ_HEADER_BLOCK" THEN "EXPECT_CONTINUATION"
                          ELSE "IGN_CONTINUATION")
          /\ s' = t
  /\ Pass(n, FALSE)

\* A piece of a header block, the padding behind it left out
HeaderBlock ==
  /\ calling /\ iframe.state \in {"READ_HEADER_BLOCK", "IGN_HEADER_BLOCK"}
  /\ LET n     == PayloadReadLen
         left  == iframe.payloadleft - n
         f     == [iframe EXCEPT !.payloadleft = left]
         read  == EffectiveReadLen(iframe, left, n)
         final == /\ "END_HEADERS" \in f.hd.flags
                  /\ iframe.payloadleft - read = TrailPadlen(iframe)
         got   == Inflate(s, f.hd.stream, Taken(IF read < 0 THEN 0 ELSE read), final,
                          f.state = "READ_HEADER_BLOCK")
         decodes == read > 0 \/ (read = 0 /\ final)
     IN  IF decodes /\ got.result = "refused"
         THEN /\ iframe' = In([iframe EXCEPT !.payloadleft = @ - got.read], "IGN_HEADER_BLOCK")
              /\ s' = AddRst(got.s, f.hd.stream)
              /\ Pass(got.read, TRUE)
         ELSE IF decodes /\ got.result = "broken"
         THEN /\ iframe' = IF left = 0 THEN ResetFrame ELSE In(f, "IGN_PAYLOAD")
              /\ s' = got.s
              /\ Pass(n, left > 0)
         ELSE LET t == IF decodes THEN got.s ELSE s
              IN  IF left > 0 THEN iframe' = f /\ s' = t /\ Pass(n, FALSE)
                  ELSE EndOfBlock(f, t, n)
  /\ UNCHANGED <<request, charged>>

\* Mutant: a block goes on as it is read, whether it was ignored or not
ResumedAlways(state) == "READ_HEADER_BLOCK"
Resumed(state) == IF state = "EXPECT_CONTINUATION" THEN "READ_HEADER_BLOCK" ELSE "IGN_HEADER_BLOCK"

\* Nothing but the CONTINUATION of the same stream may come between
ReadContinuation ==
  /\ calling /\ iframe.state \in {"EXPECT_CONTINUATION", "IGN_CONTINUATION"}
  /\ LET cont == UnpackHead(Filled.sbuf)
         f    == [Filled EXCEPT !.payloadleft = cont.length]
     IN  IF Incomplete THEN Wait
         ELSE IF cont.type # "CONTINUATION" \/ cont.stream # iframe.hd.stream
         THEN Fails(f, "IGN_PAYLOAD", BufReadLen)
         ELSE Continues([f EXCEPT !.hd.flags = @ \cup (cont.flags \cap {"END_HEADERS"}),
                                  !.hd.length = @ + cont.length],
                        Resumed(f.state), BufReadLen, TRUE)
  /\ UNCHANGED charged

\* The Pad Length of DATA counts against the windows, too
ReadPadData ==
  /\ InState("READ_PAD_DATA")
  /\ LET n == BufReadLen
         f == [Filled EXCEPT !.payloadleft = @ - n]
         padlen == ComputePad(f)
     IN  IF Incomplete THEN iframe' = f /\ Pass(n, FALSE) /\ UNCHANGED <<s, request, charged>>
         ELSE /\ charged' = charged + n
              /\ IF padlen < 0 THEN Fails(f, "IGN_DATA", n)
                 ELSE Continues([f EXCEPT !.padlen = padlen], "READ_DATA", n, TRUE)

ReadData ==
  /\ InState("READ_DATA")
  /\ LET id   == iframe.hd.stream
         n    == PayloadReadLen
         left == iframe.payloadleft - n
         f    == [iframe EXCEPT !.payloadleft = left]
         read == EffectiveReadLen(iframe, left, n)
         got  == TakeData(s, id, Taken(IF read < 0 THEN 0 ELSE read))
     IN  IF id \notin s.live
         THEN Continues(iframe, "IGN_DATA", 0, TRUE) /\ UNCHANGED charged
         ELSE /\ charged' = charged + n
              /\ IF ~got.take
                 THEN iframe' = In(f, "IGN_DATA") /\ s' = got.s /\ Pass(n, TRUE) /\ UNCHANGED request
                 ELSE IF left > 0 THEN iframe' = f /\ s' = got.s /\ Pass(n, FALSE) /\ UNCHANGED request
                 ELSE Processed(EndData(got.s, iframe.hd), n)

\* Mutant: what is ignored is not counted
IgnDataFree ==
  /\ InState("IGN_DATA")
  /\ LET n == PayloadReadLen
         left == iframe.payloadleft - n
     IN  /\ UNCHANGED charged
         /\ iframe' = IF left > 0 THEN [iframe EXCEPT !.payloadleft = left] ELSE ResetFrame
         /\ Pass(n, FALSE)
  /\ UNCHANGED <<s, request>>
IgnData ==
  /\ InState("IGN_DATA")
  /\ LET n == PayloadReadLen
         left == iframe.payloadleft - n
     IN  /\ charged' = charged + n
         /\ iframe' = IF left > 0 THEN [iframe EXCEPT !.payloadleft = left] ELSE ResetFrame
         /\ Pass(n, FALSE)
  /\ UNCHANGED <<s, request>>

Step ==
  \/ ReadClientMagic \/ ReadHead \/ ReadNbyte \/ ReadGoawayDebug \/ ReadSettings
  \/ HeaderBlock \/ ReadContinuation \/ ReadPadData \/ ReadData \/ IgnData
  \/ IgnPayload \/ IgnAll \/ FrameSizeError

Next ==
  \/ \E n \in 1..Len(wire) : Recv(n)
  \/ SessionSend
  \/ Step

Spec == Init /\ [][Next]_vars

\* The loop of a call is never left alone: Step is what mem_recv does
FairSpec == Spec /\ WF_vars(Step)

-----------------------------------------------------------------------------
(* Properties.                                                              *)

TypeOK ==
  /\ at \in 0..last /\ last \in 0..Len(wire)
  /\ calling \in BOOLEAN /\ request \in BOOLEAN /\ charged \in 0..Len(wire)
  /\ iframe.payloadleft \in Nat /\ iframe.padlen \in Nat
  /\ Len(iframe.sbuf) <= iframe.mark
  /\ iframe.mark \in {0, 1, HeadLength, PriorityLength, EntryLength, WordLength, 2 * WordLength}
  /\ s.closing \subseteq s.live /\ s.live \subseteq StreamIds

\* Content of a stream that is reset may have been handed over or not: the
\* pieces decide, and the application drops it anyway
Resets(events) == {events[i][2] : i \in {j \in DOMAIN events : events[j][1] = "reset"}}
Told(events) ==
  LET lost == Resets(meaning.s.events) \cup Resets(events)
  IN  SelectSeq(events, LAMBDA e : ~(e[1] = "data" /\ e[2] \in lost))

\* However the connection is cut into pieces, the application is told what
\* the frames mean, in their order, and nothing else: all of it as soon as
\* the last byte is read, with no frame left in the reader (a pass that is
\* busy when it should not be, or not when it should, shows here).  Past the
\* error that ends the connection the meaning says nothing.
PiecesDoNotMatter ==
  LET told == Told(s.events)
      meant == Told(meaning.s.events)
  IN  /\ IsPrefix(told, meant) \/ (Stopped(meaning) /\ IsPrefix(meant, told))
      /\ ~calling /\ at = Len(wire) => IsPrefix(meant, told)

\* The bytes of the first k frames of the connection
EndOf(k) ==
  LET end[i \in 0..k] == IF i = 0 THEN MagicLength
                         ELSE end[i - 1] + HeadLength + Len(sent.frames[i].payload)
  IN  end[k]
NothingDropped == sent.magic /\ s.goaway # "sent" /\ WantRead(s) /\ iframe.state # "IGN_ALL"

\* Both ends of the header compression must have seen the same bytes, or
\* every later request decodes to something else.  Between two frames the
\* inflater has decoded every header block so far, those of ignored, refused
\* and reset streams included and no padding or priority field with them, or
\* it has been marked bad.
BlocksDecoded ==
  \A k \in 0..Len(sent.frames) :
    at = EndOf(k) /\ ~calling /\ NothingDropped =>
      \/ s.bad
      \/ s.inflated = FlattenSeq([i \in 1..k |->
                         CASE sent.frames[i].type \in {"HEADERS", "PUSH_PROMISE"} -> Block(sent.frames[i])
                           [] sent.frames[i].type = "CONTINUATION" -> sent.frames[i].payload
                           [] OTHER -> <<>>])

\* The peer takes every byte of a DATA payload from the connection's window,
\* the Pad Length, the padding and what the server ignores included.  While
\* the connection is well the server has counted as many, in every split.
ContentCharged ==
  ~calling /\ NothingDropped /\ s.goaway = "none" =>
    charged = Cardinality(UNION {EndOf(k - 1) + HeadLength + 1..Least(at, EndOf(k)) :
                                   k \in {j \in 1..Len(sent.frames) : sent.frames[j].type = "DATA"}})

\* "Adding RST_STREAM here is very important.  It prevents from invoking
\* subsequent callbacks for the same stream ID" (inflate_header_block): once a
\* stream is to be reset the application hears no more of its messages.
ResetIsFinal ==
  \A i, j \in DOMAIN s.events :
    i < j /\ s.events[i][1] = "reset" =>
      ~(s.events[j][1] \in {"begin", "header", "data", "HEADERS", "DATA"} /\ s.events[j][2] = s.events[i][2])

\* The application hears nothing of a stream that is to be reset, nor of anything once the
\* GOAWAY that ends the session is out (nghttp2_session.c:3610, 5307, 6575).
HeardNoMore == [][ResetIsFinal' /\ (s.goaway = "sent" => s'.events = s.events)]_vars

\* A call comes back: no state keeps the loop busy without reading.  Fairness
\* is that of the loop itself.
CallReturns == calling ~> ~calling

\* The reader's counts are right: of what is left of the frame, of what it has buffered, and of
\* what the windows are charged with (nghttp2_session.c:5247, 6290).
CountsRight == TypeOK /\ ContentCharged
=============================================================================
