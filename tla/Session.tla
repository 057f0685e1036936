------------------------------- MODULE Session -------------------------------
(***************************************************************************)
(* One nghttp2 server session as Kitura drives it: nghttp2_session_mem_recv *)
(* on each buffer the socket delivers, nghttp2_session_send after it, and   *)
(* nghttp2_submit_response followed by nghttp2_session_send whenever the    *)
(* application has an answer, be it inside a callback of mem_recv or later. *)
(*                                                                         *)
(* The peer sends any frame at any time; a HEADERS or DATA frame may be cut *)
(* by the end of a buffer, and then frames are sent in the middle of it.    *)
(* Sending one frame is one step, because the send callback writes the      *)
(* whole frame and never blocks.  Which of several ready DATA items is next *)
(* is left open here.                                                       *)
(***************************************************************************)
EXTENDS StreamTable

CONSTANTS
  MaxConcurrent,   \* the SETTINGS_MAX_CONCURRENT_STREAMS the server announces
  InitialWindow,   \* 65535, the windows of a new connection
  MaxChunk,        \* bytes in one DATA frame at most
  WindowSizes,     \* values of SETTINGS_INITIAL_WINDOW_SIZE the peer sends
  Increments,      \* increments of the WINDOW_UPDATE frames the peer sends
  Inputs,          \* the kinds of frames, and of failures, that occur
  MaxFrames,       \* bound: frames the peer sends
  BodySizes        \* lengths of response bodies

ASSUME MaxConcurrentAssumption ==
  MaxConcurrent \in Nat \ {0} /\ MaxConcurrent < DefaultMax
ASSUME WindowAssumption ==
  /\ InitialWindow \in 0 .. MaxWindow
  /\ WindowSizes \subseteq Nat
  /\ Increments \subseteq 0 .. MaxWindow
ASSUME ResponseAssumption == MaxChunk \in Nat \ {0} /\ BodySizes \subseteq Nat
ASSUME MaxFramesAssumption == MaxFrames \in Nat

VARIABLES
  tbl,        \* streams, closed and idle lists, num_incoming_streams
  connWin,    \* session->remote_window_size
  initWin,    \* remote_settings.initial_window_size
  lastRecv,   \* last_recv_stream_id
  lastProc,   \* last_proc_stream_id
  goaway,     \* goaway_flags
  localMax,   \* local_settings.max_concurrent_streams
  pendingMax, \* pending_local_max_concurrent_stream
  inflight,   \* inflight_settings_head is not NULL
  obUrgent,   \* the queue of SETTINGS and PING frames
  obReg,      \* the queue of all other frames but DATA
  iframe,     \* session->iframe, the inbound frame being read
  frames,     \* number of frames the peer has begun
  pc,         \* where the thread of control is
  ret,        \* where nghttp2_session_send returns to
  held,       \* the frame whose on_frame_recv callback is running
  sendOK,     \* whether the last nghttp2_session_send returned 0
  left,       \* bytes the data provider of each stream still has
  out,        \* history: what was sent on each stream
  delivered,  \* history: streams whose whole request the application got
  answered,   \* history: streams a response was submitted for
  refused,    \* history: streams reset with REFUSED_STREAM
  goneLast    \* history: last_stream_id of the GOAWAY sent, or -1

flow == <<connWin, initWin>>
ids == <<lastRecv, lastProc>>
limits == <<localMax, pendingMax, inflight>>
queues == <<obUrgent, obReg>>
input == <<iframe, frames>>
control == <<pc, ret, held, sendOK>>
response == <<left, out, answered>>
history == <<delivered, refused, goneLast>>

vars == <<tbl, flow, ids, goaway, limits, queues, input, control, response, history>>

StreamOrNone == StreamIds \cup {0}
Rst(s) == [f |-> "RST_STREAM", s |-> s]
Headers(s) == [f |-> "HEADERS", s |-> s]
Goaway(s) == [f |-> "GOAWAY", s |-> s]
OutFrame == [f : {"RST_STREAM", "HEADERS"}, s : StreamIds]
              \cup [f : {"GOAWAY"}, s : StreamOrNone]

NoFrame == [k |-> "none", s |-> 0, es |-> FALSE, trailer |-> FALSE]
FirstSettings == [NoFrame EXCEPT !.k = "first"]
IgnoreAll == [NoFrame EXCEPT !.k = "ignoreAll"]
IgnoredHeaders == [NoFrame EXCEPT !.k = "ignoredHeaders"]
HeadersFrame(s, es, tr) == [k |-> "HEADERS", s |-> s, es |-> es, trailer |-> tr]
DataFrame(s, es) == [k |-> "DATA", s |-> s, es |-> es, trailer |-> FALSE]
NoHeld == [s |-> 0, es |-> FALSE]

TypeOK ==
  /\ tbl \in Table
  /\ connWin \in Int /\ initWin \in 0 .. MaxWindow
  /\ lastRecv \in StreamOrNone /\ lastProc \in StreamOrNone
  /\ goaway \subseteq {"TERM_ON_SEND", "TERM_SENT", "SENT", "RECV"}
  /\ localMax \in {MaxConcurrent, DefaultMax} /\ pendingMax \in {MaxConcurrent, DefaultMax}
  /\ inflight \in BOOLEAN
  /\ obUrgent \in Seq({"SETTINGS", "ACK", "PING"})
  /\ obReg \in Seq(OutFrame)
  /\ iframe \in [k : {"none", "first", "ignoreAll", "ignoredHeaders", "HEADERS", "DATA"},
                 s : StreamOrNone, es : BOOLEAN, trailer : BOOLEAN]
  /\ frames \in 0 .. MaxFrames
  /\ pc \in {"start", "idle", "recv", "callback", "send"}
  /\ ret \in {"idle", "callback"}
  /\ held \in [s : StreamOrNone, es : BOOLEAN]
  /\ sendOK \in BOOLEAN
  /\ left \in [StreamIds -> Nat]
  /\ out \in [StreamIds -> [hdr : Nat, body : Nat, fin : Nat, rst : Nat]]
  /\ delivered \subseteq StreamIds /\ answered \subseteq StreamIds
  /\ refused \subseteq StreamIds
  /\ goneLast \in StreamOrNone \cup {-1}

\* nghttp2_session_server_new without options
Init ==
  /\ tbl = EmptyTable
  /\ connWin = InitialWindow /\ initWin = InitialWindow
  /\ lastRecv = 0 /\ lastProc = 0
  /\ goaway = {}
  /\ localMax = DefaultMax /\ pendingMax = DefaultMax /\ inflight = FALSE
  /\ obUrgent = << >> /\ obReg = << >>
  /\ iframe = FirstSettings /\ frames = 0
  /\ pc = "start" /\ ret = "idle" /\ held = NoHeld /\ sendOK = TRUE
  /\ left = [s \in StreamIds |-> 0]
  /\ out = [s \in StreamIds |-> [hdr |-> 0, body |-> 0, fin |-> 0, rst |-> 0]]
  /\ delivered = {} /\ answered = {} /\ refused = {} /\ goneLast = -1

-----------------------------------------------------------------------------
(* The session's predicates. *)

\* nghttp2_session_want_read
WantRead(t, g) ==
  /\ "TERM_SENT" \notin g
  /\ NumActive(t) > 0 \/ g \cap {"SENT", "RECV"} = {}

\* nghttp2_session_want_write; the tree's queue holds the active DATA items
WantWrite(t, g, urgent, reg) ==
  /\ "TERM_SENT" \notin g
  /\ \/ urgent # << >> \/ reg # << >>
     \/ connWin > 0 /\ \E s \in StreamIds : t.strm[s].item = "active"

\* session_is_closing
IsClosing(t, g, urgent, reg) ==
  "TERM_ON_SEND" \in g \/ (~WantRead(t, g) /\ ~WantWrite(t, g, urgent, reg))

\* Mutant: only a GOAWAY on the wire stops new streams, not one in the queue
AllowUntilSent == "SENT" \notin goaway

AllowIncomingNewStream == goaway \cap {"TERM_ON_SEND", "SENT"} = {}

-----------------------------------------------------------------------------
(* Steps shared by the frame handlers. *)

\* session_terminate_session: queue the GOAWAY that ends the session, once
Terminate ==
  /\ goaway' = goaway \cup {"TERM_ON_SEND"}
  /\ obReg' = IF "TERM_ON_SEND" \in goaway THEN obReg ELSE Append(obReg, Goaway(lastProc))

\* The frame half of nghttp2_session_add_rst_stream: none is queued for a
\* stream that is being reset already
RstItem(t, s) ==
  IF Live(t, s) /\ t.strm[s].st = "CLOSING" THEN << >> ELSE << Rst(s) >>

AddRst(s) ==
  /\ tbl' = MarkClosing(tbl, s)
  /\ obReg' = obReg \o RstItem(tbl, s)

\* nghttp2_session_send is entered and will return to r; mem_send_internal
\* trims the idle list to the cap before it pops a frame
EnterSend(t, r, cap) ==
  /\ pc' = "send" /\ ret' = r
  /\ tbl' = AdjustIdle(t, cap)
  /\ sendOK' = TRUE

\* The peer begins a frame of kind k
Begins(k) ==
  /\ pc = "recv" /\ iframe.k = "none"
  /\ k \in Inputs /\ frames < MaxFrames
  /\ frames' = frames + 1

\* A frame that is whole in one step, and after which another is read
Single(k) == Begins(k) /\ iframe' = NoFrame /\ UNCHANGED control

-----------------------------------------------------------------------------
(* The connection preface. *)

\* nghttp2_session_upgrade2: the request that asked for the upgrade becomes
\* stream 1, half closed; its HTTP2-Settings are applied and not acknowledged.
\* A window size out of range queues the GOAWAY and opens the stream all the same.
Upgrade(w) ==
  /\ pc = "start" /\ delivered = {} /\ 1 \in StreamIds
  /\ \/ w <= MaxWindow /\ initWin' = w /\ UNCHANGED <<goaway, obReg>>
     \/ w > MaxWindow /\ Terminate /\ UNCHANGED initWin
  /\ tbl' = ShutRd(OpenIncoming(tbl, 1, initWin'), 1)
  /\ lastRecv' = 1 /\ lastProc' = 1
  /\ delivered' = {1}
  /\ UNCHANGED <<connWin, limits, obUrgent, input, control, response, refused, goneLast>>

\* nghttp2_session_upgrade2 rejects HTTP2-Settings whose length is no multiple of six
\* and opens no stream; its result is not looked at, and the application gets the
\* request, as stream 1, all the same
UpgradeRejected ==
  /\ pc = "start" /\ delivered = {} /\ 1 \in StreamIds
  /\ "BAD_UPGRADE" \in Inputs
  /\ delivered' = {1}
  /\ UNCHANGED <<tbl, flow, ids, goaway, limits, queues, input, control, response,
                 refused, goneLast>>

\* sendServerConnectionHeader: submit the server's SETTINGS and send
ServerPreface ==
  /\ pc = "start"
  /\ obUrgent' = Append(obUrgent, "SETTINGS")
  /\ inflight' = TRUE /\ pendingMax' = MaxConcurrent
  /\ EnterSend(tbl, "idle", IdleMax(localMax, MaxConcurrent))
  /\ UNCHANGED <<flow, ids, goaway, localMax, obReg, input, held, response, history>>

-----------------------------------------------------------------------------
(* nghttp2_session_mem_recv. *)

\* A buffer arrives; nothing of it is read once the session is finished
StartRecv ==
  /\ pc = "idle"
  /\ LET cap == IdleMax(localMax, pendingMax)
         t   == AdjustIdle(tbl, cap)
     IN  IF WantRead(t, goaway)
         THEN pc' = "recv" /\ tbl' = t /\ UNCHANGED <<ret, sendOK>>
         ELSE EnterSend(t, "idle", cap)
  /\ UNCHANGED <<flow, ids, goaway, limits, queues, input, held, response, history>>

\* The buffer is used up, perhaps in the middle of a frame
BufferEnd ==
  /\ pc = "recv"
  /\ EnterSend(tbl, "idle", IdleMax(localMax, pendingMax))
  /\ UNCHANGED <<flow, ids, goaway, limits, queues, input, held, response, history>>

\* Any frame but SETTINGS in first place: the rest of the input is ignored
RecvNoSettings ==
  /\ pc = "recv" /\ iframe.k = "first" /\ frames < MaxFrames
  /\ frames' = frames + 1 /\ iframe' = IgnoreAll
  /\ Terminate
  /\ UNCHANGED <<tbl, flow, ids, limits, obUrgent, control, response, history>>

\* A frame that is malformed, or on a stream where it may not be: the many
\* callers of session_terminate_session that look at the frame alone
RecvInvalid ==
  /\ Single("INVALID")
  /\ Terminate
  /\ UNCHANGED <<tbl, flow, ids, limits, obUrgent, response, history>>

-----------------------------------------------------------------------------
(* HEADERS.  The header block may be cut by the end of the buffer, so that   *)
(* its begin and its end are two steps.                                      *)

\* Mutant: one stream too many
IncomingFullLate(max) == max < tbl.nIncoming

\* session_is_incoming_concurrent_streams_max and .._pending_max
IncomingFull(max) == max <= tbl.nIncoming

\* The tests of nghttp2_session_on_request_headers_received, in their order,
\* on a request for stream s that depends on stream d
RequestVerdict(s, d) ==
  IF ~IsNewPeerStream(s, lastRecv)
  THEN IF IsMine(s) \/ tbl.strm[s].rd THEN "terminate" ELSE "ignore"
  ELSE IF IncomingFull(localMax) THEN "terminate"
  ELSE IF ~AllowIncomingNewStream THEN "ignore"
  ELSE IF d = s THEN "terminate"
  ELSE IF IncomingFull(pendingMax) THEN "refuse"
  ELSE "open"

\* Mutant: only an accepted identifier is recorded
RecordAccepted(s) == lastRecv' = IF RequestVerdict(s, 0) = "open" THEN s ELSE lastRecv

\* Mutant: no identifier is recorded
RecordNothing(s) == lastRecv' = lastRecv

\* A new identifier is recorded whatever becomes of the request
RecordId(s) == lastRecv' = IF IsNewPeerStream(s, lastRecv) THEN s ELSE lastRecv

OpenRequest(s, es, d) ==
  LET anchored == AnchorDependency(tbl, d, initWin, s)
      opened   == OpenIncoming(anchored, s, initWin)
  IN  /\ RequestVerdict(s, d) = "open"
      /\ iframe' = HeadersFrame(s, es, FALSE)
      /\ tbl' = AdjustClosed(opened, RetainMax(localMax, pendingMax))
      /\ lastProc' = s
      /\ UNCHANGED <<goaway, obReg, refused>>

RefuseRequest(s, d) ==
  /\ RequestVerdict(s, d) = "refuse"
  /\ iframe' = IgnoredHeaders
  /\ AddRst(s)
  /\ refused' = refused \cup {s}
  /\ UNCHANGED <<lastProc, goaway>>

BadRequest(s, d) ==
  /\ RequestVerdict(s, d) = "terminate"
  /\ iframe' = IgnoredHeaders
  /\ Terminate
  /\ UNCHANGED <<tbl, lastProc, refused>>

IgnoreRequest(s, d) ==
  /\ RequestVerdict(s, d) = "ignore"
  /\ iframe' = IgnoredHeaders
  /\ UNCHANGED <<tbl, lastProc, goaway, obReg, refused>>

RecvRequest(s, es, d) ==
  /\ Begins("HEADERS")
  /\ ~Live(tbl, s)
  /\ RecordId(s)
  /\ \/ OpenRequest(s, es, d)
     \/ RefuseRequest(s, d)
     \/ BadRequest(s, d)
     \/ IgnoreRequest(s, d)
  /\ UNCHANGED <<flow, limits, obUrgent, control, response, delivered, goneLast>>

\* nghttp2_session_on_headers_received: HEADERS on a live stream are trailers
RecvTrailers(s, es) ==
  /\ Begins("HEADERS")
  /\ Live(tbl, s)
  /\ \/ /\ tbl.strm[s].rd
        /\ iframe' = IgnoredHeaders /\ Terminate
     \/ /\ ~tbl.strm[s].rd /\ tbl.strm[s].st = "CLOSING"
        /\ iframe' = IgnoredHeaders /\ UNCHANGED <<goaway, obReg>>
     \/ /\ ~tbl.strm[s].rd /\ tbl.strm[s].st # "CLOSING"
        /\ iframe' = HeadersFrame(s, es, TRUE) /\ UNCHANGED <<goaway, obReg>>
  /\ UNCHANGED <<tbl, flow, ids, limits, obUrgent, control, response, history>>

\* The stream of the frame being read, as session_after_header_block_received
\* and nghttp2_session_on_data_received look for it
FrameStreamOpen == Live(tbl, iframe.s) /\ tbl.strm[iframe.s].st # "CLOSING"

\* Mutant: the stream is not closed when its second direction shuts
EndStreamOpen(t, s, es) == IF es THEN ShutRd(t, s) ELSE t

\* END_STREAM of the frame takes effect on stream s
EndStream(t, s, es) == IF es THEN CloseIfShut(ShutRd(t, s), s) ELSE t

\* Mutant: END_STREAM takes effect before the application is called
FrameDeliveredEarly ==
  /\ pc = "recv" /\ iframe.k \in {"HEADERS", "DATA"} /\ FrameStreamOpen
  /\ iframe.trailer => iframe.es
  /\ pc' = "callback" /\ held' = [s |-> iframe.s, es |-> iframe.es]
  /\ iframe' = NoFrame
  /\ tbl' = EndStream(tbl, iframe.s, iframe.es)
  /\ delivered' = IF iframe.es THEN delivered \cup {iframe.s} ELSE delivered
  /\ UNCHANGED <<flow, ids, goaway, limits, queues, frames, ret, sendOK, response,
                 refused, goneLast>>

\* The header block, or the payload, is complete and correct: on_frame_recv runs
FrameDelivered ==
  /\ pc = "recv" /\ iframe.k \in {"HEADERS", "DATA"} /\ FrameStreamOpen
  /\ iframe.trailer => iframe.es
  /\ pc' = "callback" /\ held' = [s |-> iframe.s, es |-> iframe.es]
  /\ iframe' = NoFrame
  /\ delivered' = IF iframe.es THEN delivered \cup {iframe.s} ELSE delivered
  /\ UNCHANGED <<tbl, flow, ids, goaway, limits, queues, frames, ret, sendOK, response,
                 refused, goneLast>>

\* on_frame_recv returns: END_STREAM is applied to the stream the handler found
\* before it called the application
CallbackReturns ==
  /\ pc = "callback"
  /\ tbl' = EndStream(tbl, held.s, held.es)
  /\ held' = NoHeld /\ pc' = "recv"
  /\ UNCHANGED <<flow, ids, goaway, limits, queues, input, ret, sendOK, response, history>>

\* The message as a whole is malformed (a missing pseudo header, trailers without
\* END_STREAM, a body shorter than content-length): the stream is reset, the
\* application not called, and END_STREAM still honoured
FrameViolatesMessaging ==
  /\ pc = "recv" /\ iframe.k \in {"HEADERS", "DATA"} /\ FrameStreamOpen
  /\ iframe.k = "DATA" => iframe.es
  /\ tbl' = EndStream(MarkClosing(tbl, iframe.s), iframe.s, iframe.es)
  /\ obReg' = obReg \o RstItem(tbl, iframe.s)
  /\ iframe' = NoFrame
  /\ UNCHANGED <<flow, ids, goaway, limits, obUrgent, frames, control, response, history>>

\* An invalid header field, or a DATA chunk beyond content-length: the stream is
\* reset in the middle of the frame and the rest of the frame ignored
FrameAborted ==
  /\ pc = "recv" /\ iframe.k \in {"HEADERS", "DATA"} /\ Live(tbl, iframe.s)
  /\ AddRst(iframe.s)
  /\ iframe' = IF iframe.k = "HEADERS" THEN IgnoredHeaders ELSE NoFrame
  /\ UNCHANGED <<flow, ids, goaway, limits, obUrgent, frames, control, response, history>>

\* A frame that ends without effect: its header block was ignored, or its stream
\* was closed or reset while it was being read
FrameIgnored ==
  /\ pc = "recv"
  /\ \/ iframe.k = "ignoredHeaders"
     \/ iframe.k \in {"HEADERS", "DATA"} /\ ~FrameStreamOpen
  /\ iframe' = NoFrame
  /\ UNCHANGED <<tbl, flow, ids, goaway, limits, queues, frames, control, response, history>>

\* The header block does not decode: the connection is over, and a stream whose
\* headers were being read is reset first, so that it gets no callback
CompressionError ==
  /\ pc = "recv" /\ iframe.k \in {"HEADERS", "ignoredHeaders"}
  /\ LET s     == iframe.s
         reset == iframe.k = "HEADERS" /\ FrameStreamOpen
         reg   == IF reset THEN Append(obReg, Rst(s)) ELSE obReg
     IN  /\ tbl' = IF reset THEN MarkClosing(tbl, s) ELSE tbl
         /\ goaway' = goaway \cup {"TERM_ON_SEND"}
         /\ obReg' = IF "TERM_ON_SEND" \in goaway THEN reg ELSE Append(reg, Goaway(lastProc))
  /\ iframe' = NoFrame
  /\ UNCHANGED <<flow, ids, limits, obUrgent, frames, control, response, history>>

-----------------------------------------------------------------------------
(* DATA and the frames that are whole in one step. *)

\* session_on_data_received_fail_fast
DataVerdict(s) ==
  IF DetectIdle(s, lastRecv) THEN "terminate"
  ELSE IF tbl.strm[s].rd THEN "terminate"
  ELSE IF ~Live(tbl, s) \/ tbl.strm[s].st = "CLOSING" THEN "ignore"
  ELSE "read"

RecvData(s, es) ==
  /\ Begins("DATA")
  /\ \/ /\ DataVerdict(s) = "read"
        /\ iframe' = DataFrame(s, es) /\ UNCHANGED <<goaway, obReg>>
     \/ /\ DataVerdict(s) = "ignore"
        /\ iframe' = NoFrame /\ UNCHANGED <<goaway, obReg>>
     \/ /\ DataVerdict(s) = "terminate"
        /\ iframe' = NoFrame /\ Terminate
  /\ UNCHANGED <<tbl, flow, ids, limits, obUrgent, control, response, history>>

\* nghttp2_session_on_rst_stream_received
RecvRst(s) ==
  /\ Single("RST_STREAM")
  /\ \/ /\ DetectIdle(s, lastRecv)
        /\ Terminate /\ UNCHANGED tbl
     \/ /\ ~DetectIdle(s, lastRecv)
        /\ tbl' = IF Live(tbl, s) THEN CloseStream(ShutRd(tbl, s), s) ELSE tbl
        /\ UNCHANGED <<goaway, obReg>>
  /\ UNCHANGED <<flow, ids, limits, obUrgent, response, history>>

\* nghttp2_session_on_priority_received: an idle stream is created for s, or for
\* the stream d that s is to depend on, or for both
RecvPriority(s, d) ==
  /\ Single("PRIORITY")
  /\ \/ /\ d = s
        /\ Terminate /\ UNCHANGED tbl
     \/ /\ d # s
        /\ LET anchored == AnchorDependency(tbl, d, initWin, lastRecv)
               known    == IF Mapped(tbl, s) THEN anchored ELSE CreateIdle(anchored, s, initWin)
           IN  tbl' = IF Mapped(tbl, s) \/ DetectIdle(s, lastRecv)
                      THEN AdjustIdle(known, IdleMax(localMax, pendingMax)) ELSE tbl
        /\ UNCHANGED <<goaway, obReg>>
  /\ UNCHANGED <<flow, ids, limits, obUrgent, response, history>>

\* nghttp2_session_on_settings_received with SETTINGS_INITIAL_WINDOW_SIZE = w;
\* a value that is no window size ends the session
RecvSettings(w) ==
  /\ pc = "recv" /\ iframe.k \in {"none", "first"} /\ UNCHANGED control
  /\ iframe.k = "none" => "SETTINGS" \in Inputs
  /\ frames < MaxFrames /\ frames' = frames + 1 /\ iframe' = NoFrame
  /\ \/ /\ w > MaxWindow
        /\ Terminate
        /\ UNCHANGED <<tbl, initWin, obUrgent>>
     \/ /\ w <= MaxWindow
        /\ tbl' = UpdateInitialWindow(tbl, w, initWin)
        /\ initWin' = w
        /\ \E order \in Orders({s \in WindowOverflows(tbl, w, initWin) :
                                   RstItem(tbl, s) # << >>}) :
             obReg' = obReg \o [i \in DOMAIN order |-> Rst(order[i])]
        /\ obUrgent' = IF IsClosing(tbl', goaway, obUrgent, obReg') THEN obUrgent
                       ELSE Append(obUrgent, "ACK")
        /\ UNCHANGED goaway
  /\ UNCHANGED <<connWin, ids, limits, response, history>>

\* A SETTINGS ACK: the announced limit becomes the local one
RecvSettingsAck ==
  /\ Single("ACK")
  /\ \/ /\ inflight
        /\ localMax' = MaxConcurrent /\ inflight' = FALSE
        /\ UNCHANGED <<goaway, obReg>>
     \/ /\ ~inflight
        /\ Terminate /\ UNCHANGED <<localMax, inflight>>
  /\ UNCHANGED <<tbl, flow, ids, pendingMax, obUrgent, response, history>>

\* session_on_connection_window_update_received
RecvConnWindowUpdate(n) ==
  /\ Single("WINDOW_UPDATE")
  /\ \/ /\ n = 0 \/ MaxWindow - n < connWin
        /\ Terminate /\ UNCHANGED connWin
     \/ /\ n # 0 /\ connWin <= MaxWindow - n
        /\ connWin' = connWin + n /\ UNCHANGED <<goaway, obReg>>
  /\ UNCHANGED <<tbl, initWin, ids, limits, obUrgent, response, history>>

\* session_on_stream_window_update_received
RecvWindowUpdate(s, n) ==
  /\ Single("WINDOW_UPDATE")
  /\ \/ /\ DetectIdle(s, lastRecv) \/ (Live(tbl, s) /\ n = 0)
        /\ Terminate /\ UNCHANGED tbl
     \/ /\ ~DetectIdle(s, lastRecv) /\ ~Live(tbl, s)
        /\ UNCHANGED <<tbl, goaway, obReg>>
     \/ /\ ~DetectIdle(s, lastRecv) /\ Live(tbl, s) /\ n # 0
        /\ IF MaxWindow - n < tbl.strm[s].win THEN AddRst(s)
           ELSE tbl' = GrowWindow(tbl, s, n) /\ UNCHANGED obReg
        /\ UNCHANGED goaway
  /\ UNCHANGED <<flow, ids, limits, obUrgent, response, history>>

\* nghttp2_session_on_goaway_received; the server has no streams of its own to close
RecvGoaway ==
  /\ Single("GOAWAY")
  /\ goaway' = goaway \cup {"RECV"}
  /\ UNCHANGED <<tbl, flow, ids, limits, queues, response, history>>

\* nghttp2_session_on_ping_received
RecvPing ==
  /\ Single("PING")
  /\ obUrgent' = IF IsClosing(tbl, goaway, obUrgent, obReg) THEN obUrgent
                 ELSE Append(obUrgent, "PING")
  /\ UNCHANGED <<tbl, flow, ids, goaway, limits, obReg, response, history>>

-----------------------------------------------------------------------------
(* nghttp2_submit_response and nghttp2_session_send. *)

\* The application answers a request it was given, with a body of n bytes: at any
\* later time, or from inside the callback that is running
SubmitResponse(s, n) ==
  /\ pc \in {"idle", "callback"}
  /\ s \in delivered \ answered
  /\ answered' = answered \cup {s}
  /\ left' = [left EXCEPT ![s] = n]
  /\ obReg' = Append(obReg, Headers(s))
  /\ EnterSend(tbl, pc, IdleMax(localMax, pendingMax))
  /\ UNCHANGED <<flow, ids, goaway, limits, obUrgent, input, held, out, history>>

Sending == pc = "send" /\ UNCHANGED <<ids, limits, input, held, ret, answered, delivered, refused>>

\* SETTINGS always goes out; an acknowledgement not once the session is closing
SendUrgent ==
  /\ Sending /\ obUrgent # << >>
  /\ obUrgent' = Tail(obUrgent)
  /\ UNCHANGED <<tbl, flow, goaway, obReg, pc, sendOK, left, out, goneLast>>

\* The next frame of ob_reg, once ob_urgent is empty
Pops(kind) ==
  /\ Sending /\ obUrgent = << >> /\ obReg # << >>
  /\ Head(obReg).f = kind /\ obReg' = Tail(obReg)

\* Mutant: the stream is not looked at
MaySendHeadersAlways(s, rest) == ~IsClosing(tbl, goaway, obUrgent, rest)

\* Mutant: only a stream that has carried a frame of the server
MaySendHeadersOpened(s, rest) ==
  /\ Live(tbl, s) /\ ~IsClosing(tbl, goaway, obUrgent, rest)
  /\ ~tbl.strm[s].wr /\ tbl.strm[s].st = "OPENED"

\* session_predicate_response_headers_send and session_predicate_headers_send
MaySendHeaders(s, rest) ==
  /\ Live(tbl, s) /\ ~IsClosing(tbl, goaway, obUrgent, rest)
  /\ ~tbl.strm[s].wr /\ tbl.strm[s].st \in {"OPENING", "OPENED"}

\* Response HEADERS, with which the DATA item of the response is attached; they are
\* dropped silently if the stream or the session does not take them any more
SendHeaders ==
  /\ Pops("HEADERS")
  /\ LET s == Head(obReg).s
     IN  IF MaySendHeaders(s, Tail(obReg))
         THEN /\ tbl' = [tbl EXCEPT !.strm[s] =
                           [tbl.strm[s] EXCEPT !.st = "OPENED",
                                               !.item = IF @ = "none" THEN "active" ELSE @]]
              /\ out' = [out EXCEPT ![s].hdr = @ + 1]
         ELSE UNCHANGED <<tbl, out>>
  /\ UNCHANGED <<flow, goaway, obUrgent, pc, sendOK, left, goneLast>>

SendRst ==
  /\ Pops("RST_STREAM")
  /\ LET s == Head(obReg).s
     IN  IF IsClosing(tbl, goaway, obUrgent, Tail(obReg)) THEN UNCHANGED <<tbl, out>>
         ELSE /\ tbl' = CloseStream(tbl, s)
              /\ out' = [out EXCEPT ![s].rst = @ + 1]
  /\ UNCHANGED <<flow, goaway, obUrgent, pc, sendOK, left, goneLast>>

\* The GOAWAY that ends the session; streams the peer opened beyond the last one
\* it names are closed as refused
SendGoaway ==
  /\ Pops("GOAWAY")
  /\ LET last == Head(obReg).s
     IN  /\ goneLast' = last
         /\ \E q \in Orders({s \in LiveSet(tbl) : s > last}) : tbl' = CloseAll(tbl, q)
  /\ goaway' = goaway \cup {"TERM_SENT", "SENT"}
  /\ UNCHANGED <<flow, obUrgent, pc, sendOK, left, out>>

\* A DATA item is taken from the tree when the queues are empty and the
\* connection window is open
PicksData(s) ==
  /\ Sending /\ obUrgent = << >> /\ obReg = << >> /\ connWin > 0
  /\ tbl.strm[s].item = "active"
  /\ UNCHANGED <<initWin, goaway, queues, goneLast>>

\* nghttp2_session_predicate_data_send; the session still wants to write, because
\* the item stays in the tree, so that only a GOAWAY under way makes it closing
MaySendData(s) ==
  /\ Live(tbl, s) /\ "TERM_ON_SEND" \notin goaway
  /\ ~tbl.strm[s].wr /\ tbl.strm[s].st = "OPENED"

DropData(s) ==
  /\ PicksData(s) /\ ~MaySendData(s)
  /\ tbl' = SetItem(tbl, s, "none")
  /\ UNCHANGED <<connWin, pc, sendOK, left, out>>

\* Mutant: the item is dropped instead of deferred
DeferDataDrops(s) ==
  /\ PicksData(s) /\ MaySendData(s) /\ tbl.strm[s].win <= 0
  /\ tbl' = SetItem(tbl, s, "none")
  /\ UNCHANGED <<connWin, pc, sendOK, left, out>>

\* Mutant: the item stays at the head of the tree
DeferDataSpins(s) ==
  /\ PicksData(s) /\ MaySendData(s) /\ tbl.strm[s].win <= 0
  /\ UNCHANGED <<tbl, connWin, pc, sendOK, left, out>>

DeferData(s) ==
  /\ PicksData(s) /\ MaySendData(s) /\ tbl.strm[s].win <= 0
  /\ tbl' = SetItem(tbl, s, "deferred")
  /\ UNCHANGED <<connWin, pc, sendOK, left, out>>

\* Mutant: the connection window is not consulted
ChunkOfStream(s) == SmallerOf(SmallerOf(left[s], MaxChunk), tbl.strm[s].win)

\* nghttp2_session_enforce_flow_control_limits and what the provider has
ChunkSize(s) ==
  SmallerOf(SmallerOf(left[s], MaxChunk), SmallerOf(tbl.strm[s].win, connWin))

\* One DATA frame; the one that empties the provider carries END_STREAM
SendData(s) ==
  /\ PicksData(s) /\ MaySendData(s) /\ tbl.strm[s].win > 0
  /\ LET n    == ChunkSize(s)
         eof  == n = left[s]
         paid == [tbl EXCEPT !.strm[s].win = @ - n]
     IN  /\ connWin' = connWin - n
         /\ left' = [left EXCEPT ![s] = @ - n]
         /\ out' = [out EXCEPT ![s].body = @ + n, ![s].fin = @ + IF eof THEN 1 ELSE 0]
         /\ tbl' = IF eof THEN CloseIfShut(ShutWr(SetItem(paid, s, "none"), s), s) ELSE paid
  /\ UNCHANGED <<pc, sendOK>>

\* The data provider fails: the item is gone, no END_STREAM will be sent, and
\* nghttp2_session_send returns an error with whatever else is queued unsent
ReadFails(s) ==
  /\ PicksData(s) /\ MaySendData(s) /\ tbl.strm[s].win > 0
  /\ "READ_FAILURE" \in Inputs
  /\ tbl' = SetItem(tbl, s, "none")
  /\ pc' = ret /\ sendOK' = FALSE
  /\ UNCHANGED <<connWin, left, out>>

\* Mutant: the tree is not looked at
SendDoneEarly ==
  /\ Sending /\ obUrgent = << >> /\ obReg = << >>
  /\ pc' = ret
  /\ UNCHANGED <<tbl, flow, goaway, queues, sendOK, left, out, goneLast>>

\* Nothing is left that may be sent now
SendDone ==
  /\ Sending /\ obUrgent = << >> /\ obReg = << >>
  /\ connWin <= 0 \/ \A s \in StreamIds : tbl.strm[s].item # "active"
  /\ pc' = ret
  /\ UNCHANGED <<tbl, flow, goaway, queues, sendOK, left, out, goneLast>>

-----------------------------------------------------------------------------
Receive ==
  \/ StartRecv \/ BufferEnd \/ RecvNoSettings \/ RecvInvalid
  \/ \E s \in StreamIds, es \in BOOLEAN :
       \/ \E d \in StreamOrNone : RecvRequest(s, es, d)
       \/ RecvTrailers(s, es) \/ RecvData(s, es)
  \/ FrameDelivered \/ CallbackReturns \/ FrameViolatesMessaging
  \/ FrameAborted \/ FrameIgnored \/ CompressionError
  \/ \E s \in StreamIds :
       \/ RecvRst(s)
       \/ \E d \in StreamOrNone : RecvPriority(s, d)
       \/ \E n \in Increments : RecvWindowUpdate(s, n)
  \/ \E w \in WindowSizes : RecvSettings(w)
  \/ RecvSettingsAck \/ RecvGoaway \/ RecvPing
  \/ \E n \in Increments : RecvConnWindowUpdate(n)

Send ==
  \/ SendUrgent \/ SendHeaders \/ SendRst \/ SendGoaway \/ SendDone
  \/ \E s \in StreamIds : DropData(s) \/ DeferData(s) \/ SendData(s) \/ ReadFails(s)

Next ==
  \/ \E w \in WindowSizes : Upgrade(w)
  \/ UpgradeRejected \/ ServerPreface
  \/ Receive
  \/ \E s \in StreamIds, n \in BodySizes : SubmitResponse(s, n)
  \/ Send

\* nghttp2_session_send runs to its end once it was entered, and so does a callback
Spec == Init /\ [][Next]_vars /\ WF_vars(Send) /\ WF_vars(CallbackReturns)

-----------------------------------------------------------------------------
(* Safety. *)

\* The map, the two lists threaded through it and the counter of incoming streams
\* agree, whichever of request, reset, GOAWAY, completed response, PRIORITY and
\* list trimming changed them last (nghttp2_session.c:988-1386).
Consistent == TableConsistent(tbl)

\* The peer never has more than the announced number of streams in progress, neither
\* before nor after it acknowledged the limit (nghttp2_session.c:3824, 3840).
ConcurrencyLimit == Cardinality(LiveSet(tbl)) <= MaxConcurrent

\* However many requests a connection serves and resets, and however many PRIORITY
\* frames and dependencies the peer invents, between two calls of the library the map
\* holds a bounded number of streams: closed ones are retained only while they fit the
\* announced limit together with those in progress, idle ones up to their own cap
\* (nghttp2_session.c:1295-1386, 2880, 5283).
ObjectsBounded ==
  pc = "idle" => Cardinality({s \in StreamIds : Mapped(tbl, s)})
                   <= MaxConcurrent + IdleMax(localMax, pendingMax)

\* The assertion of nghttp2_session_open_stream (nghttp2_session.c:1005): whatever
\* is in the map under an identifier that a request may still open is an idle stream.
OpenAssertion ==
  \A s \in StreamIds : IsNewPeerStream(s, lastRecv) => tbl.strm[s].st \in {"ABSENT", "IDLE"}

\* While on_frame_recv runs, in which the application may answer and any queued frame
\* may be sent, the stream of the frame stays open: the handler applies END_STREAM to
\* the stream it looked up before (nghttp2_session.c:3693-3759, 4844-4866).
HeldStreamLive == held.s # 0 => Live(tbl, held.s)

\* A stream with both directions shut is closed as soon as the handler that shut the
\* second one is done; otherwise it would count against the limit for ever
\* (nghttp2_session.c:1401).
NoHalfDeadStream == \A s \in StreamIds : tbl.strm[s].rd /\ tbl.strm[s].wr => ~Live(tbl, s)

\* A stream marked for reset has its RST_STREAM in the queue, unless the session is
\* being terminated: no stream is left waiting for a frame that is not there
\* (nghttp2_session.c:869-875, 931).
ClosingHasReset ==
  \A s \in StreamIds :
    Live(tbl, s) /\ tbl.strm[s].st = "CLOSING" /\ "TERM_ON_SEND" \notin goaway
      => \E i \in DOMAIN obReg : obReg[i] = Rst(s)

\* A stream that was reset, or whose two directions are shut, comes to its end: neither waits
\* for a frame that no one will send (nghttp2_session.c:1401, 2165).
StreamsClose == ClosingHasReset /\ NoHalfDeadStream

\* No lost wakeup: a DATA item stays deferred only while its stream's window is shut.
\* WINDOW_UPDATE and SETTINGS are the only events that may wake it
\* (nghttp2_session.c:1993, 4146-4157, 4732).
DeferredHasNoWindow == \A s \in StreamIds : tbl.strm[s].item = "deferred" => tbl.strm[s].win <= 0

\* DATA never overdraws a window: not the connection's, and a stream's is negative
\* only by what the peer took back with SETTINGS, so that it stays within 32 bits
\* (nghttp2_session.c:1756, 2511; nghttp2_stream.c:546).
WindowsKept ==
  /\ connWin >= 0
  /\ \A s \in StreamIds : Mapped(tbl, s) =>
       tbl.strm[s].win >= -MaxWindow /\ tbl.strm[s].win - initWin >= -MaxWindow

\* When nghttp2_session_send returns without an error, all that may be sent was: a
\* response still waits only for a window (nghttp2_session.c:2865, 3208).
SendExhaustive ==
  pc = "idle" /\ sendOK =>
    /\ obUrgent = << >> /\ obReg = << >>
    /\ \A s \in StreamIds : tbl.strm[s].item = "active" => connWin = 0

\* No answer is lost, where the data provider does not fail: when nghttp2_session_send has
\* returned without an error, a stream that was answered and is still open has either sent
\* END_STREAM or still has its DATA item (nghttp2_session.c:1955-2048, 2109, 2612-2634).
NoAnswerLost ==
  pc = "idle" /\ sendOK /\ "TERM_ON_SEND" \notin goaway =>
    \A s \in answered : Live(tbl, s) => out[s].fin = 1 \/ tbl.strm[s].item # "none"

\* A request refused with REFUSED_STREAM is never given to the application, not even
\* when more frames arrive for its stream, so that the client may repeat it
\* (nghttp2_session.c:3822, 3840).
RefusedNotDelivered == refused \cap delivered = {}

\* The GOAWAY that ends the session names a last stream that covers every request
\* the application got; the client repeats those beyond it.  The request of an upgrade
\* is the one exception: settings out of range queue GOAWAY 0 before its stream is
\* opened, and the application gets it (nghttp2_session.c:251, 3857, 7186).
GoawayCovers ==
  goneLast # -1 => \A s \in delivered : s <= goneLast \/ (s = 1 /\ goneLast = 0)

\* A request that its client may send again, because it was refused or is above the last
\* identifier of the GOAWAY, is none the application was given (nghttp2_session.c:1414, 3822, 3840).
RepeatedOnce == RefusedNotDelivered /\ GoawayCovers

\* The application's answer to the request that asked for the upgrade is on the wire
\* when nghttp2_session_send has returned, unless the settings of the upgrade were refused:
\* the result of nghttp2_session_upgrade2 is not looked at, and the application gets a
\* request it cannot answer, although "The function will send a response to the initial
\* request" (HTTP2Session.swift:107, 110).
InitialResponseSent ==
  pc = "idle" /\ frames = 0 /\ 1 \in answered =>
    out[1].hdr = 1 \/ tbl.strm[1].st = "ABSENT" \/ "TERM_ON_SEND" \in goaway

\* Nothing that is to be sent is forgotten: not the answer to the request that asked for the
\* upgrade, and nghttp2_session_send leaves nothing that may be sent
\* (nghttp2_session.c:2987-3006, 3216-3234).
NothingForgotten == InitialResponseSent /\ SendExhaustive

-----------------------------------------------------------------------------
(* What the session promises. *)

Promise == INSTANCE Exchange
             WITH Streams <- StreamIds, asked <- delivered, wire <- out,
                  size <- [s \in StreamIds |-> left[s] + out[s].body]

\* The session implements Exchange: each answer goes out once, in order and whole, and
\* nothing of it follows its END_STREAM or an RST_STREAM for its stream, although windows
\* open and shut in between, the answer may race with a reset that is already queued, and
\* a stream may be closed while its HEADERS or its DATA wait
\* (nghttp2_session.c:1605, 1799, 2502-2556, 2816).
ImplementsExchange == Promise!Spec

-----------------------------------------------------------------------------
(* Liveness. *)

\* nghttp2_session_send returns: no frame it prepares queues another one for ever.
SendReturns == pc = "send" ~> pc # "send"
=============================================================================
