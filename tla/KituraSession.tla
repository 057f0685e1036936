--------------------------- MODULE KituraSession ---------------------------
(***************************************************************************)
(* HTTP2Session.swift on top of the nghttp2 session: its table streamsData, *)
(* which the callbacks of the library fill and clear, the requests it gives *)
(* to the application, and the data provider through which the library      *)
(* fetches the body of an answer.                                          *)
(*                                                                         *)
(* Each action is one of Session together with what the callbacks made in   *)
(* the course of it do to the Swift state.  A DATA frame with a payload is  *)
(* one chunk.  Whether the header fields of a request make a URL is left    *)
(* open: there may be no :path (CONNECT), or one URLComponents rejects.     *)
(***************************************************************************)
EXTENDS Session

VARIABLES
  streamsData, \* HTTP2Session.streamsData
  array,       \* the stream whose answer's bytes exist, or 0: mutData in sendData
  received,    \* history: chunks of the request body that arrived for each stream
  seen,        \* history: for each call of the application, the chunks it saw
  trailed,     \* history: streams whose request ended in trailers
  ended,       \* history: streams whose ServerResponse was ended
  garbled      \* history: streams on which other bytes than the answer's were sent

swift == <<streamsData, array, received, seen, trailed, ended, garbled>>
kvars == <<vars, swift>>

\* One entry of streamsData.  `url' tells whether the header fields make a URL,
\* `saved' holds the chunks of the saved request's body, or -1 when no request is
\* saved, and `data' whether dataInfo knows the answer's bytes.
NoEntry == [here |-> FALSE, url |-> FALSE, saved |-> -1, data |-> FALSE]
NewEntry == [NoEntry EXCEPT !.here = TRUE]

KInit ==
  /\ Init
  /\ streamsData = [s \in StreamIds |-> NoEntry]
  /\ array = 0
  /\ received = [s \in StreamIds |-> 0]
  /\ seen = [s \in StreamIds |-> << >>]
  /\ trailed = {} /\ ended = {} /\ garbled = {}

-----------------------------------------------------------------------------
(* The callbacks. *)

\* Mutant: the entry of a closed stream stays
KeepClosed == streamsData' = streamsData

\* Mutant: the entry goes when the request is complete
DropCompleted ==
  streamsData' = [s \in StreamIds |->
                    IF Live(tbl, s) /\ (~Live(tbl', s) \/ (tbl'.strm[s].rd /\ ~tbl.strm[s].rd))
                    THEN NoEntry ELSE streamsData[s]]

\* on_stream_close for every stream the step closes
DropClosed ==
  streamsData' = [s \in StreamIds |->
                    IF Live(tbl, s) /\ ~Live(tbl', s) THEN NoEntry ELSE streamsData[s]]

\* sendData returns when nghttp2_session_send does, and its array is gone
ReturnArray == array' = IF pc = "send" /\ pc' # "send" THEN 0 ELSE array

\* HTTP2.delegate.handle, with a request whose body has n chunks
Handle(s, n) == seen' = [seen EXCEPT ![s] = Append(@, n)]

-----------------------------------------------------------------------------
(* Receiving. *)

\* begin_headers makes the entry of a new stream, on_header fills it
KRecvRequest(s, es, d) ==
  /\ RecvRequest(s, es, d)
  /\ \/ /\ RequestVerdict(s, d) = "open"
        /\ \E u \in BOOLEAN : streamsData' = [streamsData EXCEPT ![s] = [NewEntry EXCEPT !.url = u]]
     \/ /\ RequestVerdict(s, d) # "open"
        /\ UNCHANGED streamsData
  /\ UNCHANGED <<array, received, seen, trailed, ended, garbled>>

\* on_data_chunk_recv: the chunk goes to the request that was saved
KRecvData(s, es) ==
  /\ RecvData(s, es)
  /\ LET read == DataVerdict(s) = "read"
     IN  /\ received' = [received EXCEPT ![s] = @ + IF read THEN 1 ELSE 0]
         /\ streamsData' = [streamsData EXCEPT
              ![s].saved = @ + IF read /\ @ >= 0 THEN 1 ELSE 0]
  /\ UNCHANGED <<array, seen, trailed, ended, garbled>>

\* on_frame_recv for DATA: at the end of the stream the saved request is handled
DataDelivered(s, es) ==
  /\ IF es /\ streamsData[s].saved >= 0 THEN Handle(s, streamsData[s].saved) ELSE UNCHANGED seen
  /\ UNCHANGED <<streamsData, trailed>>

\* Mutant: END_STREAM is not looked at
HeadersDeliveredTwice(s, es) ==
  /\ IF streamsData[s].url THEN Handle(s, 0) ELSE UNCHANGED seen
  /\ streamsData' = [streamsData EXCEPT ![s].saved = IF streamsData[s].url THEN 0 ELSE @]
  /\ trailed' = IF iframe.trailer THEN trailed \cup {s} ELSE trailed

\* on_frame_recv for HEADERS, trailers included: a request is made of the header
\* fields of the stream, and handled or saved
HeadersDelivered(s, es) ==
  /\ trailed' = IF iframe.trailer THEN trailed \cup {s} ELSE trailed
  /\ \/ /\ ~streamsData[s].url
        /\ UNCHANGED <<seen, streamsData>>
     \/ /\ streamsData[s].url /\ es
        /\ Handle(s, 0) /\ UNCHANGED streamsData
     \/ /\ streamsData[s].url /\ ~es
        /\ streamsData' = [streamsData EXCEPT ![s].saved = 0] /\ UNCHANGED seen

KFrameDelivered ==
  /\ FrameDelivered
  /\ \/ iframe.k = "DATA" /\ DataDelivered(iframe.s, iframe.es)
     \/ iframe.k = "HEADERS" /\ HeadersDelivered(iframe.s, iframe.es)
  /\ UNCHANGED <<array, received, ended, garbled>>

\* The request that asked for the upgrade goes to the application without callbacks
KUpgrade(w) ==
  /\ Upgrade(w)
  /\ Handle(1, 0)
  /\ UNCHANGED <<streamsData, array, received, trailed, ended, garbled>>

-----------------------------------------------------------------------------
(* Answering. *)

\* HTTP2ServerResponse.end after a body of n bytes was written: sendData replaces
\* the entry of the stream and submits the answer
KSubmitResponse(s, n) ==
  /\ seen[s] # << >> /\ s \notin ended
  /\ SubmitResponse(s, n)
  /\ ended' = ended \cup {s}
  /\ streamsData' = [streamsData EXCEPT ![s] = [NewEntry EXCEPT !.data = TRUE]]
  /\ array' = s
  /\ UNCHANGED <<received, seen, trailed, garbled>>

\* HTTP2ServerResponse.end when nothing was written
EndEmpty(s) ==
  /\ pc \in {"idle", "callback"}
  /\ seen[s] # << >> /\ s \notin ended
  /\ ended' = ended \cup {s}
  /\ UNCHANGED <<vars, streamsData, array, received, seen, trailed, garbled>>

\* The data provider copies from the address it was given; once sendData has
\* returned the bytes there may be anybody's
KSendData(s) ==
  /\ SendData(s)
  /\ garbled' \in {garbled} \cup IF ChunkSize(s) > 0 /\ array # s THEN {garbled \cup {s}} ELSE {}
  /\ DropClosed
  /\ UNCHANGED <<array, received, seen, trailed, ended>>

-----------------------------------------------------------------------------
\* All other steps of the session; of the callbacks only on_stream_close has an effect.
\* The provider fails only if it does not find its data (ProviderFindsData).
Plain ==
  \/ ServerPreface \/ StartRecv \/ BufferEnd \/ RecvNoSettings \/ RecvInvalid
  \/ CallbackReturns \/ FrameViolatesMessaging \/ FrameAborted \/ FrameIgnored
  \/ CompressionError \/ RecvSettingsAck \/ RecvGoaway \/ RecvPing
  \/ \E s \in StreamIds : RecvRst(s) \/ \E es \in BOOLEAN : RecvTrailers(s, es)
  \/ \E s \in StreamIds, d \in StreamOrNone : RecvPriority(s, d)
  \/ \E s \in StreamIds, n \in Increments : RecvWindowUpdate(s, n)
  \/ \E n \in Increments : RecvConnWindowUpdate(n)
  \/ \E w \in WindowSizes : RecvSettings(w)
  \/ SendUrgent \/ SendHeaders \/ SendRst \/ SendGoaway \/ SendDone
  \/ \E s \in StreamIds : DropData(s) \/ DeferData(s)

KPlain ==
  /\ Plain
  /\ DropClosed /\ ReturnArray
  /\ UNCHANGED <<received, seen, trailed, ended, garbled>>

KNext ==
  \/ \E w \in WindowSizes : KUpgrade(w)
  \/ KFrameDelivered \/ KPlain
  \/ \E s \in StreamIds :
       \/ \E es \in BOOLEAN : KRecvData(s, es) \/ \E d \in StreamOrNone : KRecvRequest(s, es, d)
       \/ \E n \in BodySizes : KSubmitResponse(s, n)
       \/ EndEmpty(s) \/ KSendData(s)

KSpec == KInit /\ [][KNext]_kvars

-----------------------------------------------------------------------------
(* Properties. *)

\* The data provider finds its entry whenever the library calls it: no frame, reset,
\* trailer or answer takes the entry away or replaces it while a DATA item may be sent
\* on the stream, so that nghttp2_session_send does not fail
\* (HTTP2Session.swift:254, 319, 384, 409).
ProviderFindsData ==
  \A s \in StreamIds : tbl.strm[s].item # "none" /\ MaySendData(s) => streamsData[s].data

\* The only entries that outlive their stream are those of answers that came after it
\* was closed, one for each such answer (HTTP2Session.swift:254, 409).
OnlyLateAnswersLinger ==
  \A s \in StreamIds : streamsData[s].here /\ ~Live(tbl, s) => s \in answered

\* An entry of streamsData is there as long as the library may ask for it, and no longer than
\* its stream, unless it was made too late (HTTP2Session.swift:254, 319, 384, 409).
EntriesKept == ProviderFindsData /\ OnlyLateAnswersLinger

\* "The wrapper ServerRequest for the stream. It will be handled once all request
\* frames arrive" (HTTP2Session.swift:51): the application gets the request that was
\* saved, with its body, trailers or not.
TrailersKeepBody ==
  \A s \in StreamIds : seen[s] \in {<< >>, << received[s] >>}

\* A request that is complete is given to the application in the callback for its last
\* frame, whether that is HEADERS, DATA or trailers; the one kind that waits for good is
\* that whose fields make no URL, and its entry goes with its stream
\* (HTTP2Session.swift:197, 208-249).
UnhandledHasNoUrl ==
  \A s \in delivered : Live(tbl, s) =>
    seen[s] # << >> \/ (streamsData[s].here /\ ~streamsData[s].url)

\* A request that ends with DATA, or has no body, reaches the application once and with all
\* chunks of its body, unless it has no URL (HTTP2Session.swift:169, 208, 237-249).
WholeRequest ==
  /\ \A s \in StreamIds : s \notin trailed => seen[s] \in {<< >>, << received[s] >>}
  /\ UnhandledHasNoUrl

\* "This is being used for breaking large data into pieces and send it in multiple data
\* frames" (HTTP2Session.swift:26): each piece comes from the bytes of the answer.
OwnBytes == garbled = {}

\* "Complete sending the HTTP response" (HTTP2ServerResponse.swift:81): a response that
\* was ended while its stream was open has been submitted.
EndCompletes == \A s \in ended : Live(tbl, s) => s \in answered

=============================================================================
