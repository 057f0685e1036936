---------------------------- MODULE KituraProofs ----------------------------
(***************************************************************************)
(* What holds of HTTP2Session.swift in every session: an entry of           *)
(* streamsData is there whenever the library may ask for it and goes with   *)
(* its stream, and a request reaches the application once, with its whole   *)
(* body.  Each step of the Swift layer is one of the session or leaves it   *)
(* alone, so that the invariants of the session hold here too; KInv ties    *)
(* the Swift state to them.                                                 *)
(***************************************************************************)
EXTENDS KituraSession, ExchangeProofs

Entry == [here : BOOLEAN, url : BOOLEAN, saved : Int, data : BOOLEAN]

SwiftTypes ==
  /\ streamsData \in [StreamIds -> Entry]
  /\ received \in [StreamIds -> Nat]
  /\ seen \in [StreamIds -> Seq(Nat)]
  /\ trailed \subseteq StreamIds

\* The header block that opened stream s is still being read
First(s) == iframe.k = "HEADERS" /\ iframe.s = s /\ ~iframe.trailer

\* A request that was delivered is a known one and has ended, or is ended when its callback
\* returns; before it is complete the application sees nothing of it; and no part of its
\* body is read before its header block
Known(s) ==
  /\ s \in delivered =>
       /\ ~IsNewPeerStream(s, lastRecv)
       /\ Live(tbl, s) => tbl.strm[s].rd \/ (held.s = s /\ held.es)
  /\ s \notin delivered => seen[s] = << >>
  /\ IsNewPeerStream(s, lastRecv) \/ First(s) => received[s] = 0

\* The entry of a stream is there until its request was handled and again once it was
\* answered, and no longer than the stream unless the answer came too late
EntryOf(s) ==
  /\ Live(tbl, s) /\ s \in answered => streamsData[s].data
  /\ Live(tbl, s) /\ seen[s] = << >> => streamsData[s].here
  /\ streamsData[s].here /\ ~Live(tbl, s) => s \in answered

\* A saved request has all of the body that came; it is saved when its header block was
\* read, unless it has no URL; and it was handled when it was complete
RequestOf(s) ==
  /\ streamsData[s].saved \in {-1, received[s]}
  /\ Live(tbl, s) /\ tbl.strm[s].st # "CLOSING" /\ seen[s] = << >> /\ ~First(s) =>
       (streamsData[s].url => streamsData[s].saved >= 0)
  /\ s \notin trailed => seen[s] \in {<< >>, << received[s] >>}
  /\ s \in delivered /\ Live(tbl, s) =>
       seen[s] # << >> \/ (streamsData[s].here /\ ~streamsData[s].url)

KInv == SwiftTypes /\ \A s \in StreamIds : Known(s) /\ EntryOf(s) /\ RequestOf(s)

-----------------------------------------------------------------------------
(* The steps of the session. *)

\* Every step of the Swift layer is one of the session, or leaves it alone; the data provider
\* does not fail.
LEMMA SwiftStep ==
  ASSUME [KNext]_kvars PROVE [Faultless]_vars
<1>1. ASSUME NEW w \in WindowSizes, KUpgrade(w) PROVE Faultless
  BY <1>1 DEF KUpgrade, Faultless
<1>2. CASE KFrameDelivered
  BY <1>2 DEF KFrameDelivered, Faultless, Receive
<1>3. CASE KPlain
  BY <1>3 DEF KPlain, Plain, Faultless, Receive
<1>4. ASSUME NEW s \in StreamIds, NEW es \in BOOLEAN,
             KRecvData(s, es) \/ \E d \in StreamOrNone : KRecvRequest(s, es, d)
      PROVE  Faultless
  BY <1>4 DEF KRecvData, KRecvRequest, Faultless, Receive
<1>5. ASSUME NEW s \in StreamIds, NEW n \in BodySizes, KSubmitResponse(s, n) PROVE Faultless
  BY <1>5 DEF KSubmitResponse, Faultless
<1>6. ASSUME NEW s \in StreamIds, KSendData(s) PROVE Faultless
  BY <1>6 DEF KSendData, Faultless
<1>7. ASSUME NEW s \in StreamIds, EndEmpty(s) PROVE UNCHANGED vars
  BY <1>7 DEF EndEmpty
<1>8. CASE UNCHANGED kvars
  BY <1>8 DEF kvars
<1> QED BY <1>1, <1>2, <1>3, <1>4, <1>5, <1>6, <1>7, <1>8 DEF KNext

\* It is then one of the session's.
LEMMA FaultlessStep ==
  ASSUME [Faultless]_vars PROVE [Next]_vars
BY DEF Faultless, Next, Send

\* No stream comes to life, and what is being reset, or shut, stays so
Endures ==
  \A x \in StreamIds : Live(tbl', x) =>
    /\ Live(tbl, x)
    /\ tbl.strm[x].st = "CLOSING" => tbl'.strm[x].st = "CLOSING"
    /\ tbl.strm[x].rd => tbl'.strm[x].rd

\* A header block that was being read has been read, unless its stream is of no use any more
ReadsOn ==
  \A x \in StreamIds :
    /\ First(x)' => First(x)
    /\ First(x) /\ ~First(x)' /\ Live(tbl', x) => tbl'.strm[x].st = "CLOSING"

\* The callback goes on, or END_STREAM has taken effect
HoldsOn ==
  held' = held \/ (held.es /\ Live(tbl', held.s) => tbl'.strm[held.s].rd)

\* What the plain steps leave alone.
LEMMA PlainIds ==
  ASSUME Plain PROVE UNCHANGED <<delivered, answered, lastRecv>>
<1>1. CASE ServerPreface \/ StartRecv \/ BufferEnd \/ RecvNoSettings \/ RecvInvalid
  BY <1>1 DEF ServerPreface, StartRecv, BufferEnd, RecvNoSettings, RecvInvalid, Single,
              ids, response, history
<1>2. CASE CallbackReturns \/ FrameViolatesMessaging \/ FrameAborted \/ FrameIgnored
  BY <1>2 DEF CallbackReturns, FrameViolatesMessaging, FrameAborted, FrameIgnored,
              ids, response, history
<1>3. CASE CompressionError \/ RecvSettingsAck \/ RecvGoaway \/ RecvPing
  BY <1>3 DEF CompressionError, RecvSettingsAck, RecvGoaway, RecvPing, ids, response, history
<1>4. ASSUME NEW s \in StreamIds, RecvRst(s) \/ \E es \in BOOLEAN : RecvTrailers(s, es)
      PROVE  UNCHANGED <<delivered, answered, lastRecv>>
  BY <1>4 DEF RecvRst, RecvTrailers, ids, response, history
<1>5. ASSUME NEW s \in StreamIds, NEW d \in StreamOrNone, RecvPriority(s, d)
      PROVE  UNCHANGED <<delivered, answered, lastRecv>>
  BY <1>5 DEF RecvPriority, ids, response, history
<1>6. ASSUME NEW n \in Increments,
             RecvConnWindowUpdate(n) \/ \E s \in StreamIds : RecvWindowUpdate(s, n)
      PROVE  UNCHANGED <<delivered, answered, lastRecv>>
  BY <1>6 DEF RecvConnWindowUpdate, RecvWindowUpdate, ids, response, history
<1>7. ASSUME NEW w \in WindowSizes, RecvSettings(w)
      PROVE  UNCHANGED <<delivered, answered, lastRecv>>
  BY <1>7 DEF RecvSettings, ids, response, history
<1>8. CASE SendUrgent \/ SendHeaders \/ SendRst \/ SendGoaway \/ SendDone
  BY <1>8 DEF SendUrgent, SendHeaders, SendRst, SendGoaway, SendDone, Pops, Sending, ids
<1>9. ASSUME NEW s \in StreamIds, DropData(s) \/ DeferData(s)
      PROVE  UNCHANGED <<delivered, answered, lastRecv>>
  BY <1>9 DEF DropData, DeferData, PicksData, Sending, ids
<1> QED BY <1>1, <1>2, <1>3, <1>4, <1>5, <1>6, <1>7, <1>8, <1>9 DEF Plain

\* What the plain steps do to the streams.
LEMMA PlainEndures ==
  ASSUME IInv, IInv', SInv, WireInv, Plain PROVE Endures
<1>1. lastRecv' = lastRecv
  BY PlainIds
<1>2. CASE ServerPreface \/ Receive \/ SendUrgent \/ SendGoaway
  BY <1>1, <1>2, NextQuiet DEF Quiet, Renews, Endures
<1>3. CASE SendHeaders
  <2> DEFINE s == Head(obReg).s
  <2>1. /\ s \in StreamIds
        /\ \/ MaySendHeaders(s, Tail(obReg)) /\ tbl' = Attach(tbl, s)
           \/ UNCHANGED tbl
    BY <1>3, SendHeadersEffect
  <2> HIDE DEF s
  <2>2. CASE MaySendHeaders(s, Tail(obReg)) /\ tbl' = Attach(tbl, s)
    <3>1. Ages(tbl, tbl')
      BY <2>1, <2>2, AttachAges DEF IInv, TableInv, SInv, LifeInv, MaySendHeaders
    <3> QED BY <3>1 DEF Ages, Endures
  <2> QED BY <2>1, <2>2 DEF Endures
<1>4. CASE SendRst
  <2> DEFINE s == Head(obReg).s
  <2>1. s \in StreamIds /\ (tbl' = CloseStream(tbl, s) \/ UNCHANGED tbl)
    BY <1>4, SendRstEffect
  <2> HIDE DEF s
  <2>2. initWin \in Windows /\ TableOK(tbl) /\ EntriesOK(tbl, initWin)
    BY MaxWindowAssumption DEF IInv, TableInv, Windows, SInv, LifeInv
  <2>3. CASE tbl' = CloseStream(tbl, s)
    <3>1. Fades(tbl, tbl', initWin)
      BY <2>1, <2>2, <2>3, CloseStreamFades
    <3>2. Ages(tbl, tbl')
      BY <2>2, <3>1, FadesOK
    <3> QED BY <3>2 DEF Ages, Endures
  <2> QED BY <2>1, <2>3 DEF Endures
<1>5. CASE SendDone
  BY <1>5 DEF SendDone, Endures
<1>6. ASSUME NEW s \in StreamIds, DropData(s) \/ DeferData(s) PROVE Endures
  <2>1. /\ tbl.strm[s].item # "none"
        /\ \E i \in {"none", "deferred"} : tbl' = SetItem(tbl, s, i)
    BY <1>6 DEF DropData, DeferData, PicksData
  <2>2. Ages(tbl, tbl')
    BY <2>1, SetItemAges DEF IInv, TableInv, SInv, LifeInv
  <2> QED BY <2>2 DEF Ages, Endures
<1>7. ServerPreface \/ Receive \/ SendUrgent \/ SendGoaway \/ SendHeaders \/ SendRst \/ SendDone
        \/ \E s \in StreamIds : DropData(s) \/ DeferData(s)
  BY DEF Plain, Receive
<1> QED BY <1>2, <1>3, <1>4, <1>5, <1>6, <1>7

\* What the plain steps do to the frame that is being read.
LEMMA PlainReads ==
  ASSUME IInv, IInv', SInv, WireInv, Plain PROVE ReadsOn
<1>1. CASE iframe' = iframe
  BY <1>1 DEF ReadsOn, First
<1>2. CASE iframe.k # "HEADERS" /\ (iframe'.k # "HEADERS" \/ iframe'.trailer)
  BY <1>2 DEF ReadsOn, First
<1> DEFINE s == iframe.s
<1>3. TableOK(tbl) /\ EntriesOK(tbl, initWin)
  BY DEF IInv, TableInv, SInv, LifeInv
<1>4. iframe.k = "HEADERS" => s \in StreamIds /\ iframe.es \in BOOLEAN
  BY DEF IInv, ControlInv, InFrame
<1>5. ASSUME iframe.k = "HEADERS", iframe'.k # "HEADERS",
             Live(tbl', s) => tbl'.strm[s].st = "CLOSING"
      PROVE  ReadsOn
  BY <1>5 DEF ReadsOn, First
<1>6. CASE FrameViolatesMessaging /\ iframe.k = "HEADERS"
  <2> DEFINE m == MarkClosing(tbl, s)
  <2>1. /\ Live(tbl, s) /\ tbl' = EndStream(m, s, iframe.es) /\ iframe'.k = "none"
    BY <1>6 DEF FrameViolatesMessaging, FrameStreamOpen, NoFrame
  <2>2. EntriesOK(m, initWin) /\ Spares(tbl, m) /\ (Live(m, s) => m.strm[s].st = "CLOSING")
    BY <1>3, <1>4, <1>6, MarkClosingAges
  <2>3. TableOK(m) /\ Live(m, s)
    BY <1>3, <1>4, <1>6, <2>1, <2>2, MarkClosingOK DEF Spares
  <2> HIDE DEF m
  <2>4. tbl'.strm[s].st = m.strm[s].st
    BY <1>4, <1>6, <2>1, <2>2, <2>3, EndStreamAges
  <2> QED BY <1>5, <1>6, <2>1, <2>2, <2>3, <2>4
<1>7. CASE FrameAborted /\ iframe.k = "HEADERS"
  <2>1. tbl' = MarkClosing(tbl, s) /\ iframe'.k = "ignoredHeaders"
    BY <1>7 DEF FrameAborted, AddRst, IgnoredHeaders, NoFrame
  <2>2. Live(tbl', s) => tbl'.strm[s].st = "CLOSING"
    BY <1>3, <1>4, <1>7, <2>1, MarkClosingAges
  <2> QED BY <1>5, <1>7, <2>1, <2>2
<1>8. CASE FrameIgnored /\ iframe.k = "HEADERS"
  <2>1. tbl' = tbl /\ ~FrameStreamOpen /\ iframe'.k = "none"
    BY <1>8 DEF FrameIgnored, NoFrame
  <2> QED BY <1>5, <1>8, <2>1 DEF FrameStreamOpen
<1>9. CASE CompressionError /\ iframe.k = "HEADERS"
  <2>1. /\ tbl' = IF FrameStreamOpen THEN MarkClosing(tbl, s) ELSE tbl
        /\ iframe'.k = "none"
    BY <1>9 DEF CompressionError, NoFrame
  <2>2. CASE FrameStreamOpen
    <3>1. Live(tbl', s) => tbl'.strm[s].st = "CLOSING"
      BY <1>3, <1>4, <1>9, <2>1, <2>2, MarkClosingAges
    <3> QED BY <1>5, <1>9, <2>1, <3>1
  <2>3. CASE ~FrameStreamOpen
    BY <1>5, <1>9, <2>1, <2>3 DEF FrameStreamOpen
  <2> QED BY <2>2, <2>3
<1> HIDE DEF s
<1>10. CASE \/ FrameViolatesMessaging \/ FrameAborted \/ FrameIgnored \/ CompressionError
            \/ RecvNoSettings
  <2>1. CASE iframe.k # "HEADERS"
    <3>1. iframe'.k # "HEADERS"
      BY <1>10, <2>1 DEF FrameViolatesMessaging, FrameAborted, FrameIgnored, CompressionError,
                         RecvNoSettings, IgnoreAll, IgnoredHeaders, NoFrame
    <3> QED BY <1>2, <2>1, <3>1
  <2>2. CASE iframe.k = "HEADERS"
    BY <1>6, <1>7, <1>8, <1>9, <1>10, <2>2 DEF RecvNoSettings
  <2> QED BY <2>1, <2>2
<1>11. ASSUME NEW x \in StreamIds, RecvRst(x) \/ \E es \in BOOLEAN : RecvTrailers(x, es)
       PROVE  iframe.k # "HEADERS" /\ (iframe'.k # "HEADERS" \/ iframe'.trailer)
  BY <1>11 DEF RecvRst, RecvTrailers, Single, Begins, NoFrame, IgnoredHeaders, HeadersFrame
<1>12. CASE \/ RecvInvalid \/ RecvSettingsAck \/ RecvGoaway \/ RecvPing
            \/ \E x \in StreamIds, d \in StreamOrNone : RecvPriority(x, d)
            \/ \E x \in StreamIds, n \in Increments : RecvWindowUpdate(x, n)
            \/ \E n \in Increments : RecvConnWindowUpdate(n)
  <2>1. \E k \in Inputs : Single(k)
    BY <1>12 DEF RecvInvalid, RecvSettingsAck, RecvGoaway, RecvPing, RecvPriority,
                 RecvWindowUpdate, RecvConnWindowUpdate, Single, Begins
  <2>2. iframe.k = "none" /\ iframe' = NoFrame
    BY <2>1 DEF Single, Begins
  <2> QED BY <1>2, <2>2 DEF NoFrame
<1>13. ASSUME NEW w \in WindowSizes, RecvSettings(w)
       PROVE  iframe.k # "HEADERS" /\ iframe'.k # "HEADERS"
  BY <1>13 DEF RecvSettings, NoFrame
<1>14. CASE ServerPreface \/ StartRecv \/ BufferEnd \/ CallbackReturns
  BY <1>1, <1>14 DEF ServerPreface, StartRecv, BufferEnd, CallbackReturns, input
<1>15. CASE \/ SendUrgent \/ SendHeaders \/ SendRst \/ SendGoaway \/ SendDone
            \/ \E x \in StreamIds : DropData(x) \/ DeferData(x)
  <2>1. Sending
    BY <1>15 DEF SendUrgent, SendHeaders, SendRst, SendGoaway, SendDone, Pops, DropData,
                 DeferData, PicksData
  <2> QED BY <1>1, <2>1 DEF Sending, input
<1> QED BY <1>2, <1>10, <1>11, <1>12, <1>13, <1>14, <1>15 DEF Plain

\* What the plain steps do to the callback that is running.
LEMMA PlainHolds ==
  ASSUME IInv, SInv, Plain PROVE HoldsOn
<1>1. CASE CallbackReturns
  <2>1. /\ tbl' = EndStream(tbl, held.s, held.es) /\ held.s \in StreamIds /\ held.s # 0
    BY <1>1, StreamIdsAssumption DEF CallbackReturns, IInv, ControlInv
  <2>2. Live(tbl, held.s) /\ TableOK(tbl) /\ EntriesOK(tbl, initWin)
    BY <2>1 DEF SInv, ReadInv, LifeInv, IInv, TableInv
  <2>3. ASSUME held.es PROVE tbl'.strm[held.s].rd
    <3>1. tbl' = CloseIfShut(ShutRd(tbl, held.s), held.s)
      BY <2>1, <2>3 DEF EndStream
    <3> QED BY <2>1, <2>2, <3>1, EndOfStream
  <2> QED BY <2>3 DEF HoldsOn
<1>2. CASE \/ ServerPreface \/ StartRecv \/ BufferEnd \/ RecvNoSettings \/ RecvInvalid
           \/ FrameViolatesMessaging \/ FrameAborted \/ FrameIgnored \/ CompressionError
  BY <1>2 DEF ServerPreface, StartRecv, BufferEnd, RecvNoSettings, RecvInvalid, Single,
              FrameViolatesMessaging, FrameAborted, FrameIgnored, CompressionError,
              EnterSend, control, HoldsOn
<1>3. ASSUME NEW s \in StreamIds, RecvRst(s) \/ \E es \in BOOLEAN : RecvTrailers(s, es)
      PROVE  HoldsOn
  BY <1>3 DEF RecvRst, RecvTrailers, Single, control, HoldsOn
<1>4. CASE \/ RecvSettingsAck \/ RecvGoaway \/ RecvPing
           \/ \E x \in StreamIds, d \in StreamOrNone : RecvPriority(x, d)
           \/ \E x \in StreamIds, n \in Increments : RecvWindowUpdate(x, n)
           \/ \E n \in Increments : RecvConnWindowUpdate(n)
  BY <1>4 DEF RecvSettingsAck, RecvGoaway, RecvPing, RecvPriority, RecvWindowUpdate,
              RecvConnWindowUpdate, Single, control, HoldsOn
<1>5. ASSUME NEW w \in WindowSizes, RecvSettings(w) PROVE HoldsOn
  BY <1>5 DEF RecvSettings, control, HoldsOn
<1>6. CASE \/ SendUrgent \/ SendHeaders \/ SendRst \/ SendGoaway \/ SendDone
           \/ \E x \in StreamIds : DropData(x) \/ DeferData(x)
  <2>1. Sending
    BY <1>6 DEF SendUrgent, SendHeaders, SendRst, SendGoaway, SendDone, Pops, DropData,
                DeferData, PicksData
  <2> QED BY <2>1 DEF Sending, HoldsOn
<1> QED BY <1>1, <1>2, <1>3, <1>4, <1>5, <1>6 DEF Plain

-----------------------------------------------------------------------------
(* The Swift state. *)

\* The steps on which no callback but on_stream_close is made.
LEMMA PlainKept ==
  ASSUME KInv, DropClosed, Endures, ReadsOn, HoldsOn,
         UNCHANGED <<delivered, answered, lastRecv, received, seen, trailed>>
  PROVE  KInv'
<1>1. SwiftTypes'
  <2>1. NoEntry \in Entry
    BY DEF NoEntry, Entry
  <2> QED BY <2>1 DEF KInv, SwiftTypes, DropClosed
<1>2. ASSUME NEW s \in StreamIds PROVE Known(s)' /\ EntryOf(s)' /\ RequestOf(s)'
  <2>1. Known(s) /\ EntryOf(s) /\ RequestOf(s)
    BY DEF KInv
  <2>2. /\ Live(tbl', s) => Live(tbl, s)
        /\ Live(tbl', s) /\ tbl.strm[s].st = "CLOSING" => tbl'.strm[s].st = "CLOSING"
        /\ Live(tbl', s) /\ tbl.strm[s].rd => tbl'.strm[s].rd
    BY DEF Endures
  <2>3. streamsData'[s] = IF Live(tbl, s) /\ ~Live(tbl', s) THEN NoEntry ELSE streamsData[s]
    BY DEF DropClosed
  <2>4. First(s)' => First(s)
    BY DEF ReadsOn
  <2>5. Known(s)'
    <3>1. s \in delivered /\ Live(tbl', s) => tbl'.strm[s].rd \/ (held'.s = s /\ held'.es)
      BY <2>1, <2>2 DEF Known, HoldsOn
    <3> QED BY <2>1, <2>4, <3>1 DEF Known
  <2>6. EntryOf(s)'
    BY <2>1, <2>2, <2>3 DEF EntryOf, NoEntry
  <2>7. RequestOf(s)'
    <3>1. streamsData'[s].saved \in {-1, received'[s]}
      BY <2>1, <2>3 DEF RequestOf, NoEntry
    <3>2. Live(tbl', s) /\ tbl'.strm[s].st # "CLOSING" /\ ~First(s)' => ~First(s)
      BY DEF ReadsOn
    <3> QED BY <2>1, <2>2, <2>3, <3>1, <3>2 DEF RequestOf
  <2> QED BY <2>5, <2>6, <2>7
<1> QED BY <1>1, <1>2 DEF KInv

\* A step of mem_recv finds no callback running.
LEMMA RecvFindsOpen ==
  ASSUME IInv, SInv, KInv, pc = "recv", NEW s \in StreamIds, Live(tbl, s), ~tbl.strm[s].rd
  PROVE  s \notin delivered /\ seen[s] = << >> /\ ~IsNewPeerStream(s, lastRecv)
<1>1. held.s = 0 /\ s # 0
  BY StreamIdsAssumption DEF SInv, ReadInv
<1>2. s \notin delivered /\ seen[s] = << >>
  BY <1>1 DEF KInv, Known
<1>3. ~IsNewPeerStream(s, lastRecv)
  BY LiveIsKnown
<1> QED BY <1>2, <1>3

\* A chunk of the body arrives, or is ignored.
LEMMA RecvDataKept ==
  ASSUME IInv, SInv, KInv, NEW s \in StreamIds, NEW es \in BOOLEAN, KRecvData(s, es)
  PROVE  KInv'
<1> DEFINE read == DataVerdict(s) = "read"
<1>1. /\ pc = "recv" /\ iframe.k # "HEADERS" /\ iframe'.k # "HEADERS"
      /\ UNCHANGED <<tbl, held, delivered, answered, lastRecv, seen, trailed>>
      /\ received' = [received EXCEPT ![s] = @ + IF read THEN 1 ELSE 0]
      /\ streamsData' = [streamsData EXCEPT ![s].saved = @ + IF read /\ @ >= 0 THEN 1 ELSE 0]
  BY DEF KRecvData, RecvData, Begins, NoFrame, DataFrame, control, history, response, ids
<1>2. /\ streamsData \in [StreamIds -> Entry] /\ received \in [StreamIds -> Nat]
      /\ streamsData[s].saved \in Int /\ received[s] \in Nat
  BY DEF KInv, SwiftTypes, Entry
<1>3. read => /\ s \notin delivered /\ seen[s] = << >> /\ ~IsNewPeerStream(s, lastRecv)
  <2>1. read => Live(tbl, s) /\ ~tbl.strm[s].rd
    BY DEF DataVerdict
  <2> HIDE DEF read
  <2> QED BY <1>1, <2>1, RecvFindsOpen
<1> HIDE DEF read
<1> DEFINE n == streamsData[s].saved + IF read /\ streamsData[s].saved >= 0 THEN 1 ELSE 0
<1>4. n \in Int /\ (streamsData[s].saved >= 0 => n >= 0)
  BY <1>2
<1>5. n \in {-1, received[s] + IF read THEN 1 ELSE 0}
  BY <1>2 DEF KInv, RequestOf
<1>6. streamsData' = [streamsData EXCEPT ![s] = [streamsData[s] EXCEPT !.saved = n]]
  BY <1>1, <1>2
<1> HIDE DEF n
<1>7. /\ streamsData'[s].saved = n
      /\ streamsData'[s].here = streamsData[s].here /\ streamsData'[s].url = streamsData[s].url
      /\ streamsData'[s].data = streamsData[s].data
      /\ \A x \in StreamIds \ {s} : streamsData'[x] = streamsData[x]
      /\ streamsData' \in [StreamIds -> Entry]
  BY <1>2, <1>4, <1>6 DEF Entry
<1>8. /\ received'[s] = received[s] + IF read THEN 1 ELSE 0
      /\ \A x \in StreamIds \ {s} : received'[x] = received[x]
      /\ received' \in [StreamIds -> Nat]
  BY <1>1, <1>2
<1>9. SwiftTypes'
  BY <1>1, <1>7, <1>8 DEF KInv, SwiftTypes
<1>10. ASSUME NEW x \in StreamIds PROVE Known(x)' /\ EntryOf(x)' /\ RequestOf(x)'
  <2>1. Known(x) /\ EntryOf(x) /\ RequestOf(x) /\ ~First(x) /\ ~First(x)'
    BY <1>1 DEF KInv, First
  <2>2. CASE x # s
    BY <1>1, <1>7, <1>8, <2>1, <2>2 DEF Known, EntryOf, RequestOf
  <2>3. CASE x = s
    <3>1. ~read => received'[s] = received[s]
      BY <1>2, <1>8
    <3>2. Known(s)'
      BY <1>1, <1>3, <2>1, <2>3, <3>1 DEF Known
    <3>3. EntryOf(s)'
      BY <1>1, <1>7, <2>1, <2>3 DEF EntryOf
    <3>4. RequestOf(s)'
      BY <1>1, <1>3, <1>4, <1>5, <1>7, <1>8, <2>1, <2>3, <3>1 DEF RequestOf
    <3> QED BY <2>3, <3>2, <3>3, <3>4
  <2> QED BY <2>2, <2>3
<1> QED BY <1>9, <1>10 DEF KInv

\* The application is called with the first request of a stream.
LEMMA HandleEffect ==
  ASSUME seen \in [StreamIds -> Seq(Nat)], NEW s \in StreamIds, seen[s] = << >>, NEW n \in Nat,
         Handle(s, n)
  PROVE  /\ seen' \in [StreamIds -> Seq(Nat)]
         /\ seen'[s] = << n >> /\ seen'[s] # << >>
         /\ \A x \in StreamIds \ {s} : seen'[x] = seen[x]
<1>1. Append(<< >>, n) = << n >> /\ << n >> # << >> /\ << n >> \in Seq(Nat)
  OBVIOUS
<1>2. seen' = [seen EXCEPT ![s] = << n >>]
  BY <1>1 DEF Handle
<1> QED BY <1>1, <1>2

\* A frame is complete: the request is handled, or saved, or waits for its end.
LEMMA FrameDeliveredKept ==
  ASSUME IInv, SInv, KInv, KFrameDelivered PROVE KInv'
<1> DEFINE s == iframe.s
           es == iframe.es
<1>1. /\ pc = "recv" /\ iframe.k \in {"HEADERS", "DATA"} /\ FrameStreamOpen
      /\ iframe.trailer => iframe.es
      /\ UNCHANGED <<tbl, answered, lastRecv, received>>
      /\ iframe'.k # "HEADERS" /\ held'.s = s /\ held'.es = es
      /\ delivered' = IF es THEN delivered \cup {s} ELSE delivered
  BY DEF KFrameDelivered, FrameDelivered, NoFrame, ids, response
<1>2. s \in StreamIds /\ es \in BOOLEAN /\ Live(tbl, s) /\ ~tbl.strm[s].rd
  BY <1>1 DEF IInv, ControlInv, InFrame, FrameStreamOpen, SInv, ReadInv, Reads
<1>3. /\ \/ iframe.k = "DATA" /\ DataDelivered(s, es)
         \/ iframe.k = "HEADERS" /\ HeadersDelivered(s, es)
  BY DEF KFrameDelivered
<1>4. First(s) <=> iframe.k = "HEADERS" /\ ~iframe.trailer
  BY DEF First
<1>5. \A x \in StreamIds \ {s} : ~First(x)
  BY DEF First
<1> HIDE DEF s, es
<1>6. s \notin delivered /\ seen[s] = << >> /\ ~IsNewPeerStream(s, lastRecv)
  BY <1>1, <1>2, RecvFindsOpen
<1>7. Known(s) /\ EntryOf(s) /\ RequestOf(s)
  BY <1>2 DEF KInv
<1>8. /\ streamsData \in [StreamIds -> Entry] /\ seen \in [StreamIds -> Seq(Nat)]
      /\ streamsData[s] \in Entry /\ received[s] \in Nat
  BY <1>2 DEF KInv, SwiftTypes
<1>9. /\ streamsData[s].here
      /\ ~First(s) /\ streamsData[s].url /\ tbl.strm[s].st # "CLOSING" => streamsData[s].saved >= 0
      /\ First(s) => received[s] = 0
  BY <1>2, <1>6, <1>7 DEF Known, EntryOf, RequestOf
\* What becomes of the request
<1> DEFINE Done ==
      /\ streamsData' \in [StreamIds -> Entry] /\ seen' \in [StreamIds -> Seq(Nat)]
      /\ trailed' \in {trailed, trailed \cup {s}}
      /\ \A x \in StreamIds \ {s} : streamsData'[x] = streamsData[x] /\ seen'[x] = seen[x]
      /\ streamsData'[s].here /\ streamsData'[s].data = streamsData[s].data
      /\ streamsData'[s].url = streamsData[s].url
      /\ streamsData'[s].saved \in {-1, received[s]}
      /\ seen'[s] = << >> /\ tbl.strm[s].st # "CLOSING" =>
           (streamsData[s].url => streamsData'[s].saved >= 0)
      /\ s \notin trailed' => seen'[s] \in {<< >>, << received[s] >>}
      /\ es => seen'[s] # << >> \/ ~streamsData[s].url
      /\ ~es => seen'[s] = << >>
<1>10. ASSUME iframe.k = "DATA", DataDelivered(s, es) PROVE Done
  <2>1. UNCHANGED <<streamsData, trailed>>
    BY <1>10 DEF DataDelivered
  <2>2. CASE es /\ streamsData[s].saved >= 0
    <3>1. streamsData[s].saved = received[s]
      BY <1>7, <2>2 DEF RequestOf
    <3>2. Handle(s, received[s])
      BY <1>10, <2>2, <3>1 DEF DataDelivered
    <3>3. /\ seen' \in [StreamIds -> Seq(Nat)]
          /\ seen'[s] = << received[s] >> /\ seen'[s] # << >>
          /\ \A x \in StreamIds \ {s} : seen'[x] = seen[x]
      BY <1>2, <1>6, <1>8, <3>2, HandleEffect
    <3>4. streamsData'[s].saved \in {-1, received[s]}
      BY <1>7, <2>1 DEF RequestOf
    <3> QED BY <1>8, <1>9, <2>1, <2>2, <3>3, <3>4
  <2>3. CASE ~(es /\ streamsData[s].saved >= 0)
    <3>1. seen' = seen
      BY <1>10, <2>3 DEF DataDelivered
    <3>2. ~First(s)
      BY <1>4, <1>10
    <3>3. tbl.strm[s].st # "CLOSING"
      BY <1>1 DEF FrameStreamOpen, s
    <3>4. streamsData[s].url => streamsData[s].saved >= 0
      BY <1>9, <3>2, <3>3
    <3>5. streamsData'[s].saved \in {-1, received[s]}
      BY <1>7, <2>1 DEF RequestOf
    <3> QED BY <1>6, <1>8, <1>9, <2>1, <2>3, <3>1, <3>4, <3>5
  <2> QED BY <2>2, <2>3
<1>11. ASSUME iframe.k = "HEADERS", HeadersDelivered(s, es) PROVE Done
  <2>1. /\ trailed' = IF iframe.trailer THEN trailed \cup {s} ELSE trailed
        /\ s \notin trailed' => received[s] = 0
        /\ ~es => received[s] = 0
    BY <1>1, <1>4, <1>9, <1>11 DEF HeadersDelivered, es
  <2>2. CASE ~streamsData[s].url /\ UNCHANGED <<seen, streamsData>>
    <3>1. streamsData'[s].saved \in {-1, received[s]}
      BY <1>7, <2>2 DEF RequestOf
    <3> QED BY <1>6, <1>8, <1>9, <2>1, <2>2, <3>1
  <2>3. CASE es /\ Handle(s, 0) /\ UNCHANGED streamsData
    <3>1. /\ seen' \in [StreamIds -> Seq(Nat)]
          /\ seen'[s] = << 0 >> /\ seen'[s] # << >>
          /\ \A x \in StreamIds \ {s} : seen'[x] = seen[x]
      BY <1>2, <1>6, <1>8, <2>3, HandleEffect
    <3>2. streamsData'[s].saved \in {-1, received[s]}
      BY <1>7, <2>3 DEF RequestOf
    <3> QED BY <1>8, <1>9, <2>1, <2>3, <3>1, <3>2
  <2>4. CASE /\ ~es /\ streamsData' = [streamsData EXCEPT ![s].saved = 0] /\ UNCHANGED seen
    <3>1. /\ streamsData' \in [StreamIds -> Entry] /\ streamsData'[s].saved = 0
          /\ streamsData'[s].here = streamsData[s].here
          /\ streamsData'[s].data = streamsData[s].data
          /\ streamsData'[s].url = streamsData[s].url
          /\ \A x \in StreamIds \ {s} : streamsData'[x] = streamsData[x]
      <4>1. streamsData' = [streamsData EXCEPT ![s] = [streamsData[s] EXCEPT !.saved = 0]]
        BY <2>4
      <4>2. s \in StreamIds
        BY <1>2
      <4>3. /\ streamsData \in [StreamIds -> Entry] /\ streamsData[s] \in Entry
        BY <1>8
      <4> DEFINE e == [streamsData[s] EXCEPT !.saved = 0]
      <4>4. /\ e \in Entry /\ e.saved = 0 /\ e.here = streamsData[s].here
            /\ e.data = streamsData[s].data /\ e.url = streamsData[s].url
        BY <4>3 DEF Entry
      <4>5. streamsData' = [streamsData EXCEPT ![s] = e]
        BY <4>1
      <4> HIDE DEF e
      <4> QED BY <4>2, <4>3, <4>4, <4>5
    <3> QED BY <1>6, <1>8, <1>9, <2>1, <2>4, <3>1
  <2> QED BY <1>11, <2>2, <2>3, <2>4 DEF HeadersDelivered
<1> HIDE DEF Done
<1>12. Done
  BY <1>3, <1>10, <1>11
<1>13. SwiftTypes'
  BY <1>1, <1>2, <1>12 DEF KInv, SwiftTypes, Done
<1>14. ASSUME NEW x \in StreamIds PROVE Known(x)' /\ EntryOf(x)' /\ RequestOf(x)'
  <2>1. Known(x) /\ EntryOf(x) /\ RequestOf(x) /\ ~First(x)'
    BY <1>1 DEF KInv, First
  <2>2. CASE x # s
    <3>1. x \in delivered /\ Live(tbl, x) => tbl.strm[x].rd
      <4>1. held.s = 0 /\ x # 0
        BY <1>1, StreamIdsAssumption DEF SInv, ReadInv
      <4> QED BY <2>1, <4>1 DEF Known
    <3>2. /\ streamsData'[x] = streamsData[x] /\ seen'[x] = seen[x] /\ ~First(x)
          /\ x \in trailed' <=> x \in trailed
          /\ x \in delivered' <=> x \in delivered
      BY <1>1, <1>5, <1>12, <2>2 DEF Done
    <3>3. Known(x)'
      BY <1>1, <2>1, <3>1, <3>2 DEF Known
    <3>4. EntryOf(x)' /\ RequestOf(x)'
      BY <1>1, <2>1, <3>2 DEF EntryOf, RequestOf
    <3> QED BY <3>3, <3>4
  <2>3. CASE x = s
    <3>1. s \in delivered' <=> es
      BY <1>1, <1>6
    <3>2. Known(x)'
      BY <1>1, <1>6, <1>12, <2>1, <2>3, <3>1 DEF Known, Done
    <3>3. EntryOf(x)'
      BY <1>1, <1>2, <1>7, <1>12, <2>1, <2>3 DEF EntryOf, Done
    <3>4. RequestOf(x)'
      BY <1>1, <1>12, <2>1, <2>3, <3>1 DEF RequestOf, Done
    <3> QED BY <3>2, <3>3, <3>4
  <2> QED BY <2>2, <2>3
<1> QED BY <1>13, <1>14 DEF KInv

\* The request that asked for the upgrade is handled before there are frames.
LEMMA UpgradeKept ==
  ASSUME IInv, IInv', SInv, KeptInv, KInv, NEW w \in WindowSizes, KUpgrade(w) PROVE KInv'
<1> DEFINE o == OpenIncoming(tbl, 1, initWin')
<1>1. /\ tbl = EmptyTable /\ lastRecv = 0 /\ 1 \in StreamIds /\ TableOK(tbl)
      /\ \A x \in StreamIds : tbl.strm[x] = NoStream /\ ~Live(tbl, x)
      /\ delivered = {} /\ answered = {} /\ iframe.k = "first"
  BY EmptyTableOK, NoStreamType DEF IInv, ControlInv, TableInv, KUpgrade, Upgrade, EmptyTable,
                                    Live, KeptInv, SInv, ReadInv
<1>2. /\ tbl' = ShutRd(o, 1) /\ lastRecv' = 1 /\ delivered' = {1} /\ Handle(1, 0)
      /\ UNCHANGED <<answered, iframe, streamsData, received, trailed>>
  BY DEF KUpgrade, Upgrade, response, input
<1>3. initWin' \in Windows
  BY MaxWindowAssumption DEF IInv, TableInv, Windows
<1>4. /\ \A x \in StreamIds \ {1} : o.strm[x] = NoStream
      /\ TableOK(o)
  <2>1. EntriesOK(tbl, initWin') /\ tbl.strm[1].st \in {"ABSENT", "IDLE"} /\ ~IsMine(1)
    BY <1>1, BlankEntries, <1>3 DEF EntriesOK, EntryOK, IsMine
  <2>2. \A x \in StreamIds \ {1} : o.strm[x] = tbl.strm[x]
    BY <1>1, <1>3, <2>1, OpenIncomingLife
  <2>3. TableOK(o)
    BY <1>1, <1>3, <2>1, OpenIncomingOK
  <2> QED BY <1>1, <2>2, <2>3
<1> HIDE DEF o
<1>5. /\ \A x \in StreamIds \ {1} : tbl'.strm[x] = NoStream
      /\ tbl'.strm[1].rd
  BY <1>1, <1>2, <1>4 DEF ShutRd, TableOK, Table, Stream
<1>6. \A x \in StreamIds \ {1} : ~Live(tbl', x)
  BY <1>1, <1>5 DEF Live
<1>7. \A x \in StreamIds : Known(x) /\ EntryOf(x) /\ RequestOf(x) /\ ~First(x) /\ ~First(x)'
  BY <1>1, <1>2 DEF KInv, First
<1>8. seen[1] = << >> /\ received[1] = 0 /\ ~streamsData[1].here /\ streamsData[1].saved \in {-1, 0}
  <2>1. IsNewPeerStream(1, lastRecv)
    BY <1>1 DEF IsNewPeerStream, IsMine
  <2> QED BY <1>1, <1>7, <2>1 DEF Known, EntryOf, RequestOf
<1>9. /\ seen' \in [StreamIds -> Seq(Nat)]
      /\ seen'[1] = << 0 >> /\ seen'[1] # << >>
      /\ \A x \in StreamIds \ {1} : seen'[x] = seen[x]
  BY <1>1, <1>2, <1>8, HandleEffect DEF KInv, SwiftTypes
<1>10. SwiftTypes'
  BY <1>2, <1>9 DEF KInv, SwiftTypes
<1>11. ASSUME NEW x \in StreamIds PROVE Known(x)' /\ EntryOf(x)' /\ RequestOf(x)'
  <2>1. CASE x = 1
    <3>1. ~IsNewPeerStream(1, 1)
      BY DEF IsNewPeerStream
    <3>2. Known(x)'
      BY <1>2, <1>5, <1>7, <1>8, <2>1, <3>1 DEF Known
    <3>3. EntryOf(x)' /\ RequestOf(x)'
      BY <1>1, <1>2, <1>7, <1>8, <1>9, <2>1 DEF EntryOf, RequestOf
    <3> QED BY <3>2, <3>3
  <2>2. CASE x # 1
    <3>1. IsNewPeerStream(x, 1) => IsNewPeerStream(x, 0)
      BY StreamIdsAssumption DEF IsNewPeerStream
    <3>2. x \notin delivered' /\ x \notin delivered /\ x \notin answered /\ seen'[x] = seen[x]
      BY <1>1, <1>2, <1>9, <2>2
    <3>3. Known(x)'
      BY <1>1, <1>2, <1>7, <3>1, <3>2 DEF Known
    <3>4. EntryOf(x)' /\ RequestOf(x)'
      BY <1>1, <1>2, <1>6, <1>7, <2>2, <3>2 DEF EntryOf, RequestOf
    <3> QED BY <3>3, <3>4
  <2> QED BY <2>1, <2>2
<1> QED BY <1>10, <1>11 DEF KInv

\* The entry that begin_headers makes.
LEMMA FreshEntry ==
  /\ NewEntry \in Entry /\ NewEntry.here /\ ~NewEntry.url /\ NewEntry.saved = -1
  /\ ~NewEntry.data
<1>1. /\ NoEntry \in Entry /\ ~NoEntry.here /\ ~NoEntry.url /\ NoEntry.saved = -1
      /\ ~NoEntry.data
  BY DEF NoEntry, Entry
<1> QED BY <1>1 DEF NewEntry, Entry

\* An answer makes its own entry.
LEMMA SubmitKept ==
  ASSUME IInv, SInv, KInv, NEW s \in StreamIds, NEW n \in BodySizes, KSubmitResponse(s, n)
  PROVE  KInv'
<1>1. /\ tbl' = AdjustIdle(tbl, IdleMax(localMax, pendingMax))
      /\ answered' = answered \cup {s} /\ s \in delivered /\ seen[s] # << >>
      /\ UNCHANGED <<lastRecv, delivered, iframe, held, received, seen, trailed>>
  BY DEF KSubmitResponse, SubmitResponse, EnterSend, ids, history, input
<1>2. Ages(tbl, tbl') /\ Calm(tbl, tbl') /\ Spares(tbl, tbl')
  <2>1. initWin \in Windows /\ TableOK(tbl) /\ EntriesOK(tbl, initWin)
    BY MaxWindowAssumption DEF IInv, TableInv, Windows, SInv, LifeInv
  <2>2. IdleMax(localMax, pendingMax) \in Nat
    BY LimitTypes DEF IInv
  <2> QED BY <1>1, <2>1, <2>2, TrimAges
<1> DEFINE e == [NewEntry EXCEPT !.data = TRUE]
<1>3. e \in Entry /\ e.here /\ e.data /\ ~e.url /\ e.saved = -1
  BY FreshEntry DEF Entry
<1>4. streamsData' = [streamsData EXCEPT ![s] = e] /\ streamsData \in [StreamIds -> Entry]
  BY DEF KSubmitResponse, KInv, SwiftTypes
<1> HIDE DEF e
<1>5. /\ streamsData' \in [StreamIds -> Entry] /\ streamsData'[s] = e
      /\ \A x \in StreamIds \ {s} : streamsData'[x] = streamsData[x]
  BY <1>3, <1>4
<1>6. SwiftTypes'
  BY <1>1, <1>5 DEF KInv, SwiftTypes
<1>7. ASSUME NEW x \in StreamIds PROVE Known(x)' /\ EntryOf(x)' /\ RequestOf(x)'
  <2>1. /\ Known(x) /\ EntryOf(x) /\ RequestOf(x)
        /\ First(x)' => First(x)
        /\ First(x) => First(x)'
    BY <1>1 DEF KInv, First
  <2>2. /\ Live(tbl', x) <=> Live(tbl, x)
        /\ Live(tbl', x) /\ tbl.strm[x].rd => tbl'.strm[x].rd
        /\ Live(tbl', x) /\ tbl.strm[x].st = "CLOSING" => tbl'.strm[x].st = "CLOSING"
    BY <1>2 DEF Ages, Spares
  <2>3. Known(x)'
    BY <1>1, <2>1, <2>2 DEF Known
  <2>4. CASE x = s
    <3>1. EntryOf(x)'
      BY <1>1, <1>3, <1>5, <2>1, <2>2, <2>4 DEF EntryOf
    <3>2. RequestOf(x)'
      BY <1>1, <1>3, <1>5, <2>1, <2>2, <2>4 DEF RequestOf
    <3> QED BY <2>3, <3>1, <3>2
  <2>5. CASE x # s
    <3>1. EntryOf(x)'
      BY <1>1, <1>5, <2>1, <2>2, <2>5 DEF EntryOf
    <3>2. RequestOf(x)'
      BY <1>1, <1>5, <2>1, <2>2, <2>5 DEF RequestOf
    <3> QED BY <2>3, <3>1, <3>2
  <2> QED BY <2>3, <2>4, <2>5
<1> QED BY <1>6, <1>7 DEF KInv

\* A request makes its entry, if it is taken.
LEMMA RecvRequestKept ==
  ASSUME IInv, SInv, KeptInv, KInv, NEW s \in StreamIds, NEW es \in BOOLEAN,
         NEW d \in StreamOrNone, KRecvRequest(s, es, d)
  PROVE  KInv'
<1>1. /\ RecvRequest(s, es, d) /\ UNCHANGED <<received, seen, trailed>>
      /\ IF RequestVerdict(s, d) = "open"
         THEN \E u \in BOOLEAN : streamsData' = [streamsData EXCEPT ![s] = [NewEntry EXCEPT !.url = u]]
         ELSE UNCHANGED streamsData
  BY DEF KRecvRequest
<1>2. /\ pc = "recv" /\ iframe.k = "none" /\ ~Live(tbl, s) /\ RecordId(s)
      /\ UNCHANGED <<held, delivered, answered>>
      /\ \/ OpenRequest(s, es, d)
         \/ RefuseRequest(s, d) \/ BadRequest(s, d) \/ IgnoreRequest(s, d)
  BY <1>1 DEF RecvRequest, Begins, control, response
<1>3. \A x \in StreamIds : IsNewPeerStream(x, lastRecv') => IsNewPeerStream(x, lastRecv)
  BY <1>2, RecvIds DEF RecordId, IsNewPeerStream
<1>4. \A x \in StreamIds : Known(x) /\ EntryOf(x) /\ RequestOf(x) /\ ~First(x)
  BY <1>2 DEF KInv, First
<1>5. ASSUME OpenRequest(s, es, d) PROVE KInv'
  <2>1. /\ IsNewPeerStream(s, lastRecv) /\ Live(tbl', s) /\ Spares(tbl, tbl')
        /\ \A x \in StreamIds \ {s} : Live(tbl', x) =>
             /\ Live(tbl, x)
             /\ tbl'.strm[x].st = "CLOSING" <=> tbl.strm[x].st = "CLOSING"
             /\ tbl.strm[x].rd => tbl'.strm[x].rd
    BY <1>2, <1>5, OpenRequestAges
  <2>2. /\ iframe'.k = "HEADERS" /\ iframe'.s = s /\ ~iframe'.trailer
    BY <1>5 DEF OpenRequest, HeadersFrame
  <2>3. s \notin delivered /\ s \notin answered /\ seen[s] = << >> /\ received[s] = 0
    BY <1>4, <2>1 DEF Known, KeptInv
  <2>4. PICK u \in BOOLEAN : streamsData' = [streamsData EXCEPT ![s] = [NewEntry EXCEPT !.url = u]]
    BY <1>1, <1>5 DEF OpenRequest
  <2> DEFINE e == [NewEntry EXCEPT !.url = u]
  <2>5. e \in Entry /\ e.here /\ e.saved = -1
    BY FreshEntry DEF Entry
  <2>6. streamsData' = [streamsData EXCEPT ![s] = e] /\ streamsData \in [StreamIds -> Entry]
    BY <2>4 DEF KInv, SwiftTypes
  <2> HIDE DEF e
  <2>7. /\ streamsData' \in [StreamIds -> Entry] /\ streamsData'[s] = e
        /\ \A x \in StreamIds \ {s} : streamsData'[x] = streamsData[x]
    BY <2>5, <2>6
  <2>8. SwiftTypes'
    BY <1>1, <2>7 DEF KInv, SwiftTypes
  <2>9. ASSUME NEW x \in StreamIds PROVE Known(x)' /\ EntryOf(x)' /\ RequestOf(x)'
    <3>1. CASE x = s
      <4>1. Known(x)' /\ First(x)'
        BY <1>1, <1>2, <2>2, <2>3, <3>1 DEF Known, First
      <4>2. EntryOf(x)'
        BY <1>1, <1>2, <2>1, <2>3, <2>5, <2>7, <3>1 DEF EntryOf
      <4>3. RequestOf(x)'
        BY <1>1, <1>2, <2>3, <2>5, <2>7, <3>1, <4>1 DEF RequestOf
      <4> QED BY <4>1, <4>2, <4>3
    <3>2. CASE x # s
      <4>1. ~First(x)'
        BY <2>2, <3>2 DEF First
      <4>2. /\ Live(tbl', x) => Live(tbl, x)
            /\ Live(tbl, x) => Live(tbl', x)
            /\ Live(tbl', x) /\ tbl.strm[x].rd => tbl'.strm[x].rd
            /\ Live(tbl', x) /\ tbl.strm[x].st = "CLOSING" => tbl'.strm[x].st = "CLOSING"
            /\ streamsData'[x] = streamsData[x]
        BY <2>1, <2>7, <3>2 DEF Spares
      <4>3. Known(x)'
        BY <1>1, <1>2, <1>3, <1>4, <4>1, <4>2 DEF Known
      <4>4. EntryOf(x)'
        BY <1>1, <1>2, <1>4, <4>2 DEF EntryOf
      <4>5. RequestOf(x)'
        BY <1>1, <1>2, <1>4, <4>1, <4>2 DEF RequestOf
      <4> QED BY <4>3, <4>4, <4>5
    <3> QED BY <3>1, <3>2
  <2> QED BY <2>8, <2>9 DEF KInv
<1>6. ASSUME RefuseRequest(s, d) \/ BadRequest(s, d) \/ IgnoreRequest(s, d) PROVE KInv'
  <2>1. /\ tbl' = tbl /\ iframe'.k = "ignoredHeaders" /\ streamsData' = streamsData
    BY <1>1, <1>2, <1>6 DEF RefuseRequest, BadRequest, IgnoreRequest, AddRst, MarkClosing,
                            IgnoredHeaders, NoFrame
  <2>2. SwiftTypes'
    BY <1>1, <2>1 DEF KInv, SwiftTypes
  <2>3. ASSUME NEW x \in StreamIds PROVE Known(x)' /\ EntryOf(x)' /\ RequestOf(x)'
    <3>1. ~First(x)'
      BY <2>1 DEF First
    <3>2. Known(x)'
      BY <1>1, <1>2, <1>3, <1>4, <2>1, <3>1 DEF Known
    <3>3. EntryOf(x)'
      BY <1>1, <1>2, <1>4, <2>1 DEF EntryOf
    <3>4. RequestOf(x)'
      BY <1>1, <1>2, <1>4, <2>1, <3>1 DEF RequestOf
    <3> QED BY <3>2, <3>3, <3>4
  <2> QED BY <2>2, <2>3 DEF KInv
<1> QED BY <1>2, <1>5, <1>6

\* A DATA frame goes out.
LEMMA SendDataKept ==
  ASSUME IInv, IInv', SInv, KInv, NEW s \in StreamIds, KSendData(s) PROVE KInv'
<1>1. /\ SendData(s) /\ DropClosed /\ UNCHANGED <<received, seen, trailed>>
  BY DEF KSendData
<1>2. UNCHANGED <<delivered, answered, lastRecv, iframe, held>> /\ Ages(tbl, tbl')
  BY <1>1, SendDataEffect DEF SendData, PicksData, Sending, ids, input
<1>3. Endures /\ ReadsOn /\ HoldsOn
  BY <1>2 DEF Endures, Ages, ReadsOn, First, HoldsOn
<1> QED BY <1>1, <1>2, <1>3, PlainKept

\* The steps on which no callback but on_stream_close is made.
LEMMA PlainStepKept ==
  ASSUME IInv, IInv', SInv, WireInv, KInv, KPlain PROVE KInv'
<1>1. Plain /\ DropClosed /\ UNCHANGED <<received, seen, trailed>>
  BY DEF KPlain
<1> QED BY <1>1, PlainIds, PlainEndures, PlainReads, PlainHolds, PlainKept

\* A response without a body is never submitted.
LEMMA EndEmptyKept ==
  ASSUME KInv, UNCHANGED <<vars, streamsData, received, seen, trailed>> PROVE KInv'
<1>1. UNCHANGED <<tbl, lastRecv, iframe, held, delivered, answered>>
  BY DEF vars, ids, input, control, history, response
<1>2. SwiftTypes'
  BY DEF KInv, SwiftTypes
<1>3. ASSUME NEW x \in StreamIds PROVE Known(x)' /\ EntryOf(x)' /\ RequestOf(x)'
  <2>1. Known(x)'
    BY <1>1 DEF KInv, Known, First
  <2>2. EntryOf(x)'
    BY <1>1 DEF KInv, EntryOf
  <2>3. RequestOf(x)'
    BY <1>1 DEF KInv, RequestOf, First
  <2> QED BY <2>1, <2>2, <2>3
<1> QED BY <1>2, <1>3 DEF KInv

-----------------------------------------------------------------------------
(* The invariants. *)

\* The invariant holds initially.
LEMMA InitK ==
  ASSUME KInit PROVE KInv
<1>1. /\ tbl = EmptyTable /\ lastRecv = 0 /\ delivered = {} /\ answered = {}
      /\ iframe.k = "first"
      /\ \A s \in StreamIds : streamsData[s] = NoEntry /\ received[s] = 0 /\ seen[s] = << >>
  BY DEF KInit, Init, FirstSettings
<1>2. NoEntry \in Entry /\ ~NoEntry.here /\ ~NoEntry.url /\ NoEntry.saved = -1
  BY DEF NoEntry, Entry
<1>3. SwiftTypes
  BY <1>2 DEF KInit, SwiftTypes
<1>4. ASSUME NEW s \in StreamIds PROVE ~Live(tbl, s)
  BY <1>1, NoStreamType DEF EmptyTable, Live
<1>5. ASSUME NEW s \in StreamIds PROVE Known(s) /\ EntryOf(s) /\ RequestOf(s)
  <2>1. Known(s)
    BY <1>1, <1>4 DEF Known
  <2>2. EntryOf(s)
    BY <1>1, <1>2, <1>4 DEF EntryOf
  <2>3. RequestOf(s)
    BY <1>1, <1>2, <1>4 DEF RequestOf
  <2> QED BY <2>1, <2>2, <2>3
<1> QED BY <1>3, <1>5 DEF KInv

\* Every step keeps it.
LEMMA NextK ==
  ASSUME IInv, IInv', SInv, WireInv, KeptInv, KInv, [KNext]_kvars PROVE KInv'
<1>1. ASSUME NEW w \in WindowSizes, KUpgrade(w) PROVE KInv'
  BY <1>1, UpgradeKept
<1>2. CASE KFrameDelivered
  BY <1>2, FrameDeliveredKept
<1>3. CASE KPlain
  BY <1>3, PlainStepKept
<1>4. ASSUME NEW s \in StreamIds, NEW es \in BOOLEAN, KRecvData(s, es) PROVE KInv'
  BY <1>4, RecvDataKept
<1>5. ASSUME NEW s \in StreamIds, NEW es \in BOOLEAN, NEW d \in StreamOrNone,
             KRecvRequest(s, es, d)
      PROVE  KInv'
  BY <1>5, RecvRequestKept
<1>6. ASSUME NEW s \in StreamIds, NEW n \in BodySizes, KSubmitResponse(s, n) PROVE KInv'
  BY <1>6, SubmitKept
<1>7. ASSUME NEW s \in StreamIds, EndEmpty(s) PROVE KInv'
  BY <1>7, EndEmptyKept DEF EndEmpty
<1>8. ASSUME NEW s \in StreamIds, KSendData(s) PROVE KInv'
  BY <1>8, SendDataKept
<1>9. CASE UNCHANGED kvars
  BY <1>9, EndEmptyKept DEF kvars, swift
<1> QED BY <1>1, <1>2, <1>3, <1>4, <1>5, <1>6, <1>7, <1>8, <1>9 DEF KNext

\* The invariants of the session hold under HTTP2Session.swift as well, and KInv with them.
LEMMA SwiftInvariance ==
  KSpec => [](IInv /\ SInv /\ WireInv /\ KeptInv /\ AnswersInv /\ KInv)
<1> DEFINE Inv == IInv /\ SInv /\ WireInv /\ KeptInv /\ AnswersInv /\ KInv
<1>1. KInit => Inv
  BY InitIInv, InitSInv, InitWire, InitKept, InitAnswers, InitK DEF KInit
<1>2. Inv /\ [KNext]_kvars => Inv'
  <2> SUFFICES ASSUME Inv, [KNext]_kvars PROVE Inv'
    OBVIOUS
  <2>1. [Faultless]_vars /\ [Next]_vars
    BY SwiftStep, FaultlessStep
  <2>2. IInv'
    BY <2>1, NextIInv
  <2>3. SInv'
    BY <2>1, NextSInv
  <2>4. WireInv'
    BY <2>1, <2>2, NextWire
  <2>5. KeptInv'
    BY <2>1, <2>2, NextKept
  <2>6. KInv'
    BY <2>2, NextK
  <2>7. AnswersInv'
    <3>1. RequestsKnown'
      BY <2>2, <2>6 DEF KInv, Known, RequestsKnown, IInv, ControlInv
    <3> QED BY <2>1, <2>2, <3>1, NextAnswers
  <2> QED BY <2>2, <2>3, <2>4, <2>5, <2>6, <2>7
<1> QED BY <1>1, <1>2, PTL DEF KSpec

\* The data provider finds its entry whenever the library calls it, and an entry is left over
\* only where an answer came after its stream was closed, whatever frames, resets and trailers
\* came in between (HTTP2Session.swift:254, 319, 384, 409).
THEOREM EntriesAreKept == KSpec => []EntriesKept
<1>1. IInv /\ WireInv /\ KInv => EntriesKept
  <2> SUFFICES ASSUME IInv, WireInv, KInv, NEW s \in StreamIds
               PROVE  /\ tbl.strm[s].item # "none" /\ MaySendData(s) => streamsData[s].data
                      /\ streamsData[s].here /\ ~Live(tbl, s) => s \in answered
    BY DEF EntriesKept, ProviderFindsData, OnlyLateAnswersLinger
  <2>1. tbl.strm[s].item # "none" => s \in answered
    BY DEF WireInv, Wire
  <2>2. MaySendData(s) => Live(tbl, s)
    BY DEF MaySendData
  <2>3. EntryOf(s)
    BY DEF KInv
  <2> QED BY <2>1, <2>2, <2>3 DEF EntryOf
<1> QED BY <1>1, SwiftInvariance, PTL

\* A request that does not end in trailers reaches the application once, with every chunk of
\* its body, in the callback for its last frame, unless its fields make no URL
\* (HTTP2Session.swift:169, 197, 208, 237-249).
THEOREM RequestsAreWhole == KSpec => []WholeRequest
<1>1. IInv /\ KInv => WholeRequest
  BY DEF KInv, RequestOf, WholeRequest, UnhandledHasNoUrl, IInv, ControlInv
<1> QED BY <1>1, SwiftInvariance, PTL

\* The data provider of HTTP2Session.swift does not fail, and so no answer it submits is lost:
\* it is sent to its end, or still has a DATA item, when nghttp2_session_send has returned
\* (HTTP2Session.swift:319, 380-433; nghttp2_session.c:1955-2048, 2612-2634).
THEOREM AnswersAreSent == KSpec => []NoAnswerLost
<1>1. IInv /\ SInv /\ KeptInv /\ AnswersInv => NoAnswerLost
  BY AnswersImply DEF IInv, ControlInv
<1> QED BY <1>1, SwiftInvariance, PTL
=============================================================================
