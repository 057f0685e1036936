---------------------------- MODULE ExchangeProofs ----------------------------
(***************************************************************************)
(* Every session implements Exchange: the step of the session that writes a *)
(* frame is a step of the abstract specification, every other one a stutter *)
(* or the arrival of a request.  The invariant WireInv says what was sent   *)
(* on a stream whose answer is queued, under way or done; from it follows   *)
(* besides that no answer is lost.  Most steps send nothing and answer      *)
(* nothing, and are Quiet: one lemma per step says so, and one lemma per    *)
(* invariant what Quiet steps do to it.                                     *)
(*                                                                         *)
(* The second part says that nothing that is to be sent is forgotten: when  *)
(* nghttp2_session_send comes back the queues are empty, and every answer   *)
(* the application gave is on the wire, has a DATA item that waits for a    *)
(* window, or was for a stream that is no longer open.                      *)
(***************************************************************************)
EXTENDS SessionProofs

\* No answer is queued twice
Once(q) == \A i, j \in DOMAIN q : q[i] = q[j] /\ q[i].f = "HEADERS" => i = j

\* What was sent on stream s.  Its answer is queued only before its header block is out,
\* its DATA item waits between the header block and END_STREAM, and a stream that was
\* reset is gone, and will not be opened again
Wire(s) ==
  /\ Headers(s) \in ToSet(obReg) => s \in answered /\ out[s].hdr = 0
  /\ tbl.strm[s].item # "none" => out[s].hdr = 1 /\ out[s].fin = 0
  /\ s \notin answered => out[s].hdr = 0
  /\ out[s].hdr = 0 => out[s].fin = 0
  /\ tbl.strm[s].wr => out[s].fin = 1
  /\ out[s].rst # 0 => ~Live(tbl, s) /\ ~IsNewPeerStream(s, lastRecv)

WireInv == Once(obReg) /\ \A s \in StreamIds : Wire(s)

\* The frames of q and of r that are answers are the same
SameHeaders(q, r) ==
  /\ Once(q) => Once(r)
  /\ \A s \in StreamIds : Headers(s) \in ToSet(r) <=> Headers(s) \in ToSet(q)

\* A stream that comes to life is one the peer uses now for the first time, and on the others
\* what is being reset, or shut, stays so
Renews ==
  \A x \in StreamIds : Live(tbl', x) =>
    \/ /\ Live(tbl, x)
       /\ tbl.strm[x].st = "CLOSING" => tbl'.strm[x].st = "CLOSING"
       /\ tbl.strm[x].rd => tbl'.strm[x].rd
    \/ IsNewPeerStream(x, lastRecv) /\ ~IsNewPeerStream(x, lastRecv')

\* A request may come to the application, whose stream is known unless an upgrade failed
Asks ==
  \/ delivered' = delivered
  \/ \E s \in StreamIds :
       /\ delivered' = delivered \cup {s}
       /\ ~IsNewPeerStream(s, lastRecv') \/ "BAD_UPGRADE" \in Inputs

\* A step that sends nothing on any stream, and answers nothing
Quiet ==
  /\ UNCHANGED <<out, left, answered>>
  /\ SameHeaders(obReg, obReg')
  /\ Waits(tbl, tbl') /\ Renews /\ Asks
  /\ lastRecv' >= lastRecv /\ goaway \subseteq goaway'
  /\ pc' # "idle"

-----------------------------------------------------------------------------
(* The queue. *)

\* Frames that are no answers may be queued behind the others.
LEMMA ConcatHeaders ==
  ASSUME NEW q \in Seq(OutFrame), NEW r \in Seq(OutFrame),
         \A i \in DOMAIN r : r[i].f # "HEADERS"
  PROVE  SameHeaders(q, q \o r)
<1> DEFINE c == q \o r
<1>1. DOMAIN q = 1 .. Len(q) /\ Len(q) \in Nat /\ DOMAIN r = 1 .. Len(r) /\ Len(r) \in Nat
  BY LenProperties
<1>2. /\ c \in Seq(OutFrame) /\ Len(c) = Len(q) + Len(r)
      /\ \A i \in 1 .. Len(q) + Len(r) : c[i] = IF i <= Len(q) THEN q[i] ELSE r[i - Len(q)]
  BY ConcatProperties
<1>3. DOMAIN c = 1 .. Len(q) + Len(r)
  BY <1>2, LenProperties
<1> HIDE DEF c
<1>4. \A i \in DOMAIN c : c[i].f = "HEADERS" => i \in DOMAIN q /\ c[i] = q[i]
  <2> TAKE i \in DOMAIN c
  <2>1. CASE i <= Len(q)
    BY <2>1, <1>1, <1>2, <1>3
  <2>2. CASE ~(i <= Len(q))
    <3>1. i - Len(q) \in 1 .. Len(r) /\ c[i] = r[i - Len(q)]
      BY <2>2, <1>1, <1>2, <1>3
    <3> QED BY <3>1, <1>1
  <2> QED BY <2>1, <2>2
<1>5. \A i \in DOMAIN q : i \in DOMAIN c /\ c[i] = q[i]
  BY <1>1, <1>2, <1>3
<1>6. Once(q) => Once(c)
  BY <1>4 DEF Once
<1>7. ASSUME NEW s \in StreamIds
      PROVE  Headers(s) \in ToSet(c) <=> Headers(s) \in ToSet(q)
  <2>1. Headers(s).f = "HEADERS"
    BY DEF Headers
  <2> QED BY <2>1, <1>4, <1>5 DEF ToSet
<1> QED BY <1>6, <1>7 DEF SameHeaders, c

\* The same for one frame.
LEMMA AppendHeaders ==
  ASSUME NEW q \in Seq(OutFrame), NEW f \in OutFrame, f.f # "HEADERS"
  PROVE  SameHeaders(q, Append(q, f))
<1>1. << f >> \in Seq(OutFrame) /\ \A i \in DOMAIN << f >> : << f >>[i].f # "HEADERS"
  OBVIOUS
<1>2. Append(q, f) = q \o << f >>
  OBVIOUS
<1> QED BY <1>1, <1>2, ConcatHeaders

\* An answer that is not queued yet may be.
LEMMA AppendOnce ==
  ASSUME NEW q \in Seq(OutFrame), NEW f \in OutFrame, Once(q), f \notin ToSet(q)
  PROVE  Once(Append(q, f))
<1> DEFINE a == Append(q, f)
<1>1. DOMAIN q = 1 .. Len(q) /\ Len(q) \in Nat
  BY LenProperties
<1>2. /\ a \in Seq(OutFrame) /\ Len(a) = Len(q) + 1 /\ a[Len(q) + 1] = f
      /\ \A i \in 1 .. Len(q) : a[i] = q[i]
  BY AppendProperties
<1>3. DOMAIN a = 1 .. Len(q) + 1
  BY <1>2, LenProperties
<1> HIDE DEF a
<1>4. \A i \in DOMAIN q : q[i] # f
  BY DEF ToSet
<1>5. \A i \in DOMAIN a : (i \in DOMAIN q /\ a[i] = q[i]) \/ (i = Len(q) + 1 /\ a[i] = f)
  BY <1>1, <1>2, <1>3
<1> QED BY <1>4, <1>5 DEF Once, a

\* What is taken from the queue is not in it any more, if it is an answer.
LEMMA TailOnce ==
  ASSUME NEW q \in Seq(OutFrame), q # << >>, Once(q)
  PROVE  /\ Once(Tail(q))
         /\ Head(q).f = "HEADERS" => Head(q) \notin ToSet(Tail(q))
<1> DEFINE h == Head(q)
           l == Tail(q)
<1>1. DOMAIN q = 1 .. Len(q) /\ Len(q) \in Nat
  BY LenProperties
<1>2. Len(q) > 0 /\ h = q[1]
  BY <1>1, EmptySeq
<1>3. /\ l \in Seq(OutFrame) /\ Len(l) = Len(q) - 1
      /\ \A i \in 1 .. Len(l) : l[i] = q[i + 1]
  BY HeadTailProperties
<1>4. DOMAIN l = 1 .. Len(q) - 1
  BY <1>3, LenProperties
<1> HIDE DEF h, l
<1>5. \A i \in DOMAIN l : i \in Nat \ {0} /\ i + 1 \in DOMAIN q /\ l[i] = q[i + 1]
  BY <1>1, <1>3, <1>4
<1>6. Once(l)
  <2> SUFFICES ASSUME NEW i \in DOMAIN l, NEW j \in DOMAIN l, l[i] = l[j], l[i].f = "HEADERS"
               PROVE  i = j
    BY DEF Once
  <2>1. i + 1 = j + 1
    BY <1>5 DEF Once
  <2> QED BY <2>1, <1>5
<1>7. ASSUME h.f = "HEADERS", h \in ToSet(l) PROVE FALSE
  <2>1. PICK i \in DOMAIN l : l[i] = h
    BY <1>7 DEF ToSet
  <2>2. 1 = i + 1
    BY <2>1, <1>1, <1>2, <1>5, <1>7 DEF Once
  <2> QED BY <2>2, <1>5
<1> QED BY <1>6, <1>7 DEF h, l

\* Queues with the same answers.
LEMMA SameHeadersOrder ==
  ASSUME NEW p, NEW q, NEW r
  PROVE  SameHeaders(p, p) /\ (SameHeaders(p, q) /\ SameHeaders(q, r) => SameHeaders(p, r))
BY DEF SameHeaders

\* The session is terminated, or nothing is queued.
LEMMA TerminateHeaders ==
  ASSUME IInv, (obReg' = obReg /\ goaway' \in {goaway, goaway \cup {"RECV"}}) \/ Terminate
  PROVE  SameHeaders(obReg, obReg') /\ goaway \subseteq goaway'
<1>1. CASE obReg' = obReg /\ goaway' \in {goaway, goaway \cup {"RECV"}}
  BY <1>1, SameHeadersOrder
<1>2. CASE Terminate
  <2>1. obReg \in Seq(OutFrame) /\ Goaway(lastProc) \in OutFrame /\ Goaway(lastProc).f # "HEADERS"
    BY DEF IInv, ControlInv, Goaway, OutFrame
  <2>2. /\ goaway' = goaway \cup {"TERM_ON_SEND"}
        /\ obReg' = obReg \/ obReg' = Append(obReg, Goaway(lastProc))
    BY <1>2 DEF Terminate
  <2>3. SameHeaders(obReg, Append(obReg, Goaway(lastProc))) /\ SameHeaders(obReg, obReg)
    BY <2>1, AppendHeaders, SameHeadersOrder
  <2> QED BY <2>2, <2>3
<1> QED BY <1>1, <1>2

\* A stream is to be reset.
LEMMA RstHeaders ==
  ASSUME IInv, NEW s \in StreamIds PROVE SameHeaders(obReg, obReg \o RstItem(tbl, s))
<1>1. obReg \in Seq(OutFrame) /\ Rst(s) \in OutFrame /\ Rst(s).f # "HEADERS"
  BY DEF IInv, ControlInv, Rst, OutFrame
<1>2. /\ << Rst(s) >> \in Seq(OutFrame) /\ << >> \in Seq(OutFrame)
      /\ \A i \in DOMAIN << Rst(s) >> : << Rst(s) >>[i].f # "HEADERS"
      /\ \A i \in DOMAIN << >> : << >>[i].f # "HEADERS"
  BY <1>1
<1>3. RstItem(tbl, s) = << >> \/ RstItem(tbl, s) = << Rst(s) >>
  BY DEF RstItem
<1> QED BY <1>1, <1>2, <1>3, ConcatHeaders

-----------------------------------------------------------------------------
(* The steps that are Quiet. *)

\* A frame that resets no stream.
LEMMA RecvQuiet ==
  ASSUME IInv, pc = "recv", UNCHANGED control, UNCHANGED <<out, left, answered, delivered>>,
         Ages(tbl, tbl'), Waits(tbl, tbl'), lastRecv' >= lastRecv,
         (obReg' = obReg /\ goaway' \in {goaway, goaway \cup {"RECV"}}) \/ Terminate
  PROVE  Quiet
<1>1. Renews /\ Asks
  BY DEF Renews, Asks, Ages
<1>2. pc' # "idle"
  BY DEF control
<1> QED BY <1>1, <1>2, TerminateHeaders DEF Quiet

\* A frame that leaves the table alone besides.
LEMMA RecvIdle ==
  ASSUME IInv, pc = "recv", UNCHANGED control, UNCHANGED <<out, left, answered, delivered, tbl>>,
         lastRecv' >= lastRecv,
         (obReg' = obReg /\ goaway' \in {goaway, goaway \cup {"RECV"}}) \/ Terminate
  PROVE  Quiet
<1>1. Ages(tbl, tbl') /\ Waits(tbl, tbl')
  BY LifeReflexive
<1> QED BY <1>1, RecvQuiet

\* A frame that resets its stream.
LEMMA RecvResets ==
  ASSUME IInv, pc = "recv", UNCHANGED control,
         UNCHANGED <<out, left, answered, delivered, goaway>>,
         Ages(tbl, tbl'), Waits(tbl, tbl'), lastRecv' >= lastRecv,
         NEW s \in StreamIds, obReg' = obReg \o RstItem(tbl, s)
  PROVE  Quiet
<1>1. Renews /\ Asks
  BY DEF Renews, Asks, Ages
<1>2. pc' # "idle"
  BY DEF control
<1> QED BY <1>1, <1>2, RstHeaders DEF Quiet

\* The frames that leave the table alone.
LEMMA IdleFrames ==
  ASSUME IInv,
         \/ RecvNoSettings \/ RecvInvalid \/ FrameIgnored \/ RecvSettingsAck
         \/ RecvGoaway \/ RecvPing
         \/ \E n \in Increments : RecvConnWindowUpdate(n)
         \/ \E s \in StreamIds, es \in BOOLEAN : RecvTrailers(s, es) \/ RecvData(s, es)
  PROVE  Quiet
<1> DEFINE Rest ==
      /\ pc = "recv" /\ UNCHANGED control
      /\ UNCHANGED <<out, left, answered, delivered, tbl, lastRecv>>
      /\ (obReg' = obReg /\ goaway' \in {goaway, goaway \cup {"RECV"}}) \/ Terminate
<1>1. RecvNoSettings \/ RecvInvalid \/ FrameIgnored => Rest
  BY DEF RecvNoSettings, RecvInvalid, FrameIgnored, Single, Begins, ids, response, history, queues
<1>2. RecvSettingsAck \/ RecvGoaway \/ RecvPing => Rest
  BY DEF RecvSettingsAck, RecvGoaway, RecvPing, Single, Begins, ids, response, history, queues
<1>3. ASSUME NEW n \in Increments, RecvConnWindowUpdate(n) PROVE Rest
  BY <1>3 DEF RecvConnWindowUpdate, Single, Begins, ids, response, history
<1>4. ASSUME NEW s \in StreamIds, NEW es \in BOOLEAN, RecvTrailers(s, es) PROVE Rest
  BY <1>4 DEF RecvTrailers, Begins, ids, response, history
<1>5. ASSUME NEW s \in StreamIds, NEW es \in BOOLEAN, RecvData(s, es) PROVE Rest
  BY <1>5 DEF RecvData, Begins, ids, response, history
<1>6. Rest
  BY <1>1, <1>2, <1>3, <1>4, <1>5, Zenon
<1>7. lastRecv' >= lastRecv
  BY <1>6, RecvIds
<1> QED BY <1>6, <1>7, RecvIdle

\* RST_STREAM.
LEMMA RecvRstQuiet ==
  ASSUME IInv, SInv, NEW s \in StreamIds, RecvRst(s) PROVE Quiet
<1>1. /\ pc = "recv" /\ UNCHANGED control
      /\ UNCHANGED <<out, left, answered, delivered, lastRecv>>
      /\ UNCHANGED <<goaway, obReg>> \/ Terminate
      /\ tbl' = tbl \/ (Live(tbl, s) /\ tbl' = CloseStream(ShutRd(tbl, s), s))
  BY DEF RecvRst, Single, Begins, ids, response, history
<1>2. lastRecv' >= lastRecv
  BY <1>1, RecvIds
<1>3. Ages(tbl, tbl') /\ Waits(tbl, tbl')
  <2>1. CASE tbl' = tbl
    BY <2>1, LifeReflexive
  <2>2. CASE Live(tbl, s) /\ tbl' = CloseStream(ShutRd(tbl, s), s)
    BY <2>2, ResetStream DEF IInv, TableInv, SInv, LifeInv
  <2> QED BY <2>1, <2>2, <1>1
<1> QED BY <1>1, <1>2, <1>3, RecvQuiet

\* PRIORITY.
LEMMA RecvPriorityQuiet ==
  ASSUME IInv, SInv, NEW s \in StreamIds, NEW d \in StreamOrNone, RecvPriority(s, d)
  PROVE  Quiet
<1> DEFINE anchored == AnchorDependency(tbl, d, initWin, lastRecv)
           known == IF Mapped(tbl, s) THEN anchored ELSE CreateIdle(anchored, s, initWin)
           cap == IdleMax(localMax, pendingMax)
           u == AdjustIdle(known, cap)
<1>1. /\ pc = "recv" /\ UNCHANGED control
      /\ UNCHANGED <<out, left, answered, delivered, lastRecv>>
      /\ UNCHANGED <<goaway, obReg>> \/ Terminate
  BY DEF RecvPriority, Single, Begins, ids, response, history
<1>2. tbl' = tbl \/ (d # s /\ tbl' = u)
  BY DEF RecvPriority
<1>3. lastRecv' >= lastRecv
  BY <1>1, RecvIds
<1>4. cap \in Nat /\ initWin \in Windows
  BY LimitTypes, MaxWindowAssumption DEF IInv, TableInv, Windows
<1> HIDE DEF cap
<1>5. d # s => Ages(tbl, u) /\ Waits(tbl, u)
  BY <1>4, PriorityAges DEF IInv, TableInv, SInv, LifeInv
<1> HIDE DEF u
<1>6. Ages(tbl, tbl') /\ Waits(tbl, tbl')
  BY <1>2, <1>5, LifeReflexive
<1> QED BY <1>1, <1>3, <1>6, RecvQuiet

\* WINDOW_UPDATE of a stream.
LEMMA RecvWindowUpdateQuiet ==
  ASSUME IInv, SInv, NEW s \in StreamIds, NEW n \in Increments, RecvWindowUpdate(s, n)
  PROVE  Quiet
<1>1. /\ pc = "recv" /\ UNCHANGED control
      /\ UNCHANGED <<out, left, answered, delivered, lastRecv>>
  BY DEF RecvWindowUpdate, Single, Begins, ids, response, history
<1>2. \/ tbl' = tbl /\ (UNCHANGED <<goaway, obReg>> \/ Terminate)
      \/ Live(tbl, s) /\ AddRst(s) /\ UNCHANGED goaway
      \/ Live(tbl, s) /\ tbl' = GrowWindow(tbl, s, n) /\ UNCHANGED <<goaway, obReg>>
  BY DEF RecvWindowUpdate
<1>3. lastRecv' >= lastRecv
  BY <1>1, RecvIds
<1>4. TableOK(tbl) /\ EntriesOK(tbl, initWin)
  BY DEF IInv, TableInv, SInv, LifeInv
<1>5. CASE tbl' = tbl /\ (UNCHANGED <<goaway, obReg>> \/ Terminate)
  BY <1>1, <1>3, <1>5, RecvIdle
<1>6. CASE Live(tbl, s) /\ AddRst(s) /\ UNCHANGED goaway
  <2>1. tbl' = MarkClosing(tbl, s) /\ obReg' = obReg \o RstItem(tbl, s)
    BY <1>6 DEF AddRst
  <2>2. Ages(tbl, tbl') /\ Waits(tbl, tbl')
    BY <1>4, <2>1, MarkClosingAges
  <2> QED BY <1>1, <1>3, <1>6, <2>1, <2>2, RecvResets
<1>7. CASE Live(tbl, s) /\ tbl' = GrowWindow(tbl, s, n) /\ UNCHANGED <<goaway, obReg>>
  <2>1. Ages(tbl, tbl') /\ Waits(tbl, tbl')
    BY <1>4, <1>7, GrowWindowAges
  <2> QED BY <1>1, <1>3, <1>7, <2>1, RecvQuiet
<1> QED BY <1>2, <1>5, <1>6, <1>7

\* A frame is given up in its middle.
LEMMA FrameAbortedQuiet ==
  ASSUME IInv, SInv, FrameAborted PROVE Quiet
<1> DEFINE s == iframe.s
<1>1. /\ pc = "recv" /\ UNCHANGED control
      /\ tbl' = MarkClosing(tbl, s) /\ obReg' = obReg \o RstItem(tbl, s)
      /\ UNCHANGED <<out, left, answered, delivered, goaway, lastRecv>>
  BY DEF FrameAborted, AddRst, ids, response, history
<1>2. s \in StreamIds
  BY DEF FrameAborted, IInv, ControlInv, InFrame
<1> HIDE DEF s
<1>3. Ages(tbl, tbl') /\ Waits(tbl, tbl')
  BY <1>1, <1>2, MarkClosingAges DEF IInv, TableInv, SInv, LifeInv
<1>4. lastRecv' >= lastRecv
  BY <1>1, RecvIds
<1> QED BY <1>1, <1>2, <1>3, <1>4, RecvResets

\* A malformed message.
LEMMA FrameViolatesMessagingQuiet ==
  ASSUME IInv, SInv, FrameViolatesMessaging PROVE Quiet
<1> DEFINE s == iframe.s
           m == MarkClosing(tbl, s)
<1>1. /\ pc = "recv" /\ UNCHANGED control /\ Live(tbl, s)
      /\ tbl' = EndStream(m, s, iframe.es) /\ obReg' = obReg \o RstItem(tbl, s)
      /\ UNCHANGED <<out, left, answered, delivered, goaway, lastRecv>>
  BY DEF FrameViolatesMessaging, FrameStreamOpen, ids, response, history
<1>2. s \in StreamIds /\ iframe.es \in BOOLEAN
  BY DEF FrameViolatesMessaging, IInv, ControlInv, InFrame
<1> HIDE DEF s
<1>3. TableOK(tbl) /\ EntriesOK(tbl, initWin)
  BY DEF IInv, TableInv, SInv, LifeInv
<1>4. EntriesOK(m, initWin) /\ Ages(tbl, m) /\ Waits(tbl, m) /\ Spares(tbl, m)
  BY <1>2, <1>3, MarkClosingAges
<1>5. TableOK(m) /\ Live(m, s)
  BY <1>1, <1>2, <1>3, <1>4, MarkClosingOK DEF Spares
<1> HIDE DEF m
<1>6. Ages(m, tbl') /\ Waits(m, tbl')
  BY <1>1, <1>2, <1>4, <1>5, EndStreamAges
<1>7. Ages(tbl, tbl') /\ Waits(tbl, tbl')
  BY <1>4, <1>6, LifeTransitive
<1>8. lastRecv' >= lastRecv
  BY <1>1, RecvIds
<1> QED BY <1>1, <1>2, <1>7, <1>8, RecvResets

\* The header block does not decode.
LEMMA CompressionErrorQuiet ==
  ASSUME IInv, SInv, CompressionError PROVE Quiet
<1> DEFINE s == iframe.s
           reset == iframe.k = "HEADERS" /\ FrameStreamOpen
           reg == IF reset THEN Append(obReg, Rst(s)) ELSE obReg
<1>1. /\ pc = "recv" /\ UNCHANGED control
      /\ tbl' = (IF reset THEN MarkClosing(tbl, s) ELSE tbl)
      /\ goaway' = goaway \cup {"TERM_ON_SEND"}
      /\ obReg' = reg \/ obReg' = Append(reg, Goaway(lastProc))
      /\ UNCHANGED <<out, left, answered, delivered, lastRecv>>
  BY DEF CompressionError, ids, response, history
<1>2. reset => s \in StreamIds
  BY DEF IInv, ControlInv, InFrame
<1> HIDE DEF s, reset
<1>3. Ages(tbl, tbl') /\ Waits(tbl, tbl')
  <2>1. CASE reset
    BY <1>1, <1>2, <2>1, MarkClosingAges DEF IInv, TableInv, SInv, LifeInv
  <2>2. CASE ~reset
    BY <1>1, <2>2, LifeReflexive
  <2> QED BY <2>1, <2>2
<1>4. obReg \in Seq(OutFrame)
  BY DEF IInv, ControlInv
<1>5. reg \in Seq(OutFrame) /\ SameHeaders(obReg, reg)
  <2>1. CASE reset
    <3>1. Rst(s) \in OutFrame /\ Rst(s).f # "HEADERS"
      BY <1>2, <2>1 DEF Rst, OutFrame
    <3>2. SameHeaders(obReg, Append(obReg, Rst(s))) /\ Append(obReg, Rst(s)) \in Seq(OutFrame)
      BY <1>4, <3>1, AppendHeaders
    <3> QED BY <2>1, <3>2
  <2>2. CASE ~reset
    BY <1>4, <2>2, SameHeadersOrder
  <2> QED BY <2>1, <2>2
<1> HIDE DEF reg
<1>6. SameHeaders(reg, reg) /\ SameHeaders(reg, Append(reg, Goaway(lastProc)))
  <2>1. Goaway(lastProc) \in OutFrame /\ Goaway(lastProc).f # "HEADERS"
    BY DEF IInv, ControlInv, Goaway, OutFrame
  <2> QED BY <1>5, <2>1, AppendHeaders, SameHeadersOrder
<1>7. SameHeaders(reg, obReg')
  BY <1>1, <1>6
<1>8. SameHeaders(obReg, obReg')
  BY <1>5, <1>7, SameHeadersOrder
<1>9. Renews /\ Asks /\ lastRecv' >= lastRecv /\ goaway \subseteq goaway' /\ pc' # "idle"
  BY <1>1, <1>3, RecvIds DEF Renews, Asks, Ages, control
<1> QED BY <1>1, <1>3, <1>8, <1>9 DEF Quiet

\* SETTINGS queue nothing but resets.
LEMMA RecvSettingsQuiet ==
  ASSUME IInv, SInv, NEW w \in WindowSizes, RecvSettings(w) PROVE Quiet
<1> DEFINE R == {s \in WindowOverflows(tbl, w, initWin) : RstItem(tbl, s) # << >>}
<1>1. /\ pc = "recv" /\ UNCHANGED control
      /\ UNCHANGED <<out, left, answered, delivered, lastRecv>>
  BY DEF RecvSettings, ids, response, history
<1>2. w \in Nat /\ MaxWindow \in Nat
  BY WindowAssumption, MaxWindowAssumption
<1>3. lastRecv' >= lastRecv
  BY <1>1, RecvIds
<1>4. CASE w > MaxWindow
  <2>1. UNCHANGED tbl /\ Terminate
    BY <1>2, <1>4 DEF RecvSettings
  <2> QED BY <1>1, <1>3, <2>1, RecvIdle
<1>5. CASE w <= MaxWindow
  <2>1. /\ tbl' = UpdateInitialWindow(tbl, w, initWin) /\ UNCHANGED goaway
        /\ \E order \in Orders(R) : obReg' = obReg \o [i \in DOMAIN order |-> Rst(order[i])]
    <3>1. ~(w > MaxWindow)
      BY <1>2, <1>5
    <3> QED BY <3>1, Zenon DEF RecvSettings
  <2>2. PICK order \in Orders(R) : obReg' = obReg \o [i \in DOMAIN order |-> Rst(order[i])]
    BY <2>1
  <2>3. w \in 0 .. MaxWindow /\ initWin \in 0 .. MaxWindow
    BY <1>2, <1>5 DEF IInv, TableInv
  <2>4. Ages(tbl, tbl') /\ Waits(tbl, tbl')
    BY <2>1, <2>3, UpdateInitialWindowAges DEF IInv, TableInv, SInv, LifeInv
  <2>5. R \in SUBSET StreamIds
    BY DEF WindowOverflows
  <2> HIDE DEF R
  <2>6. SameHeaders(obReg, obReg')
    <3> DEFINE rs == [i \in DOMAIN order |-> Rst(order[i])]
    <3>1. order \in Seq(R)
      BY <2>5, OrdersList
    <3>2. DOMAIN order = 1 .. Len(order) /\ Len(order) \in Nat /\ \A i \in DOMAIN order : order[i] \in R
      BY <3>1
    <3>3. \A i \in 1 .. Len(order) : Rst(order[i]) \in OutFrame /\ Rst(order[i]).f # "HEADERS"
      BY <2>5, <3>2 DEF Rst, OutFrame
    <3>4. rs \in Seq(OutFrame) /\ \A i \in DOMAIN rs : rs[i].f # "HEADERS"
      <4>1. rs \in [1 .. Len(order) -> OutFrame]
        BY <3>2, <3>3
      <4> QED BY <4>1, <3>2, <3>3
    <3>5. obReg \in Seq(OutFrame)
      BY DEF IInv, ControlInv
    <3> HIDE DEF rs
    <3>6. SameHeaders(obReg, obReg \o rs)
      BY <3>4, <3>5, ConcatHeaders
    <3> QED BY <3>6, <2>2 DEF rs
  <2>7. Renews /\ Asks /\ goaway \subseteq goaway' /\ pc' # "idle"
    BY <1>1, <2>1, <2>4 DEF Renews, Asks, Ages, control
  <2> QED BY <1>1, <1>3, <2>4, <2>6, <2>7 DEF Quiet
<1> QED BY <1>2, <1>4, <1>5

\* The application is called, and returns.
LEMMA CallbackQuiet ==
  ASSUME IInv, SInv, FrameDelivered \/ CallbackReturns PROVE Quiet
<1>1. CASE FrameDelivered
  <2>1. /\ Live(tbl, iframe.s) /\ pc' = "callback"
        /\ delivered' = delivered \/ delivered' = delivered \cup {iframe.s}
        /\ UNCHANGED <<out, left, answered, tbl, obReg, goaway, lastRecv>>
    BY <1>1 DEF FrameDelivered, FrameStreamOpen, ids, queues, response
  <2>2. iframe.s \in StreamIds
    BY <1>1 DEF FrameDelivered, IInv, ControlInv, InFrame
  <2>3. ~IsNewPeerStream(iframe.s, lastRecv')
    BY <2>1, <2>2, LiveIsKnown
  <2>4. Renews /\ Asks
    BY <2>1, <2>2, <2>3 DEF Renews, Asks
  <2>5. Waits(tbl, tbl') /\ SameHeaders(obReg, obReg') /\ lastRecv' >= lastRecv
    BY <2>1, LifeReflexive, SameHeadersOrder, RecvIds
  <2> QED BY <2>1, <2>4, <2>5 DEF Quiet
<1>2. CASE CallbackReturns
  <2>1. /\ pc = "callback" /\ tbl' = EndStream(tbl, held.s, held.es) /\ pc' = "recv"
        /\ UNCHANGED <<out, left, answered, delivered, obReg, goaway, lastRecv>>
    BY <1>2 DEF CallbackReturns, ids, queues, response, history
  <2>2. held.s \in StreamIds /\ held.es \in BOOLEAN /\ held.s # 0
    BY <2>1, StreamIdsAssumption DEF IInv, ControlInv
  <2>3. Live(tbl, held.s)
    BY <2>2 DEF SInv, ReadInv
  <2>4. Ages(tbl, tbl') /\ Waits(tbl, tbl')
    BY <2>1, <2>2, <2>3, EndStreamAges DEF IInv, TableInv, SInv, LifeInv
  <2>5. Renews /\ Asks
    BY <2>1, <2>4 DEF Renews, Asks, Ages
  <2>6. SameHeaders(obReg, obReg') /\ lastRecv' >= lastRecv
    BY <2>1, SameHeadersOrder, RecvIds
  <2> QED BY <2>1, <2>4, <2>5, <2>6 DEF Quiet
<1> QED BY <1>1, <1>2

\* A request opens its stream, on which nothing has happened yet.
LEMMA OpenRequestQuiet ==
  ASSUME IInv, SInv, pc = "recv", NEW s \in StreamIds, NEW es \in BOOLEAN,
         NEW d \in StreamOrNone, OpenRequest(s, es, d), RecordId(s)
  PROVE  Waits(tbl, tbl') /\ Renews
<1> DEFINE a == AnchorDependency(tbl, d, initWin, s)
           o == OpenIncoming(a, s, initWin)
           max == RetainMax(localMax, pendingMax)
<1>1. /\ IsNewPeerStream(s, lastRecv) /\ d # s
      /\ ~IncomingFull(pendingMax) /\ tbl' = AdjustClosed(o, max)
  BY DEF OpenRequest, RequestVerdict
<1>2. initWin \in Windows /\ d \in StreamIds \cup {0} /\ TableOK(tbl) /\ EntriesOK(tbl, initWin)
  BY MaxWindowAssumption DEF IInv, TableInv, Windows, SInv, LifeInv, StreamOrNone
<1>3. /\ TableOK(a) /\ EntriesOK(a, initWin) /\ Ages(tbl, a) /\ Waits(tbl, a)
      /\ a.nIncoming <= tbl.nIncoming
  BY <1>2, AnchorDependencyOK, AnchorFades, FadesOK DEF Keeps
<1>4. a.strm[s].st \in {"ABSENT", "IDLE"} /\ ~IsMine(s)
  <2>1. tbl.strm[s].st \in {"ABSENT", "IDLE"}
    BY <1>1 DEF IInv, TableInv, OpenAssertion
  <2>2. a.strm[s] = tbl.strm[s]
    BY <1>1, <1>2, AnchorDependencyOthers
  <2> HIDE DEF a
  <2> QED BY <2>1, <2>2, <1>1 DEF IsNewPeerStream
<1>5. a.strm[s].item = "none"
  BY <1>3, <1>4 DEF EntriesOK, EntryOK
<1> HIDE DEF a
<1>6. /\ TableOK(o) /\ o.nIncoming = a.nIncoming + 1 /\ EntriesOK(o, initWin)
      /\ \A x \in StreamIds \ {s} : o.strm[x] = a.strm[x]
      /\ o.strm[s].item = "none" /\ ~o.strm[s].wr
  BY <1>2, <1>3, <1>4, OpenIncomingOK, OpenIncomingLife
<1> HIDE DEF o
<1>7. Waits(a, o)
  BY <1>5, <1>6 DEF Waits, Live
<1>8. max \in Nat /\ o.nIncoming <= max
  <2>1. pendingMax = MaxConcurrent /\ localMax \in {MaxConcurrent, DefaultMax}
    BY DEF IInv, ControlInv
  <2>2. max = MaxConcurrent /\ MaxConcurrent \in Nat
    BY <2>1, MaxConcurrentAssumption DEF RetainMax
  <2>3. a.nIncoming \in Int /\ tbl.nIncoming \in Int
    BY <1>2, <1>3 DEF TableOK, Table
  <2>4. tbl.nIncoming < MaxConcurrent
    BY <1>1, <2>1, <2>2, <2>3 DEF IncomingFull
  <2> HIDE DEF max
  <2> QED BY <1>3, <1>6, <2>2, <2>3, <2>4
<1> HIDE DEF max
<1>9. Fades(o, tbl', initWin)
  BY <1>1, <1>6, <1>8, AdjustClosedFades
<1>10. Ages(o, tbl') /\ Waits(o, tbl')
  BY <1>2, <1>6, <1>9, FadesOK
<1>11. Waits(a, tbl')
  BY <1>7, <1>10, LifeTransitive
<1>12. Waits(tbl, tbl')
  <2> SUFFICES ASSUME NEW x \in StreamIds
               PROVE  /\ tbl'.strm[x].wr => tbl.strm[x].wr
                      /\ tbl'.strm[x].item # "none" => tbl.strm[x].item # "none"
                      /\ Live(tbl', x) /\ tbl.strm[x].item # "none" => tbl'.strm[x].item # "none"
    BY DEF Waits
  <2>1. /\ tbl'.strm[x].wr => a.strm[x].wr
        /\ tbl'.strm[x].item # "none" => a.strm[x].item # "none"
        /\ Live(tbl', x) /\ a.strm[x].item # "none" => tbl'.strm[x].item # "none"
    BY <1>11 DEF Waits
  <2>2. /\ a.strm[x].wr => tbl.strm[x].wr
        /\ a.strm[x].item # "none" => tbl.strm[x].item # "none"
        /\ Live(a, x) /\ tbl.strm[x].item # "none" => a.strm[x].item # "none"
    BY <1>3 DEF Waits
  <2>3. x # s /\ Live(tbl', x) => Live(a, x)
    BY <1>6, <1>10 DEF Ages, Live
  <2>4. x = s => tbl.strm[x].item = "none"
    BY <1>1 DEF IInv, TableInv, OpenAssertion, SInv, LifeInv, EntriesOK, EntryOK
  <2> QED BY <2>1, <2>2, <2>3, <2>4
<1>13. Renews
  <2>1. ~IsNewPeerStream(s, lastRecv')
    BY <1>1, RecvIds DEF RecordId, IsNewPeerStream
  <2>2. \A x \in StreamIds \ {s} : Live(tbl', x) =>
          /\ Live(tbl, x)
          /\ tbl.strm[x].st = "CLOSING" => tbl'.strm[x].st = "CLOSING"
          /\ tbl.strm[x].rd => tbl'.strm[x].rd
    BY OpenRequestAges
  <2> QED BY <1>1, <2>1, <2>2 DEF Renews
<1> QED BY <1>12, <1>13

\* A request, whatever becomes of it.
LEMMA RecvRequestQuiet ==
  ASSUME IInv, SInv, NEW s \in StreamIds, NEW es \in BOOLEAN, NEW d \in StreamOrNone,
         RecvRequest(s, es, d)
  PROVE  Quiet
<1>1. /\ pc = "recv" /\ ~Live(tbl, s) /\ RecordId(s) /\ UNCHANGED control
      /\ UNCHANGED <<out, left, answered, delivered>>
  BY DEF RecvRequest, Begins, response
<1>2. lastRecv' >= lastRecv /\ pc' # "idle" /\ Asks
  BY <1>1, RecvIds DEF RecordId, IsNewPeerStream, control, Asks
<1>3. CASE OpenRequest(s, es, d)
  <2>1. UNCHANGED <<goaway, obReg>>
    BY <1>3 DEF OpenRequest
  <2>2. Waits(tbl, tbl') /\ Renews
    BY <1>1, <1>3, OpenRequestQuiet
  <2> QED BY <1>1, <1>2, <2>1, <2>2, SameHeadersOrder DEF Quiet
<1>4. CASE RefuseRequest(s, d)
  <2>1. obReg' = obReg \o RstItem(tbl, s) /\ tbl' = MarkClosing(tbl, s) /\ UNCHANGED goaway
    BY <1>4 DEF RefuseRequest, AddRst
  <2>2. Ages(tbl, tbl') /\ Waits(tbl, tbl')
    BY <2>1, MarkClosingAges DEF IInv, TableInv, SInv, LifeInv
  <2> QED BY <1>1, <1>2, <2>1, <2>2, RecvResets
<1>5. CASE BadRequest(s, d) \/ IgnoreRequest(s, d)
  <2>1. UNCHANGED tbl /\ (UNCHANGED <<goaway, obReg>> \/ Terminate)
    BY <1>5 DEF BadRequest, IgnoreRequest
  <2> QED BY <1>1, <1>2, <2>1, RecvIdle
<1> QED BY <1>3, <1>4, <1>5 DEF RecvRequest

\* nghttp2_session_upgrade2, whether it opens stream 1 or not.
LEMMA UpgradeQuiet ==
  ASSUME IInv, IInv', SInv, NEW w \in WindowSizes, Upgrade(w) PROVE Quiet
<1> DEFINE o == OpenIncoming(tbl, 1, initWin')
<1>1. /\ tbl = EmptyTable /\ lastRecv = 0 /\ 1 \in StreamIds /\ TableOK(tbl)
      /\ \A x \in StreamIds : tbl.strm[x] = NoStream /\ ~Live(tbl, x)
  BY EmptyTableOK, NoStreamType DEF IInv, ControlInv, TableInv, Upgrade, EmptyTable, Live
<1>2. /\ pc = "start" /\ pc' = pc /\ tbl' = ShutRd(o, 1) /\ lastRecv' = 1
      /\ delivered' = delivered \cup {1}
      /\ UNCHANGED <<out, left, answered>>
      /\ UNCHANGED <<goaway, obReg>> \/ Terminate
  BY DEF Upgrade, control, response
<1>3. initWin' \in Windows /\ 0 \in Windows
  BY MaxWindowAssumption DEF IInv, TableInv, Windows
<1>4. /\ \A x \in StreamIds \ {1} : o.strm[x] = NoStream
      /\ ~o.strm[1].wr /\ o.strm[1].item = "none" /\ TableOK(o)
  <2>1. EntriesOK(tbl, initWin') /\ tbl.strm[1].st \in {"ABSENT", "IDLE"} /\ ~IsMine(1)
    BY <1>1, BlankEntries, <1>3 DEF EntriesOK, EntryOK, IsMine
  <2>2. /\ \A x \in StreamIds \ {1} : o.strm[x] = tbl.strm[x]
        /\ ~o.strm[1].wr /\ o.strm[1].item = "none"
    BY <1>1, <1>3, <2>1, OpenIncomingLife
  <2>3. TableOK(o)
    BY <1>1, <1>3, <2>1, OpenIncomingOK
  <2> QED BY <1>1, <2>2, <2>3
<1> HIDE DEF o
<1>5. /\ \A x \in StreamIds \ {1} : tbl'.strm[x] = NoStream
      /\ ~tbl'.strm[1].wr /\ tbl'.strm[1].item = "none"
  BY <1>1, <1>2, <1>4 DEF ShutRd, TableOK, Table, Stream
<1>6. Waits(tbl, tbl')
  BY <1>1, <1>3, <1>5, BlankEntries DEF Waits
<1>7. Renews
  <2>1. \A x \in StreamIds : Live(tbl', x) => x = 1
    BY <1>3, <1>5, BlankEntries DEF Live
  <2>2. IsNewPeerStream(1, lastRecv) /\ ~IsNewPeerStream(1, lastRecv')
    BY <1>1, <1>2 DEF IsNewPeerStream, IsMine
  <2> QED BY <2>1, <2>2 DEF Renews
<1>8. Asks
  <2>1. ~IsNewPeerStream(1, lastRecv')
    BY <1>2 DEF IsNewPeerStream
  <2> QED BY <1>1, <1>2, <2>1 DEF Asks
<1>9. SameHeaders(obReg, obReg') /\ goaway \subseteq goaway'
  BY <1>2, TerminateHeaders
<1>10. lastRecv' >= lastRecv /\ pc' # "idle"
  BY <1>1, <1>2
<1> QED BY <1>2, <1>6, <1>7, <1>8, <1>9, <1>10 DEF Quiet

\* nghttp2_session_upgrade2 fails, and the application gets its request all the same.
LEMMA UpgradeRejectedQuiet ==
  ASSUME IInv, UpgradeRejected PROVE Quiet
<1>1. /\ pc = "start" /\ pc' = pc /\ 1 \in StreamIds
      /\ delivered' = delivered \cup {1} /\ "BAD_UPGRADE" \in Inputs
      /\ UNCHANGED <<out, left, answered, tbl, obReg, goaway, lastRecv>>
  BY DEF UpgradeRejected, control, response, ids, queues
<1>2. Asks /\ Renews
  BY <1>1 DEF Asks, Renews
<1>3. Waits(tbl, tbl') /\ SameHeaders(obReg, obReg') /\ lastRecv' >= lastRecv
  BY <1>1, LifeReflexive, SameHeadersOrder, RecvIds
<1> QED BY <1>1, <1>2, <1>3 DEF Quiet

\* The idle list is trimmed, once or twice.
LEMMA TrimQuiet ==
  ASSUME IInv, SInv, NEW cap \in Nat,
         tbl' = AdjustIdle(tbl, cap) \/ tbl' = AdjustIdle(AdjustIdle(tbl, cap), cap),
         UNCHANGED <<out, left, answered, delivered, obReg, goaway, lastRecv>>, pc' # "idle"
  PROVE  Quiet
<1> DEFINE t == AdjustIdle(tbl, cap)
<1>1. initWin \in Windows /\ TableOK(tbl) /\ EntriesOK(tbl, initWin)
  BY MaxWindowAssumption DEF IInv, TableInv, Windows, SInv, LifeInv
<1>2. TableOK(t) /\ EntriesOK(t, initWin) /\ Ages(tbl, t) /\ Waits(tbl, t)
  BY <1>1, TrimAges
<1> HIDE DEF t
<1>3. Ages(t, AdjustIdle(t, cap)) /\ Waits(t, AdjustIdle(t, cap))
  BY <1>1, <1>2, TrimAges
<1>4. Ages(tbl, tbl') /\ Waits(tbl, tbl')
  <2>1. CASE tbl' = t
    BY <2>1, <1>2
  <2>2. CASE tbl' = AdjustIdle(t, cap)
    <3>1. Ages(t, tbl') /\ Waits(t, tbl')
      BY <2>2, <1>3
    <3> QED BY <3>1, <1>2, LifeTransitive
  <2> QED BY <2>1, <2>2 DEF t
<1>5. Renews /\ Asks
  BY <1>4 DEF Renews, Asks, Ages
<1>6. SameHeaders(obReg, obReg') /\ lastRecv' >= lastRecv
  BY SameHeadersOrder, RecvIds
<1> QED BY <1>4, <1>5, <1>6 DEF Quiet

\* nghttp2_session_mem_recv begins and ends.
LEMMA BufferQuiet ==
  ASSUME IInv, SInv, ServerPreface \/ StartRecv \/ BufferEnd PROVE Quiet
<1> DEFINE cap == IF pc = "start" THEN IdleMax(localMax, MaxConcurrent)
                  ELSE IdleMax(localMax, pendingMax)
<1>1. cap \in Nat
  BY LimitTypes DEF IInv
<1>2. /\ tbl' = AdjustIdle(tbl, cap) \/ tbl' = AdjustIdle(AdjustIdle(tbl, cap), cap)
      /\ UNCHANGED <<out, left, answered, delivered, obReg, goaway, lastRecv>> /\ pc' # "idle"
  <2>1. CASE ServerPreface
    BY <2>1 DEF ServerPreface, EnterSend, ids, response, history
  <2>2. CASE StartRecv
    BY <2>2 DEF StartRecv, EnterSend, ids, response, history, queues
  <2>3. CASE BufferEnd
    BY <2>3 DEF BufferEnd, EnterSend, ids, response, history, queues
  <2> QED BY <2>1, <2>2, <2>3
<1> HIDE DEF cap
<1> QED BY <1>1, <1>2, TrimQuiet

\* Frames are sent that are no answers, and reset no stream.
LEMMA SendQuiet ==
  ASSUME IInv, SInv, SendUrgent \/ SendGoaway PROVE Quiet
<1>1. CASE SendUrgent
  <2>1. /\ pc = "send" /\ pc' = pc
        /\ UNCHANGED <<out, left, answered, delivered, tbl, obReg, goaway, lastRecv>>
    BY <1>1 DEF SendUrgent, Sending, ids
  <2>2. Renews /\ Asks
    BY <2>1 DEF Renews, Asks
  <2>3. Waits(tbl, tbl') /\ SameHeaders(obReg, obReg') /\ lastRecv' >= lastRecv
    BY <2>1, LifeReflexive, SameHeadersOrder, RecvIds
  <2> QED BY <2>1, <2>2, <2>3 DEF Quiet
<1>2. CASE SendGoaway
  <2> DEFINE R == {s \in LiveSet(tbl) : s > Head(obReg).s}
  <2>1. /\ pc = "send" /\ pc' = pc /\ goaway \subseteq goaway'
        /\ \E q \in Orders(R) : tbl' = CloseAll(tbl, q)
        /\ UNCHANGED <<out, left, answered, delivered, lastRecv>>
        /\ obReg # << >> /\ obReg' = Tail(obReg)
    BY <1>2 DEF SendGoaway, Pops, Sending, ids
  <2>2. PICK q \in Orders(R) : tbl' = CloseAll(tbl, q)
    BY <2>1
  <2>3. R \in SUBSET LiveSet(tbl)
    OBVIOUS
  <2> HIDE DEF R
  <2>4. initWin \in Windows /\ TableOK(tbl) /\ EntriesOK(tbl, initWin)
    BY MaxWindowAssumption DEF IInv, TableInv, Windows, SInv, LifeInv
  <2>5. Fades(tbl, tbl', initWin)
    BY <2>2, <2>3, <2>4, CloseAllFades
  <2>6. Ages(tbl, tbl') /\ Waits(tbl, tbl')
    BY <2>4, <2>5, FadesOK
  <2>7. Renews /\ Asks
    BY <2>1, <2>6 DEF Renews, Asks, Ages
  <2>8. SameHeaders(obReg, obReg')
    <3>1. obReg \in Seq(OutFrame)
      BY DEF IInv, ControlInv
    <3>2. Once(obReg) => Once(obReg')
      BY <2>1, <3>1, TailOnce
    <3>3. ToSet(obReg) = {Head(obReg)} \cup ToSet(obReg') /\ Head(obReg).f = "GOAWAY"
      BY <1>2, PopsContents DEF SendGoaway
    <3>4. \A s \in StreamIds : Headers(s) # Head(obReg)
      BY <3>3 DEF Headers
    <3> QED BY <3>2, <3>3, <3>4 DEF SameHeaders
  <2>9. lastRecv' >= lastRecv
    BY <2>1, RecvIds
  <2> QED BY <2>1, <2>6, <2>7, <2>8, <2>9 DEF Quiet
<1> QED BY <1>1, <1>2

\* Every step but the ones that answer and the ones that send on a stream.
LEMMA NextQuiet ==
  ASSUME IInv, IInv', SInv,
         \/ \E w \in WindowSizes : Upgrade(w)
         \/ UpgradeRejected \/ ServerPreface \/ Receive \/ SendUrgent \/ SendGoaway
  PROVE  Quiet
<1>1. ASSUME NEW w \in WindowSizes, Upgrade(w) PROVE Quiet
  BY <1>1, UpgradeQuiet
<1>2. CASE UpgradeRejected
  BY <1>2, UpgradeRejectedQuiet
<1>3. CASE ServerPreface \/ StartRecv \/ BufferEnd
  BY <1>3, BufferQuiet
<1>4. CASE SendUrgent \/ SendGoaway
  BY <1>4, SendQuiet
<1>5. CASE \/ RecvNoSettings \/ RecvInvalid \/ FrameIgnored \/ RecvSettingsAck
           \/ RecvGoaway \/ RecvPing
           \/ \E n \in Increments : RecvConnWindowUpdate(n)
           \/ \E s \in StreamIds, es \in BOOLEAN : RecvTrailers(s, es) \/ RecvData(s, es)
  BY <1>5, IdleFrames
<1>6. ASSUME NEW s \in StreamIds, NEW es \in BOOLEAN, NEW d \in StreamOrNone,
             RecvRequest(s, es, d)
      PROVE  Quiet
  BY <1>6, RecvRequestQuiet
<1>7. CASE FrameDelivered \/ CallbackReturns
  BY <1>7, CallbackQuiet
<1>8. CASE FrameViolatesMessaging
  BY <1>8, FrameViolatesMessagingQuiet
<1>9. CASE FrameAborted
  BY <1>9, FrameAbortedQuiet
<1>10. CASE CompressionError
  BY <1>10, CompressionErrorQuiet
<1>11. ASSUME NEW s \in StreamIds, RecvRst(s) PROVE Quiet
  BY <1>11, RecvRstQuiet
<1>12. ASSUME NEW s \in StreamIds, NEW d \in StreamOrNone, RecvPriority(s, d) PROVE Quiet
  BY <1>12, RecvPriorityQuiet
<1>13. ASSUME NEW s \in StreamIds, NEW n \in Increments, RecvWindowUpdate(s, n) PROVE Quiet
  BY <1>13, RecvWindowUpdateQuiet
<1>14. ASSUME NEW w \in WindowSizes, RecvSettings(w) PROVE Quiet
  BY <1>14, RecvSettingsQuiet
<1> QED
  BY <1>1, <1>2, <1>3, <1>4, <1>5, <1>6, <1>7, <1>8, <1>9, <1>10, <1>11, <1>12, <1>13, <1>14
     DEF Receive

-----------------------------------------------------------------------------
(* What was sent on each stream. *)

\* A step that sends nothing, and lets no answer begin.
LEMMA WireKept ==
  ASSUME IInv, WireInv, UNCHANGED <<out, answered>>, Once(obReg'), Renews, lastRecv' >= lastRecv,
         lastRecv' \in Nat,
         \A x \in StreamIds :
           /\ Headers(x) \in ToSet(obReg') => Headers(x) \in ToSet(obReg)
           /\ tbl'.strm[x].wr => tbl.strm[x].wr
           /\ tbl'.strm[x].item # "none" => tbl.strm[x].item # "none"
  PROVE  WireInv'
<1> SUFFICES ASSUME NEW s \in StreamIds PROVE Wire(s)'
  BY DEF WireInv
<1>1. Wire(s)
  BY DEF WireInv
<1>2. ASSUME out[s].rst # 0 PROVE ~Live(tbl', s) /\ ~IsNewPeerStream(s, lastRecv')
  <2>1. ~Live(tbl, s) /\ ~IsNewPeerStream(s, lastRecv)
    BY <1>1, <1>2 DEF Wire
  <2>2. ~IsNewPeerStream(s, lastRecv')
    BY <2>1, RecvIds DEF IsNewPeerStream
  <2> QED BY <2>1, <2>2 DEF Renews
<1> QED BY <1>1, <1>2 DEF Wire

\* The quiet steps.
LEMMA QuietWire ==
  ASSUME IInv, IInv', WireInv, Quiet PROVE WireInv'
<1>1. UNCHANGED <<out, answered>> /\ Once(obReg') /\ Renews /\ lastRecv' >= lastRecv
  BY DEF Quiet, SameHeaders, WireInv
<1>2. \A x \in StreamIds :
        /\ Headers(x) \in ToSet(obReg') => Headers(x) \in ToSet(obReg)
        /\ tbl'.strm[x].wr => tbl.strm[x].wr
        /\ tbl'.strm[x].item # "none" => tbl.strm[x].item # "none"
  BY DEF Quiet, SameHeaders, Waits
<1>3. lastRecv' \in Nat
  BY StreamIdsAssumption DEF IInv, TableInv, StreamOrNone
<1> QED BY <1>1, <1>2, <1>3, WireKept

\* What the records of the wire are made of.
LEMMA WireTypes ==
  ASSUME IInv, NEW s \in StreamIds
  PROVE  /\ out[s] \in OutRecord /\ left[s] \in Nat
         /\ out[s].hdr \in Nat /\ out[s].body \in Nat /\ out[s].fin \in Nat /\ out[s].rst \in Nat
BY DEF IInv, ControlInv, OutRecord

\* An answer is queued: it is the first of its stream.
LEMMA SubmitWire ==
  ASSUME IInv, IInv', SInv, WireInv, NEW s \in StreamIds, NEW n \in BodySizes,
         SubmitResponse(s, n)
  PROVE  WireInv'
<1> DEFINE cap == IdleMax(localMax, pendingMax)
<1>1. /\ s \notin answered /\ answered' = answered \cup {s} /\ obReg' = Append(obReg, Headers(s))
      /\ tbl' = AdjustIdle(tbl, cap) /\ out' = out /\ lastRecv' = lastRecv
  BY DEF SubmitResponse, EnterSend, ids
<1>2. obReg \in Seq(OutFrame) /\ Headers(s) \in OutFrame /\ cap \in Nat
  BY LimitTypes DEF IInv, ControlInv, Headers, OutFrame
<1> HIDE DEF cap
<1>3. Ages(tbl, tbl') /\ Waits(tbl, tbl')
  <2>1. initWin \in Windows /\ TableOK(tbl) /\ EntriesOK(tbl, initWin)
    BY MaxWindowAssumption DEF IInv, TableInv, Windows, SInv, LifeInv
  <2> QED BY <1>1, <1>2, <2>1, TrimAges
<1>4. Headers(s) \notin ToSet(obReg) /\ Once(obReg)
  BY <1>1 DEF WireInv, Wire
<1>5. Once(obReg')
  BY <1>1, <1>2, <1>4, AppendOnce
<1>6. ToSet(obReg') = ToSet(obReg) \cup {Headers(s)}
  BY <1>1, <1>2, QueueContents
<1>7. ASSUME NEW x \in StreamIds PROVE Wire(x)'
  <2>1. Wire(x) /\ Wire(s)
    BY DEF WireInv
  <2>2. Headers(x) \in ToSet(obReg') => x \in answered' /\ out[x].hdr = 0
    BY <1>1, <1>6, <2>1, FramesDiffer DEF Wire
  <2>3. out[x].rst # 0 => ~Live(tbl', x) /\ ~IsNewPeerStream(x, lastRecv')
    BY <1>1, <1>3, <2>1 DEF Wire, Ages
  <2> QED BY <1>1, <1>3, <2>1, <2>2, <2>3 DEF Wire, Waits
<1> QED BY <1>5, <1>7 DEF WireInv

\* A header block is sent, or dropped.
LEMMA SendHeadersEffect ==
  ASSUME IInv, SInv, WireInv, SendHeaders, NEW s, s = Head(obReg).s
  PROVE  /\ s \in StreamIds /\ s \in answered /\ out[s].hdr = 0 /\ out[s].fin = 0
         /\ ~tbl.strm[s].wr
         /\ Once(obReg') /\ ToSet(obReg) = ToSet(obReg') \cup {Headers(s)}
         /\ Headers(s) \notin ToSet(obReg')
         /\ UNCHANGED <<lastRecv, answered, left, delivered, goaway, pc, sendOK>>
         /\ \/ /\ MaySendHeaders(s, Tail(obReg)) /\ tbl' = Attach(tbl, s)
               /\ out' = [out EXCEPT ![s].hdr = 1]
            \/ ~MaySendHeaders(s, Tail(obReg)) /\ UNCHANGED <<tbl, out>>
<1>1. /\ ToSet(obReg) = {Head(obReg)} \cup ToSet(obReg')
      /\ Head(obReg) \in OutFrame /\ Head(obReg).f = "HEADERS"
  BY PopsContents DEF SendHeaders
<1>2. s \in StreamIds /\ Head(obReg) = Headers(s)
  BY <1>1 DEF OutFrame, Headers
<1>3. s \in answered /\ out[s].hdr = 0 /\ out[s].fin = 0 /\ ~tbl.strm[s].wr
  <2>1. Wire(s) /\ Headers(s) \in ToSet(obReg)
    BY <1>1, <1>2 DEF WireInv
  <2> QED BY <2>1 DEF Wire
<1>4. Once(obReg') /\ Headers(s) \notin ToSet(obReg')
  <2>1. obReg \in Seq(OutFrame) /\ obReg # << >> /\ obReg' = Tail(obReg) /\ Once(obReg)
    BY DEF SendHeaders, Pops, IInv, ControlInv, WireInv
  <2> QED BY <1>1, <1>2, <2>1, TailOnce
<1>5. UNCHANGED <<lastRecv, answered, left, delivered, goaway, pc, sendOK>>
  BY DEF SendHeaders, Pops, Sending, ids
<1>6. \/ /\ MaySendHeaders(s, Tail(obReg)) /\ tbl' = Attach(tbl, s)
         /\ out' = [out EXCEPT ![s].hdr = @ + 1]
      \/ ~MaySendHeaders(s, Tail(obReg)) /\ UNCHANGED <<tbl, out>>
  BY DEF SendHeaders, Attach
<1>7. [out EXCEPT ![s].hdr = @ + 1] = [out EXCEPT ![s].hdr = 1]
  BY <1>3
<1> QED BY <1>1, <1>2, <1>3, <1>4, <1>5, <1>6, <1>7

\* Response HEADERS are sent, or dropped: the answer has left the queue.
LEMMA SendHeadersWire ==
  ASSUME IInv, IInv', SInv, WireInv, SendHeaders PROVE WireInv'
<1> DEFINE s == Head(obReg).s
<1>1. /\ s \in StreamIds /\ s \in answered /\ out[s].hdr = 0 /\ out[s].fin = 0
      /\ ~tbl.strm[s].wr
      /\ Once(obReg') /\ ToSet(obReg) = ToSet(obReg') \cup {Headers(s)}
      /\ Headers(s) \notin ToSet(obReg')
      /\ UNCHANGED <<lastRecv, answered>>
      /\ \/ /\ MaySendHeaders(s, Tail(obReg)) /\ tbl' = Attach(tbl, s)
            /\ out' = [out EXCEPT ![s].hdr = 1]
         \/ UNCHANGED <<tbl, out>>
  BY SendHeadersEffect
<1> HIDE DEF s
<1>2. CASE UNCHANGED <<tbl, out>>
  <2>1. Renews /\ lastRecv' >= lastRecv /\ lastRecv' \in Nat
    BY <1>1, <1>2, RecvIds DEF Renews
  <2> QED BY <1>1, <1>2, <2>1, WireKept
<1>3. CASE /\ MaySendHeaders(s, Tail(obReg)) /\ tbl' = Attach(tbl, s)
           /\ out' = [out EXCEPT ![s].hdr = 1]
  <2>1. Live(tbl, s) /\ tbl.strm[s].st # "CLOSING"
    BY <1>3 DEF MaySendHeaders
  <2>2. /\ Ages(tbl, tbl') /\ \A x \in StreamIds : tbl'.strm[x].wr = tbl.strm[x].wr
        /\ \A x \in StreamIds \ {s} : tbl'.strm[x] = tbl.strm[x]
    BY <1>1, <1>3, <2>1, AttachAges DEF IInv, TableInv, SInv, LifeInv
  <2>3. /\ out'[s].hdr = 1 /\ out'[s].fin = 0 /\ out'[s].rst = out[s].rst
        /\ \A x \in StreamIds \ {s} : out'[x] = out[x]
    BY <1>1, <1>3 DEF IInv, ControlInv, OutRecord
  <2>4. ASSUME NEW x \in StreamIds PROVE Wire(x)'
    <3>1. Wire(x)
      BY DEF WireInv
    <3>2. CASE x = s
      <4>1. out[s].rst = 0
        BY <2>1, <3>1, <3>2 DEF Wire
      <4> QED BY <1>1, <2>2, <2>3, <3>2, <4>1 DEF Wire
    <3>3. CASE x # s
      <4>1. out[x].rst # 0 => ~Live(tbl', x) /\ ~IsNewPeerStream(x, lastRecv')
        BY <1>1, <2>2, <3>1 DEF Wire, Ages
      <4>2. Headers(x) \in ToSet(obReg') => Headers(x) \in ToSet(obReg)
        BY <1>1
      <4> QED BY <1>1, <2>2, <2>3, <3>1, <3>3, <4>1, <4>2 DEF Wire
    <3> QED BY <3>2, <3>3
  <2> QED BY <1>1, <2>4 DEF WireInv
<1> QED BY <1>1, <1>2, <1>3

\* RST_STREAM is sent, or dropped.
LEMMA SendRstEffect ==
  ASSUME IInv, SInv, WireInv, SendRst, NEW s, s = Head(obReg).s
  PROVE  /\ s \in StreamIds /\ Rst(s) \in ToSet(obReg)
         /\ SameHeaders(obReg, obReg') /\ Once(obReg')
         /\ UNCHANGED <<lastRecv, answered, left, delivered, goaway, pc, sendOK>>
         /\ \/ tbl' = CloseStream(tbl, s) /\ out' = [out EXCEPT ![s].rst = @ + 1]
            \/ IsClosing(tbl, goaway, obUrgent, Tail(obReg)) /\ UNCHANGED <<tbl, out>>
<1>1. /\ ToSet(obReg) = {Head(obReg)} \cup ToSet(obReg')
      /\ Head(obReg) \in OutFrame /\ Head(obReg).f = "RST_STREAM"
  BY PopsContents DEF SendRst
<1>2. s \in StreamIds /\ Head(obReg) = Rst(s)
  BY <1>1 DEF OutFrame, Rst
<1>3. Once(obReg')
  <2>1. obReg \in Seq(OutFrame) /\ obReg # << >> /\ obReg' = Tail(obReg) /\ Once(obReg)
    BY DEF SendRst, Pops, IInv, ControlInv, WireInv
  <2> QED BY <2>1, TailOnce
<1>4. SameHeaders(obReg, obReg')
  BY <1>1, <1>2, <1>3, FramesDiffer DEF SameHeaders
<1>5. UNCHANGED <<lastRecv, answered, left, delivered, goaway, pc, sendOK>>
  BY DEF SendRst, Pops, Sending, ids
<1>6. \/ tbl' = CloseStream(tbl, s) /\ out' = [out EXCEPT ![s].rst = @ + 1]
      \/ IsClosing(tbl, goaway, obUrgent, Tail(obReg)) /\ UNCHANGED <<tbl, out>>
  BY DEF SendRst
<1> QED BY <1>1, <1>2, <1>3, <1>4, <1>5, <1>6

\* RST_STREAM is sent, or dropped: with it the stream goes, and its DATA item.
LEMMA SendRstWire ==
  ASSUME IInv, IInv', SInv, WireInv, SendRst PROVE WireInv'
<1> DEFINE s == Head(obReg).s
<1>1. /\ s \in StreamIds /\ Rst(s) \in ToSet(obReg)
      /\ SameHeaders(obReg, obReg') /\ Once(obReg')
      /\ UNCHANGED <<lastRecv, answered>>
      /\ \/ tbl' = CloseStream(tbl, s) /\ out' = [out EXCEPT ![s].rst = @ + 1]
         \/ UNCHANGED <<tbl, out>>
  BY SendRstEffect
<1> HIDE DEF s
<1>2. CASE UNCHANGED <<tbl, out>>
  <2>1. Renews /\ lastRecv' >= lastRecv /\ lastRecv' \in Nat
    BY <1>1, <1>2, RecvIds DEF Renews
  <2> QED BY <1>1, <1>2, <2>1, WireKept DEF SameHeaders
<1>3. CASE tbl' = CloseStream(tbl, s) /\ out' = [out EXCEPT ![s].rst = @ + 1]
  <2>1. initWin \in Windows /\ TableOK(tbl) /\ EntriesOK(tbl, initWin)
    BY MaxWindowAssumption DEF IInv, TableInv, Windows, SInv, LifeInv
  <2>2. Fades(tbl, tbl', initWin) /\ ~Live(tbl', s)
    BY <1>1, <1>3, <2>1, CloseStreamFades
  <2>3. Ages(tbl, tbl') /\ Waits(tbl, tbl')
    BY <2>1, <2>2, FadesOK
  <2>4. /\ out'[s].hdr = out[s].hdr /\ out'[s].fin = out[s].fin
        /\ \A x \in StreamIds \ {s} : out'[x] = out[x]
    BY <1>1, <1>3 DEF IInv, ControlInv, OutRecord
  <2>5. ~IsNewPeerStream(s, lastRecv)
    BY <1>1 DEF SInv, ResetInv
  <2>6. ASSUME NEW x \in StreamIds PROVE Wire(x)'
    <3>1. Wire(x) /\ out'[x].hdr = out[x].hdr /\ out'[x].fin = out[x].fin
      BY <2>4 DEF WireInv
    <3>2. out'[x].rst # 0 => ~Live(tbl', x) /\ ~IsNewPeerStream(x, lastRecv')
      BY <1>1, <2>2, <2>3, <2>4, <2>5, <3>1 DEF Wire, Ages
    <3> QED BY <1>1, <2>3, <3>1, <3>2 DEF Wire, Waits, SameHeaders
  <2> QED BY <1>1, <2>6 DEF WireInv
<1> QED BY <1>1, <1>2, <1>3

\* The steps of nghttp2_session_send that send nothing.
LEMMA SetItemWire ==
  ASSUME IInv, IInv', SInv, WireInv, NEW s \in StreamIds,
         DropData(s) \/ DeferData(s) \/ ReadFails(s)
  PROVE  WireInv' /\ UNCHANGED <<out, left, answered, delivered>>
<1>1. /\ UNCHANGED <<out, left, answered, delivered, obReg, lastRecv>>
      /\ \/ tbl' = tbl
         \/ /\ tbl.strm[s].item = "active"
            /\ \E i \in {"none", "deferred"} : tbl' = SetItem(tbl, s, i)
  BY DEF DropData, DeferData, ReadFails, PicksData, Sending, ids, queues
<1>2. /\ Ages(tbl, tbl')
      /\ \A x \in StreamIds :
           /\ tbl'.strm[x].wr = tbl.strm[x].wr
           /\ tbl'.strm[x].item # "none" => tbl.strm[x].item # "none"
  <2>1. CASE tbl' = tbl
    BY <2>1, LifeReflexive
  <2>2. CASE /\ tbl.strm[s].item = "active"
             /\ \E i \in {"none", "deferred"} : tbl' = SetItem(tbl, s, i)
    BY <2>2, SetItemAges DEF IInv, TableInv, SInv, LifeInv
  <2> QED BY <1>1, <2>1, <2>2
<1>3. Renews /\ Once(obReg') /\ lastRecv' >= lastRecv /\ lastRecv' \in Nat
  BY <1>1, <1>2, RecvIds DEF Renews, Ages, WireInv
<1> QED BY <1>1, <1>2, <1>3, WireKept

\* A DATA frame is sent.
LEMMA SendDataEffect ==
  ASSUME IInv, IInv', SInv, NEW s \in StreamIds, SendData(s)
  PROVE  /\ Live(tbl, s) /\ tbl.strm[s].item # "none" /\ "TERM_ON_SEND" \notin goaway
         /\ UNCHANGED <<obReg, lastRecv, answered, delivered, goaway, pc, sendOK>>
         /\ Ages(tbl, tbl') /\ tbl'.idleQ = tbl.idleQ
         /\ \A x \in StreamIds \ {s} : tbl'.strm[x] = tbl.strm[x]
         /\ \E n \in 0 .. left[s] :
              /\ left' = [left EXCEPT ![s] = @ - n]
              /\ out' = [out EXCEPT ![s].body = @ + n,
                                    ![s].fin = @ + IF n = left[s] THEN 1 ELSE 0]
              /\ IF n = left[s] THEN tbl'.strm[s].item = "none"
                 ELSE tbl'.strm[s].item # "none" /\ (tbl'.strm[s].wr => tbl.strm[s].wr)
<1> DEFINE n == ChunkSize(s)
           paid == Pay(tbl, s, n)
           ended == CloseIfShut(ShutWr(SetItem(paid, s, "none"), s), s)
<1>1. /\ UNCHANGED <<obReg, lastRecv, answered, delivered, goaway, pc, sendOK>>
      /\ tbl' = IF n = left[s] THEN ended ELSE paid
      /\ left' = [left EXCEPT ![s] = @ - n]
      /\ out' = [out EXCEPT ![s].body = @ + n, ![s].fin = @ + IF n = left[s] THEN 1 ELSE 0]
      /\ Live(tbl, s) /\ connWin > 0 /\ tbl.strm[s].win > 0 /\ tbl.strm[s].item = "active"
      /\ "TERM_ON_SEND" \notin goaway
  BY DEF SendData, PicksData, Sending, MaySendData, queues, ids, Pay
<1>2. TableOK(tbl) /\ EntriesOK(tbl, initWin)
  BY DEF IInv, TableInv, SInv, LifeInv
<1>3. n \in Nat /\ n <= tbl.strm[s].win /\ n <= left[s] /\ left[s] \in Nat
  <2>1. n \in Nat /\ n <= tbl.strm[s].win /\ left[s] \in Nat
    BY <1>1, ChunkSizeBound, WireTypes
  <2>2. /\ MaxChunk \in Nat /\ connWin \in Int /\ tbl.strm[s].win \in Int
    BY <1>2, ResponseAssumption, MaxWindowAssumption
       DEF IInv, TableInv, TableOK, Table, Stream, Windows
  <2>3. n <= left[s]
    BY <2>1, <2>2 DEF ChunkSize, SmallerOf
  <2> QED BY <2>1, <2>3
<1>4. n \in 0 .. left[s]
  BY <1>3
<1> HIDE DEF n
<1>5. TableOK(paid)
  BY <1>1, <1>3, SpendWindowOK DEF IInv, TableInv, Pay
<1>6. /\ EntriesOK(paid, initWin) /\ Ages(tbl, paid) /\ Spares(tbl, paid)
      /\ Point(tbl, paid, s, paid.strm[s]) /\ SameLife(tbl.strm[s], paid.strm[s])
  BY <1>1, <1>2, <1>5, PayAges
<1> HIDE DEF paid
<1>7. Live(paid, s)
  BY <1>1, <1>6 DEF Spares
<1>8. /\ Ages(paid, ended) /\ Point(paid, ended, s, ended.strm[s])
      /\ ended.strm[s].item = "none"
  BY <1>5, <1>6, <1>7, EndOfResponse
<1> HIDE DEF ended
<1>9. Ages(tbl, ended)
  BY <1>6, <1>8, LifeTransitive
<1>10. /\ Ages(tbl, tbl') /\ tbl'.idleQ = tbl.idleQ
       /\ \A x \in StreamIds \ {s} : tbl'.strm[x] = tbl.strm[x]
       /\ IF n = left[s] THEN tbl'.strm[s].item = "none"
          ELSE tbl'.strm[s].item # "none" /\ (tbl'.strm[s].wr => tbl.strm[s].wr)
  <2>1. CASE n = left[s]
    BY <2>1, <1>1, <1>6, <1>8, <1>9 DEF Point
  <2>2. CASE n # left[s]
    BY <2>2, <1>1, <1>6 DEF Point, SameLife
  <2> QED BY <2>1, <2>2
<1> QED BY <1>1, <1>4, <1>10

\* A DATA frame is sent: END_STREAM takes the item from the tree.
LEMMA SendDataWire ==
  ASSUME IInv, IInv', SInv, WireInv, NEW s \in StreamIds, SendData(s) PROVE WireInv'
<1>1. /\ Live(tbl, s) /\ tbl.strm[s].item # "none"
      /\ UNCHANGED <<obReg, lastRecv, answered>>
      /\ Ages(tbl, tbl')
      /\ \A x \in StreamIds \ {s} : tbl'.strm[x] = tbl.strm[x]
      /\ \E n \in 0 .. left[s] :
           /\ out' = [out EXCEPT ![s].body = @ + n,
                                 ![s].fin = @ + IF n = left[s] THEN 1 ELSE 0]
           /\ IF n = left[s] THEN tbl'.strm[s].item = "none"
              ELSE tbl'.strm[s].item # "none" /\ (tbl'.strm[s].wr => tbl.strm[s].wr)
  BY SendDataEffect
<1>2. PICK n \in 0 .. left[s] :
        /\ out' = [out EXCEPT ![s].body = @ + n, ![s].fin = @ + IF n = left[s] THEN 1 ELSE 0]
        /\ IF n = left[s] THEN tbl'.strm[s].item = "none"
           ELSE tbl'.strm[s].item # "none" /\ (tbl'.strm[s].wr => tbl.strm[s].wr)
  BY <1>1
<1>3. /\ out[s].hdr = 1 /\ out[s].fin = 0 /\ out[s].rst = 0 /\ s \in answered
      /\ Headers(s) \notin ToSet(obReg)
  <2>1. Wire(s)
    BY DEF WireInv
  <2> QED BY <2>1, <1>1 DEF Wire
<1>4. /\ out'[s].hdr = 1 /\ out'[s].fin = (IF n = left[s] THEN 1 ELSE 0) /\ out'[s].rst = 0
      /\ \A x \in StreamIds \ {s} : out'[x] = out[x]
  <2>1. out \in [StreamIds -> OutRecord]
    BY DEF IInv, ControlInv
  <2>2. out' = [out EXCEPT ![s] = [out[s] EXCEPT !.body = @ + n,
                                                 !.fin = @ + IF n = left[s] THEN 1 ELSE 0]]
    BY <1>2, <2>1 DEF OutRecord
  <2>3. out'[s] = [out[s] EXCEPT !.body = @ + n, !.fin = @ + IF n = left[s] THEN 1 ELSE 0]
    BY <2>1, <2>2
  <2>4. out'[s].fin = (IF n = left[s] THEN 1 ELSE 0)
    <3>1. out'[s].fin = out[s].fin + IF n = left[s] THEN 1 ELSE 0
      BY <2>1, <2>3 DEF OutRecord
    <3> QED BY <3>1, <1>3
  <2>5. out'[s].hdr = out[s].hdr /\ out'[s].rst = out[s].rst
    BY <2>1, <2>3 DEF OutRecord
  <2> QED BY <2>1, <2>2, <2>4, <2>5, <1>3
<1>5. ASSUME NEW x \in StreamIds PROVE Wire(x)'
  <2>1. Wire(x)
    BY DEF WireInv
  <2>2. CASE x = s
    <3>1. CASE n = left[s]
      BY <1>1, <1>2, <1>3, <1>4, <2>2, <3>1 DEF Wire
    <3>2. CASE n # left[s]
      <4>1. ~tbl'.strm[s].wr
        BY <2>1, <2>2, <3>2, <1>2, <1>3 DEF Wire
      <4> QED BY <4>1, <1>1, <1>3, <1>4, <2>2, <3>2 DEF Wire
    <3> QED BY <3>1, <3>2
  <2>3. CASE x # s
    <3>1. out[x].rst # 0 => ~Live(tbl', x) /\ ~IsNewPeerStream(x, lastRecv')
      BY <1>1, <2>1 DEF Wire, Ages
    <3> QED BY <1>1, <1>4, <2>1, <2>3, <3>1 DEF Wire
  <2> QED BY <2>2, <2>3
<1> QED BY <1>1, <1>5 DEF WireInv

\* A new session has sent nothing.
LEMMA InitWire ==
  ASSUME Init PROVE WireInv
<1>1. /\ obReg = << >> /\ tbl = EmptyTable
      /\ \A s \in StreamIds : out[s] = [hdr |-> 0, body |-> 0, fin |-> 0, rst |-> 0]
  BY DEF Init
<1>2. \A s \in StreamIds : tbl.strm[s].item = "none" /\ ~tbl.strm[s].wr
  <2>1. 0 \in Windows
    BY MaxWindowAssumption DEF Windows
  <2> QED BY <1>1, <2>1, BlankEntries DEF EmptyTable
<1>3. ToSet(obReg) = {} /\ Once(obReg)
  BY <1>1 DEF ToSet, Once
<1> QED BY <1>1, <1>2, <1>3 DEF WireInv, Wire

\* Every step keeps the invariant.
LEMMA NextWire ==
  ASSUME IInv, IInv', SInv, WireInv, [Next]_vars PROVE WireInv'
<1>1. CASE \/ \E w \in WindowSizes : Upgrade(w)
           \/ UpgradeRejected \/ ServerPreface \/ Receive \/ SendUrgent \/ SendGoaway
  BY <1>1, NextQuiet, QuietWire
<1>2. CASE \E s \in StreamIds, n \in BodySizes : SubmitResponse(s, n)
  BY <1>2, SubmitWire
<1>3. CASE SendHeaders
  BY <1>3, SendHeadersWire
<1>4. CASE SendRst
  BY <1>4, SendRstWire
<1>5. CASE SendDone
  BY <1>5 DEF SendDone, Sending, ids, queues, WireInv, Wire
<1>6. ASSUME NEW s \in StreamIds, DropData(s) \/ DeferData(s) \/ ReadFails(s) PROVE WireInv'
  BY <1>6, SetItemWire
<1>7. ASSUME NEW s \in StreamIds, SendData(s) PROVE WireInv'
  BY <1>7, SendDataWire
<1>8. CASE UNCHANGED vars
  BY <1>8 DEF WireInv, Wire, vars, queues, response, ids
<1> QED BY <1>1, <1>2, <1>3, <1>4, <1>5, <1>6, <1>7, <1>8 DEF Next, Send

\* WireInv holds in every state of every behaviour of the session.
THEOREM WireInvariance == Spec => []WireInv
<1>1. IInv /\ IInv' /\ SInv /\ WireInv /\ [Next]_vars => WireInv'
  BY NextWire
<1> QED BY <1>1, InitWire, Invariance, LifeInvariance, PTL DEF Spec

-----------------------------------------------------------------------------
(* The abstract specification. *)

\* The length of each answer's body, as the session has it
Size == [x \in StreamIds |-> left[x] + out[x].body]

\* A Quiet step is the arrival of a request, or nothing at all.
LEMMA QuietPromise ==
  ASSUME Quiet PROVE [Promise!Next]_(Promise!vars)
<1>1. /\ UNCHANGED <<out, left, answered>>
      /\ \/ delivered' = delivered
         \/ \E s \in StreamIds : delivered' = delivered \cup {s}
  BY DEF Quiet, Asks
<1>2. Size' = Size
  BY <1>1 DEF Size
<1>3. CASE delivered' = delivered
  BY <1>1, <1>2, <1>3 DEF Promise!vars, Size
<1>4. ASSUME NEW s \in StreamIds, s \notin delivered, delivered' = delivered \cup {s}
      PROVE  Promise!Next
  <2>1. Promise!Ask(s)
    BY <1>1, <1>2, <1>4 DEF Promise!Ask, Size
  <2> QED BY <2>1 DEF Promise!Next
<1>5. ASSUME NEW s \in StreamIds, s \in delivered, delivered' = delivered \cup {s}
      PROVE  delivered' = delivered
  BY <1>5
<1> QED BY <1>1, <1>3, <1>4, <1>5

\* The application's answer is one.
LEMMA SubmitPromise ==
  ASSUME IInv, NEW s \in StreamIds, NEW n \in BodySizes, SubmitResponse(s, n)
  PROVE  Promise!Next
<1>1. /\ s \in delivered \ answered /\ answered' = answered \cup {s}
      /\ left' = [left EXCEPT ![s] = n] /\ UNCHANGED <<delivered, out>>
  BY DEF SubmitResponse, history
<1>2. left \in [StreamIds -> Nat] /\ out \in [StreamIds -> OutRecord] /\ n \in Nat
  BY ResponseAssumption DEF IInv, ControlInv
<1>3. \A x \in StreamIds : left'[x] = IF x = s THEN n ELSE left[x]
  BY <1>1, <1>2
<1>4. n + out[s].body \in Nat
  BY <1>2 DEF OutRecord
<1>5. Size' = [Size EXCEPT ![s] = n + out[s].body]
  <2>1. /\ Size' = [x \in StreamIds |-> left'[x] + out'[x].body]
        /\ [Size EXCEPT ![s] = n + out[s].body]
             = [x \in StreamIds |-> IF x = s THEN n + out[s].body ELSE left[x] + out[x].body]
    BY DEF Size
  <2>2. \A x \in StreamIds : left'[x] + out'[x].body
                             = IF x = s THEN n + out[s].body ELSE left[x] + out[x].body
    BY <1>1, <1>3
  <2> QED BY <2>1, <2>2
<1>6. Size'[s] = n + out[s].body
  BY <1>1, <1>3 DEF Size
<1>7. Size'[s] \in Nat /\ Size' = [Size EXCEPT ![s] = Size'[s]]
  BY <1>4, <1>5, <1>6, Zenon
<1>8. Promise!Answer(s)
  BY <1>1, <1>7 DEF Promise!Answer, Size
<1> QED BY <1>8 DEF Promise!Next

\* Response HEADERS that are sent are the header block of the answer.
LEMMA SendHeadersPromise ==
  ASSUME IInv, SInv, WireInv, SendHeaders PROVE [Promise!Next]_(Promise!vars)
<1> DEFINE s == Head(obReg).s
<1>1. /\ s \in StreamIds /\ s \in answered /\ out[s].hdr = 0
      /\ UNCHANGED <<answered, left, delivered>>
      /\ \/ MaySendHeaders(s, Tail(obReg)) /\ out' = [out EXCEPT ![s].hdr = 1]
         \/ out' = out
  BY SendHeadersEffect
<1> HIDE DEF s
<1>2. out \in [StreamIds -> OutRecord]
  BY DEF IInv, ControlInv
<1>3. CASE out' = out
  BY <1>1, <1>3 DEF Promise!vars
<1>4. CASE MaySendHeaders(s, Tail(obReg)) /\ out' = [out EXCEPT ![s].hdr = 1]
  <2>1. out[s].rst = 0
    BY <1>1, <1>4 DEF MaySendHeaders, WireInv, Wire
  <2>2. Size' = Size
    BY <1>1, <1>2, <1>4 DEF Size, OutRecord
  <2>3. Promise!SendHeader(s)
    BY <1>1, <1>4, <2>1, <2>2 DEF Promise!SendHeader, Size
  <2> QED BY <2>3, <1>1 DEF Promise!Next
<1> QED BY <1>1, <1>3, <1>4

\* RST_STREAM that is sent is a reset.
LEMMA SendRstPromise ==
  ASSUME IInv, SInv, WireInv, SendRst PROVE [Promise!Next]_(Promise!vars)
<1> DEFINE s == Head(obReg).s
<1>1. /\ s \in StreamIds
      /\ UNCHANGED <<answered, left, delivered>>
      /\ out' = [out EXCEPT ![s].rst = @ + 1] \/ out' = out
  BY SendRstEffect
<1> HIDE DEF s
<1>2. out \in [StreamIds -> OutRecord]
  BY DEF IInv, ControlInv
<1>3. CASE out' = out
  BY <1>1, <1>3 DEF Promise!vars
<1>4. CASE out' = [out EXCEPT ![s].rst = @ + 1]
  <2>1. Size' = Size
    BY <1>1, <1>2, <1>4 DEF Size, OutRecord
  <2>2. Promise!Reset(s)
    BY <1>1, <1>4, <2>1 DEF Promise!Reset, Size
  <2> QED BY <2>2, <1>1 DEF Promise!Next
<1> QED BY <1>1, <1>3, <1>4

\* A DATA frame is a part of the body, and carries END_STREAM if it is the last.
LEMMA SendDataPromise ==
  ASSUME IInv, IInv', SInv, WireInv, NEW s \in StreamIds, SendData(s)
  PROVE  Promise!Next
<1>1. /\ Live(tbl, s) /\ tbl.strm[s].item # "none"
      /\ UNCHANGED <<answered, delivered>>
      /\ \E n \in 0 .. left[s] :
           /\ left' = [left EXCEPT ![s] = @ - n]
           /\ out' = [out EXCEPT ![s].body = @ + n,
                                 ![s].fin = @ + IF n = left[s] THEN 1 ELSE 0]
  BY SendDataEffect
<1>2. PICK n \in 0 .. left[s] :
        /\ left' = [left EXCEPT ![s] = @ - n]
        /\ out' = [out EXCEPT ![s].body = @ + n,
                              ![s].fin = @ + IF n = left[s] THEN 1 ELSE 0]
  BY <1>1
<1>3. out[s].hdr = 1 /\ out[s].fin = 0 /\ out[s].rst = 0
  BY <1>1 DEF WireInv, Wire
<1>4. /\ out \in [StreamIds -> OutRecord] /\ left \in [StreamIds -> Nat]
      /\ left[s] \in Nat /\ out[s].body \in Nat /\ n \in Nat
  BY DEF IInv, ControlInv, OutRecord
<1>5. Size' = Size
  <2>1. ASSUME NEW x \in StreamIds PROVE left'[x] + out'[x].body = left[x] + out[x].body
    <3>1. CASE x = s
      <4>1. out'[s].body = out[s].body + n /\ left'[s] = left[s] - n
        BY <1>2, <1>4 DEF OutRecord
      <4> QED BY <3>1, <4>1, <1>4
    <3>2. CASE x # s
      BY <3>2, <1>2, <1>4
    <3> QED BY <3>1, <3>2
  <2> QED BY <2>1 DEF Size
<1>6. n \in 0 .. Size[s] - out[s].body /\ (out[s].body + n = Size[s] <=> n = left[s])
  BY <1>4 DEF Size
<1>7. out' = [out EXCEPT ![s].body = @ + n,
                         ![s].fin = IF out[s].body + n = Size[s] THEN 1 ELSE 0]
  <2> DEFINE e == IF n = left[s] THEN 1 ELSE 0
             f == IF out[s].body + n = Size[s] THEN 1 ELSE 0
  <2>1. out[s].fin + e = f
    BY <1>3, <1>6
  <2>2. out' = [out EXCEPT ![s] = [out[s] EXCEPT !.body = @ + n, !.fin = @ + e]]
    BY <1>2, <1>4 DEF OutRecord
  <2> HIDE DEF e, f
  <2>3. out' = [out EXCEPT ![s] = [out[s] EXCEPT !.body = @ + n, !.fin = f]]
    BY <2>1, <2>2, <1>4 DEF OutRecord
  <2>4. out' = [out EXCEPT ![s].body = @ + n, ![s].fin = f]
    BY <2>3, <1>4 DEF OutRecord
  <2> QED BY <2>4 DEF f
<1>8. Promise!SendBody(s)
  BY <1>1, <1>3, <1>5, <1>6, <1>7 DEF Promise!SendBody, Size
<1> QED BY <1>8 DEF Promise!Next

\* Every step of the session is a step of the abstract specification, or none.
LEMMA NextPromise ==
  ASSUME IInv, IInv', SInv, WireInv, [Next]_vars PROVE [Promise!Next]_(Promise!vars)
<1>1. CASE \/ \E w \in WindowSizes : Upgrade(w)
           \/ UpgradeRejected \/ ServerPreface \/ Receive \/ SendUrgent \/ SendGoaway
  BY <1>1, NextQuiet, QuietPromise
<1>2. CASE \E s \in StreamIds, n \in BodySizes : SubmitResponse(s, n)
  BY <1>2, SubmitPromise
<1>3. CASE SendHeaders
  BY <1>3, SendHeadersPromise
<1>4. CASE SendRst
  BY <1>4, SendRstPromise
<1>5. CASE SendDone
  BY <1>5 DEF SendDone, Sending, Promise!vars
<1>6. ASSUME NEW s \in StreamIds, DropData(s) \/ DeferData(s) \/ ReadFails(s)
      PROVE  UNCHANGED Promise!vars
  BY <1>6, SetItemWire DEF Promise!vars
<1>7. ASSUME NEW s \in StreamIds, SendData(s) PROVE Promise!Next
  BY <1>7, SendDataPromise
<1>8. CASE UNCHANGED vars
  BY <1>8 DEF Promise!vars, vars, response, history
<1> QED BY <1>1, <1>2, <1>3, <1>4, <1>5, <1>6, <1>7, <1>8 DEF Next, Send

\* The session implements Exchange: whatever the peer sends and however windows open and
\* shut, each answer goes out once, header block first, with its whole body and no more, and
\* nothing of it follows END_STREAM or RST_STREAM
\* (nghttp2_session.c:1605, 1799, 2502-2556, 2816).
THEOREM SessionImplementsExchange == Spec => ImplementsExchange
<1>1. Init => Promise!Init
  <2> SUFFICES ASSUME Init PROVE Promise!Init
    OBVIOUS
  <2>1. /\ delivered = {} /\ answered = {} /\ left = [s \in StreamIds |-> 0]
        /\ out = [s \in StreamIds |-> [hdr |-> 0, body |-> 0, fin |-> 0, rst |-> 0]]
    BY DEF Init
  <2> QED BY <2>1 DEF Promise!Init
<1>2. IInv /\ IInv' /\ SInv /\ WireInv /\ [Next]_vars => [Promise!Next]_(Promise!vars)
  BY NextPromise
<1> QED BY <1>1, <1>2, Invariance, LifeInvariance, WireInvariance, PTL
        DEF Spec, ImplementsExchange, Promise!Spec

-----------------------------------------------------------------------------
(* Nothing that is to be sent is forgotten.                                 *)

\* Outside the library nothing is queued, not even when the data provider failed
IdleInv == SendExhaustive /\ (pc = "idle" => obReg = << >>)

\* The answer to the request that asked for the upgrade, before the peer's first frame:
\* it is on the wire, or its stream is open for it, unless the upgrade failed
EarlyInv ==
  frames = 0 =>
    /\ iframe.k = "first" /\ tbl.idleQ = << >>
    /\ "TERM_ON_SEND" \notin goaway /\ 1 \in StreamIds =>
         \/ tbl.strm[1].st = "ABSENT"
         \/ out[1].hdr = 1
         \/ /\ Live(tbl, 1) /\ tbl.strm[1].st # "CLOSING"
            /\ 1 \in answered => Headers(1) \in ToSet(obReg)

KeptInv == IdleInv /\ EarlyInv /\ answered \subseteq delivered

\* The stream of every request that was given to the application is known
RequestsKnown == \A s \in delivered : ~IsNewPeerStream(s, lastRecv)

\* Where no upgrade fails and the data provider does not, an answer stays under way on a
\* stream that stays open
AnswersInv ==
  /\ RequestsKnown
  /\ "TERM_ON_SEND" \notin goaway =>
       \A s \in answered : Live(tbl, s) /\ tbl.strm[s].st # "CLOSING" =>
         out[s].fin = 1 \/ tbl.strm[s].item # "none" \/ Headers(s) \in ToSet(obReg)

-----------------------------------------------------------------------------
(* nghttp2_session_send leaves nothing behind. *)

\* In every step that ends outside the library the loop of nghttp2_session_send has ended.
LEMMA NextIdle ==
  ASSUME IInv, IInv', SInv, IdleInv, [Next]_vars PROVE IdleInv'
<1>1. CASE \/ \E w \in WindowSizes : Upgrade(w)
           \/ UpgradeRejected \/ ServerPreface \/ Receive \/ SendUrgent \/ SendGoaway
  BY <1>1, NextQuiet DEF Quiet, IdleInv, SendExhaustive
<1>2. CASE \E s \in StreamIds, n \in BodySizes : SubmitResponse(s, n)
  BY <1>2 DEF SubmitResponse, EnterSend, IdleInv, SendExhaustive
<1>3. CASE SendHeaders \/ SendRst
  BY <1>3 DEF SendHeaders, SendRst, Pops, Sending, IdleInv, SendExhaustive
<1>4. CASE SendDone
  <2>1. /\ obUrgent' = << >> /\ obReg' = << >>
        /\ connWin <= 0 \/ \A s \in StreamIds : tbl.strm[s].item # "active"
        /\ UNCHANGED <<tbl, connWin>>
    BY <1>4 DEF SendDone, flow, queues
  <2>2. connWin \in Int /\ connWin >= 0
    BY MaxWindowAssumption DEF IInv, TableInv, Windows
  <2> QED BY <2>1, <2>2 DEF IdleInv, SendExhaustive
<1>5. ASSUME NEW s \in StreamIds, DropData(s) \/ DeferData(s) \/ SendData(s) PROVE IdleInv'
  BY <1>5 DEF DropData, DeferData, SendData, PicksData, Sending, IdleInv, SendExhaustive
<1>6. ASSUME NEW s \in StreamIds, ReadFails(s) PROVE IdleInv'
  BY <1>6 DEF ReadFails, PicksData, queues, IdleInv, SendExhaustive
<1>7. CASE UNCHANGED vars
  BY <1>7 DEF vars, flow, queues, control, response, IdleInv, SendExhaustive
<1> QED BY <1>1, <1>2, <1>3, <1>4, <1>5, <1>6, <1>7 DEF Next, Send

\* Only requests that the application was given are answered.
LEMMA NextAnswered ==
  ASSUME IInv, IInv', SInv, WireInv, answered \subseteq delivered, [Next]_vars
  PROVE  (answered \subseteq delivered)'
<1>1. CASE \/ \E w \in WindowSizes : Upgrade(w)
           \/ UpgradeRejected \/ ServerPreface \/ Receive \/ SendUrgent \/ SendGoaway
  BY <1>1, NextQuiet DEF Quiet, Asks
<1>2. CASE \E s \in StreamIds, n \in BodySizes : SubmitResponse(s, n)
  BY <1>2 DEF SubmitResponse, history
<1>3. CASE SendHeaders \/ SendRst \/ SendDone
  BY <1>3 DEF SendHeaders, SendRst, SendDone, Pops, Sending
<1>4. ASSUME NEW s \in StreamIds, DropData(s) \/ DeferData(s) \/ SendData(s) \/ ReadFails(s)
      PROVE  UNCHANGED <<answered, delivered>>
  BY <1>4 DEF DropData, DeferData, SendData, ReadFails, PicksData, Sending
<1>5. CASE UNCHANGED vars
  BY <1>5 DEF vars, response, history
<1> QED BY <1>1, <1>2, <1>3, <1>4, <1>5 DEF Next, Send

-----------------------------------------------------------------------------
(* The answer to the request of an upgrade. *)

\* A list that is empty is not trimmed.
LEMMA TrimNothing ==
  ASSUME NEW t, TableOK(t), t.idleQ = << >>, NEW max \in Nat
  PROVE  AdjustIdle(t, max) = t
<1>1. /\ t = [strm |-> t.strm, closedQ |-> t.closedQ, idleQ |-> t.idleQ,
              nIncoming |-> t.nIncoming]
      /\ t.strm \in [StreamIds -> Stream]
  BY DEF TableOK, Table
<1>2. Len(t.idleQ) = 0 /\ LargerOf(0, 0 - max) = 0
  BY DEF LargerOf
<1>3. DestroyOldest(t.strm, t.idleQ, 0) = t.strm
  BY <1>1 DEF DestroyOldest
<1>4. SubSeq(t.idleQ, 0 + 1, 0) = << >>
  OBVIOUS
<1>5. AdjustIdle(t, max) = [t EXCEPT !.strm = t.strm, !.idleQ = << >>]
  BY <1>1, <1>2, <1>3, <1>4 DEF AdjustIdle
<1> QED BY <1>1, <1>5

\* Before the peer's first frame no frame is read, and no callback runs.
LEMMA EarlyControl ==
  ASSUME IInv, SInv, frames = 0, iframe.k = "first", Receive, frames' = 0
  PROVE  StartRecv \/ BufferEnd
<1>1. ~\E k \in Inputs : Begins(k)
  BY DEF Begins
<1>2. ~RecvNoSettings
  BY DEF RecvNoSettings
<1>3. ~CallbackReturns
  <2>1. pc = "callback" => held.s \in StreamIds
    BY DEF IInv, ControlInv
  <2>2. 0 \notin StreamIds
    BY StreamIdsAssumption
  <2> QED BY <2>1, <2>2 DEF CallbackReturns, SInv, ReadInv
<1>4. ~FrameDelivered /\ ~FrameViolatesMessaging /\ ~FrameAborted /\ ~FrameIgnored
      /\ ~CompressionError
  BY DEF FrameDelivered, FrameViolatesMessaging, FrameAborted, FrameIgnored, CompressionError
<1>5. \A w \in WindowSizes : ~RecvSettings(w)
  BY DEF RecvSettings
<1>6. ~RecvInvalid /\ ~RecvSettingsAck /\ ~RecvGoaway /\ ~RecvPing
      /\ \A n \in Increments : ~RecvConnWindowUpdate(n)
  BY DEF RecvInvalid, RecvSettingsAck, RecvGoaway, RecvPing, RecvConnWindowUpdate, Single, Begins
<1>7. ASSUME NEW s \in StreamIds
      PROVE  /\ \A es \in BOOLEAN, d \in StreamOrNone : ~RecvRequest(s, es, d)
             /\ \A es \in BOOLEAN : ~RecvTrailers(s, es) /\ ~RecvData(s, es)
             /\ ~RecvRst(s)
             /\ \A d \in StreamOrNone : ~RecvPriority(s, d)
             /\ \A n \in Increments : ~RecvWindowUpdate(s, n)
  BY DEF RecvRequest, RecvTrailers, RecvData, RecvRst, RecvPriority, RecvWindowUpdate, Single,
         Begins
<1> QED BY <1>2, <1>3, <1>4, <1>5, <1>6, <1>7 DEF Receive

\* What one step of mem_recv does to the number of frames.
LEMMA ReceiveFrames ==
  ASSUME Receive PROVE frames' = frames \/ frames' = frames + 1
<1>1. CASE StartRecv \/ BufferEnd \/ RecvNoSettings \/ CallbackReturns
  BY <1>1 DEF StartRecv, BufferEnd, RecvNoSettings, CallbackReturns, input
<1>2. CASE FrameDelivered \/ FrameViolatesMessaging \/ FrameAborted \/ FrameIgnored
           \/ CompressionError
  BY <1>2 DEF FrameDelivered, FrameViolatesMessaging, FrameAborted, FrameIgnored,
              CompressionError
<1>3. ASSUME NEW w \in WindowSizes, RecvSettings(w) PROVE frames' = frames + 1
  BY <1>3 DEF RecvSettings
<1>4. CASE RecvInvalid \/ RecvSettingsAck \/ RecvGoaway \/ RecvPing
  BY <1>4 DEF RecvInvalid, RecvSettingsAck, RecvGoaway, RecvPing, Single, Begins
<1>5. ASSUME NEW n \in Increments, RecvConnWindowUpdate(n) PROVE frames' = frames + 1
  BY <1>5 DEF RecvConnWindowUpdate, Single, Begins
<1>6. ASSUME NEW s \in StreamIds, NEW es \in BOOLEAN,
             \/ \E d \in StreamOrNone : RecvRequest(s, es, d)
             \/ RecvTrailers(s, es) \/ RecvData(s, es)
      PROVE  frames' = frames + 1
  BY <1>6 DEF RecvRequest, RecvTrailers, RecvData, Begins
<1>7. ASSUME NEW s \in StreamIds,
             \/ RecvRst(s)
             \/ \E d \in StreamOrNone : RecvPriority(s, d)
             \/ \E n \in Increments : RecvWindowUpdate(s, n)
      PROVE  frames' = frames + 1
  BY <1>7 DEF RecvRst, RecvPriority, RecvWindowUpdate, Single, Begins
<1> QED BY <1>1, <1>2, <1>3, <1>4, <1>5, <1>6, <1>7 DEF Receive

\* The frames that were received only become more, and the first one is not behind.
LEMMA EarlyFrames ==
  ASSUME IInv, SInv, EarlyInv, [Next]_vars, frames' = 0
  PROVE  /\ frames = 0
         /\ \/ \E w \in WindowSizes : Upgrade(w)
            \/ UpgradeRejected \/ ServerPreface \/ StartRecv \/ BufferEnd
            \/ \E s \in StreamIds, n \in BodySizes : SubmitResponse(s, n)
            \/ Send \/ UNCHANGED vars
         /\ iframe' = iframe
<1>1. frames \in Nat
  BY MaxFramesAssumption DEF IInv, ControlInv
<1>2. CASE ~Receive
  <2>1. UNCHANGED <<frames, iframe>>
    <3>1. ASSUME NEW w \in WindowSizes, Upgrade(w) PROVE UNCHANGED <<frames, iframe>>
      BY <3>1 DEF Upgrade, input
    <3>2. CASE UpgradeRejected \/ ServerPreface
      BY <3>2 DEF UpgradeRejected, ServerPreface, input
    <3>3. ASSUME NEW s \in StreamIds, NEW n \in BodySizes, SubmitResponse(s, n)
          PROVE  UNCHANGED <<frames, iframe>>
      BY <3>3 DEF SubmitResponse, input
    <3>4. CASE SendUrgent \/ SendHeaders \/ SendRst \/ SendGoaway \/ SendDone
      BY <3>4 DEF SendUrgent, SendHeaders, SendRst, SendGoaway, SendDone, Pops, Sending, input
    <3>5. ASSUME NEW s \in StreamIds, DropData(s) \/ DeferData(s) \/ SendData(s) \/ ReadFails(s)
          PROVE  UNCHANGED <<frames, iframe>>
      BY <3>5 DEF DropData, DeferData, SendData, ReadFails, PicksData, Sending, input
    <3>6. CASE UNCHANGED vars
      BY <3>6 DEF vars, input
    <3> QED BY <1>2, <3>1, <3>2, <3>3, <3>4, <3>5, <3>6 DEF Next, Send
  <2> QED BY <1>2, <2>1 DEF Next
<1>3. CASE Receive
  <2>1. frames = 0
    <3> SUFFICES ASSUME frames # 0 PROVE FALSE
      OBVIOUS
    <3>1. frames' = frames \/ frames' = frames + 1
      BY <1>3, ReceiveFrames
    <3> QED BY <3>1, <1>1
  <2>2. iframe.k = "first"
    BY <2>1 DEF EarlyInv
  <2>3. StartRecv \/ BufferEnd
    BY <1>3, <2>1, <2>2, EarlyControl
  <2>4. iframe' = iframe
    BY <2>3 DEF StartRecv, BufferEnd, input
  <2> QED BY <2>1, <2>3, <2>4
<1> QED BY <1>2, <1>3

\* What EarlyInv says of stream 1
Early ==
  \/ tbl.strm[1].st = "ABSENT"
  \/ out[1].hdr = 1
  \/ /\ Live(tbl, 1) /\ tbl.strm[1].st # "CLOSING"
     /\ 1 \in answered => Headers(1) \in ToSet(obReg)

\* The upgrade opens stream 1, or fails and opens none.
LEMMA UpgradeEarly ==
  ASSUME IInv, IInv', SInv, KeptInv, frames = 0, iframe' = iframe,
         UpgradeRejected \/ \E w \in WindowSizes : Upgrade(w)
  PROVE  EarlyInv'
<1>1. /\ tbl = EmptyTable /\ 1 \in StreamIds /\ TableOK(tbl) /\ answered = {}
      /\ UNCHANGED <<out, answered>>
  BY EmptyTableOK DEF IInv, ControlInv, UpgradeRejected, Upgrade, KeptInv, response
<1>2. tbl.strm[1] = NoStream /\ tbl.idleQ = << >> /\ iframe.k = "first"
  BY <1>1 DEF EmptyTable, KeptInv, EarlyInv
<1>3. 0 \in Windows
  BY MaxWindowAssumption DEF Windows
<1>4. CASE UpgradeRejected
  <2>1. tbl' = tbl
    BY <1>4 DEF UpgradeRejected
  <2> QED BY <1>2, <1>3, <2>1, BlankEntries DEF EarlyInv
<1>5. ASSUME NEW w \in WindowSizes, Upgrade(w) PROVE EarlyInv'
  <2> DEFINE o == OpenIncoming(tbl, 1, initWin')
  <2>1. tbl' = ShutRd(o, 1) /\ initWin' \in Windows
    BY <1>5, MaxWindowAssumption DEF Upgrade, IInv, TableInv, Windows
  <2>2. EntriesOK(tbl, initWin') /\ tbl.strm[1].st \in {"ABSENT", "IDLE"} /\ ~IsMine(1)
    BY <1>1, BlankEntries, <1>3, <2>1 DEF EntriesOK, EntryOK, IsMine, EmptyTable
  <2>3. o.strm[1].st = "OPENING" /\ ~o.strm[1].closed
    BY <1>1, <2>1, <2>2, OpenIncomingLife
  <2>4. TableOK(o)
    BY <1>1, <2>1, <2>2, OpenIncomingOK
  <2>5. o.idleQ = << >>
    BY <1>1, <1>2, <1>3, BlankEntries DEF OpenIncoming, TableOK, Table
  <2> HIDE DEF o
  <2>6. tbl'.idleQ = << >> /\ tbl'.strm[1].st = "OPENING" /\ ~tbl'.strm[1].closed
    BY <1>1, <2>1, <2>3, <2>4, <2>5 DEF ShutRd, TableOK, Table, Stream
  <2> QED BY <1>1, <1>2, <2>6 DEF EarlyInv, Live
<1> QED BY <1>4, <1>5

\* nghttp2_session_mem_recv begins and ends, and the application answers.
LEMMA TrimEarly ==
  ASSUME IInv, IInv', SInv, WireInv, KeptInv, frames = 0, iframe' = iframe,
         \/ ServerPreface \/ StartRecv \/ BufferEnd
         \/ \E s \in StreamIds, n \in BodySizes : SubmitResponse(s, n)
  PROVE  EarlyInv'
<1>1. TableOK(tbl) /\ tbl.idleQ = << >> /\ iframe.k = "first"
  BY DEF IInv, TableInv, KeptInv, EarlyInv
<1>2. \A max \in Nat : AdjustIdle(tbl, max) = tbl
  BY <1>1, TrimNothing
<1>3. /\ IdleMax(localMax, pendingMax) \in Nat
      /\ pc = "start" => IdleMax(localMax, MaxConcurrent) \in Nat
  BY LimitTypes DEF IInv
<1>4. CASE ServerPreface \/ StartRecv \/ BufferEnd
  <2>1. tbl' = tbl /\ UNCHANGED <<obReg, out, answered, goaway>>
    <3>1. CASE ServerPreface
      BY <1>2, <1>3, <3>1 DEF ServerPreface, EnterSend, response
    <3>2. CASE StartRecv
      BY <1>2, <1>3, <3>2 DEF StartRecv, EnterSend, response, queues
    <3>3. CASE BufferEnd
      BY <1>2, <1>3, <3>3 DEF BufferEnd, EnterSend, response, queues
    <3> QED BY <1>4, <3>1, <3>2, <3>3
  <2> QED BY <1>1, <2>1 DEF KeptInv, EarlyInv
<1>5. ASSUME NEW s \in StreamIds, NEW n \in BodySizes, SubmitResponse(s, n) PROVE EarlyInv'
  <2>1. /\ tbl' = tbl /\ UNCHANGED <<out, goaway>> /\ answered' = answered \cup {s}
        /\ obReg' = Append(obReg, Headers(s))
    BY <1>2, <1>3, <1>5 DEF SubmitResponse, EnterSend
  <2>2. obReg \in Seq(OutFrame) /\ Headers(s) \in OutFrame
    BY DEF IInv, ControlInv, Headers, OutFrame
  <2>3. ToSet(obReg') = ToSet(obReg) \cup {Headers(s)}
    BY <2>1, <2>2, QueueContents
  <2> QED BY <1>1, <2>1, <2>3 DEF KeptInv, EarlyInv
<1> QED BY <1>4, <1>5

\* Whatever may be sent on an open stream is sent.
LEMMA HeadersGoOut ==
  ASSUME IInv, SInv, WireInv, NEW s \in StreamIds, Live(tbl, s), tbl.strm[s].st # "CLOSING",
         "TERM_ON_SEND" \notin goaway, NEW rest
  PROVE  MaySendHeaders(s, rest) \/ tbl.strm[s].wr
<1>1. tbl.strm[s].st \in {"OPENING", "OPENED"}
  BY DEF IInv, TableInv, TableOK, Table, Stream, States, Live
<1>2. "TERM_SENT" \notin goaway
  BY DEF SInv, GoawayInv
<1>3. NumActive(tbl) > 0
  <2>1. NumActive(tbl) = Cardinality(LiveSet(tbl))
    BY ActiveCount DEF IInv, TableInv
  <2>2. IsFiniteSet(LiveSet(tbl)) /\ s \in LiveSet(tbl)
    BY StreamIdsAssumption, FS_Subset DEF LiveSet
  <2>3. Cardinality(LiveSet(tbl)) # 0 /\ Cardinality(LiveSet(tbl)) \in Nat
    BY <2>2, FS_EmptySet, FS_CardinalityType
  <2> QED BY <2>1, <2>3
<1>4. ~IsClosing(tbl, goaway, obUrgent, rest)
  BY <1>2, <1>3 DEF IsClosing, WantRead
<1> QED BY <1>1, <1>4 DEF MaySendHeaders

\* nghttp2_session_send.
LEMMA SendEarly ==
  ASSUME IInv, IInv', SInv, WireInv, KeptInv, frames = 0, iframe' = iframe, Send
  PROVE  EarlyInv'
<1>1. tbl.idleQ = << >> /\ iframe.k = "first"
  BY DEF KeptInv, EarlyInv
<1>2. "TERM_ON_SEND" \notin goaway /\ 1 \in StreamIds => Early
  BY DEF KeptInv, EarlyInv, Early
<1>3. SUFFICES /\ tbl'.idleQ = << >>
               /\ "TERM_ON_SEND" \notin goaway' /\ 1 \in StreamIds => Early'
  BY <1>1 DEF EarlyInv, Early
<1>4. TableOK(tbl) /\ EntriesOK(tbl, initWin)
  BY DEF IInv, TableInv, SInv, LifeInv
<1>5. CASE SendUrgent \/ SendDone
  BY <1>1, <1>2, <1>5 DEF SendUrgent, SendDone, Sending, Early, queues
<1>6. CASE SendGoaway
  <2> DEFINE R == {s \in LiveSet(tbl) : s > Head(obReg).s}
  <2>1. \E q \in Orders(R) : tbl' = CloseAll(tbl, q)
    BY <1>6 DEF SendGoaway
  <2>2. R \in SUBSET LiveSet(tbl)
    OBVIOUS
  <2> HIDE DEF R
  <2>3. tbl'.idleQ = tbl.idleQ
    BY <2>1, <2>2, <1>4, CloseAllFades
  <2>4. "TERM_ON_SEND" \in goaway'
    <3>1. Head(obReg) \in ToSet(obReg) /\ Head(obReg) \in OutFrame /\ Head(obReg).f = "GOAWAY"
      BY <1>6, PopsContents DEF SendGoaway
    <3>2. Head(obReg).s \in StreamOrNone /\ Head(obReg) = Goaway(Head(obReg).s)
      BY <3>1 DEF OutFrame, Goaway
    <3>3. "TERM_ON_SEND" \in goaway
      BY <3>1, <3>2 DEF SInv, GoawayInv
    <3> QED BY <1>6, <3>3 DEF SendGoaway
  <2> QED BY <1>1, <2>3, <2>4
<1>7. CASE SendHeaders
  <2> DEFINE s == Head(obReg).s
  <2>1. /\ s \in StreamIds /\ out[s].fin = 0 /\ ~tbl.strm[s].wr
        /\ ToSet(obReg) = ToSet(obReg') \cup {Headers(s)}
        /\ UNCHANGED <<answered, goaway>>
        /\ \/ /\ MaySendHeaders(s, Tail(obReg)) /\ tbl' = Attach(tbl, s)
              /\ out' = [out EXCEPT ![s].hdr = 1]
           \/ ~MaySendHeaders(s, Tail(obReg)) /\ UNCHANGED <<tbl, out>>
    BY <1>7, SendHeadersEffect
  <2> HIDE DEF s
  <2>2. CASE ~MaySendHeaders(s, Tail(obReg)) /\ UNCHANGED <<tbl, out>>
    <3>1. ASSUME "TERM_ON_SEND" \notin goaway, 1 \in StreamIds PROVE Early'
      <4>1. s = 1 => ~Live(tbl, 1) \/ tbl.strm[1].st = "CLOSING"
        BY <2>1, <2>2, <3>1, HeadersGoOut
      <4>2. s # 1 /\ Headers(1) \in ToSet(obReg) => Headers(1) \in ToSet(obReg')
        BY <2>1, FramesDiffer
      <4> QED BY <1>2, <2>1, <2>2, <3>1, <4>1, <4>2 DEF Early
    <3> QED BY <1>1, <2>1, <2>2, <3>1
  <2>3. CASE /\ MaySendHeaders(s, Tail(obReg)) /\ tbl' = Attach(tbl, s)
             /\ out' = [out EXCEPT ![s].hdr = 1]
    <3>1. Live(tbl, s) /\ tbl.strm[s].st # "CLOSING"
      BY <2>3 DEF MaySendHeaders
    <3>2. tbl'.idleQ = tbl.idleQ /\ \A x \in StreamIds \ {s} : tbl'.strm[x] = tbl.strm[x]
      BY <1>4, <2>1, <2>3, <3>1, AttachAges
    <3>3. out'[s].hdr = 1 /\ \A x \in StreamIds \ {s} : out'[x] = out[x]
      BY <2>1, <2>3 DEF IInv, ControlInv, OutRecord
    <3>4. ASSUME "TERM_ON_SEND" \notin goaway, 1 \in StreamIds, s # 1 PROVE Early'
      <4>1. Headers(1) \in ToSet(obReg) => Headers(1) \in ToSet(obReg')
        BY <2>1, <3>4, FramesDiffer
      <4> QED BY <1>2, <2>1, <3>2, <3>3, <3>4, <4>1 DEF Early, Live
    <3> QED BY <1>1, <2>1, <3>2, <3>3, <3>4 DEF Early
  <2> QED BY <2>1, <2>2, <2>3
<1>8. CASE SendRst
  <2> DEFINE s == Head(obReg).s
  <2>1. /\ s \in StreamIds /\ Rst(s) \in ToSet(obReg) /\ SameHeaders(obReg, obReg')
        /\ UNCHANGED <<answered, goaway>>
        /\ \/ tbl' = CloseStream(tbl, s) /\ out' = [out EXCEPT ![s].rst = @ + 1]
           \/ UNCHANGED <<tbl, out>>
    BY <1>8, SendRstEffect
  <2> HIDE DEF s
  <2>2. CASE UNCHANGED <<tbl, out>>
    BY <1>1, <1>2, <2>1, <2>2 DEF Early, SameHeaders
  <2>3. CASE tbl' = CloseStream(tbl, s) /\ out' = [out EXCEPT ![s].rst = @ + 1]
    <3>1. tbl'.idleQ = tbl.idleQ /\ \A x \in StreamIds \ {s} : tbl'.strm[x] = tbl.strm[x]
      BY <1>4, <2>1, <2>3, CloseStreamFades
    <3>2. \A x \in StreamIds : out'[x].hdr = out[x].hdr
      BY <2>1, <2>3 DEF IInv, ControlInv, OutRecord
    <3>3. ~Live(tbl, s) \/ tbl.strm[s].st = "CLOSING"
      BY <2>1 DEF SInv, ResetInv
    <3>4. ~Live(tbl, s) => tbl' = tbl
      BY <2>3 DEF CloseStream
    <3>5. tbl.strm[s].st = "ABSENT" => ~Live(tbl, s)
      BY DEF Live
    <3>6. ASSUME "TERM_ON_SEND" \notin goaway, 1 \in StreamIds PROVE Early'
      <4>1. CASE s = 1
        BY <1>2, <2>1, <3>2, <3>3, <3>4, <3>5, <3>6, <4>1 DEF Early
      <4>2. CASE s # 1
        BY <1>2, <2>1, <3>1, <3>2, <3>6, <4>2 DEF Early, Live, SameHeaders
      <4> QED BY <4>1, <4>2
    <3> QED BY <1>1, <2>1, <3>1, <3>6
  <2> QED BY <2>1, <2>2, <2>3
<1>9. ASSUME NEW s \in StreamIds, DropData(s) \/ DeferData(s) \/ ReadFails(s)
      PROVE  /\ tbl'.idleQ = << >>
             /\ "TERM_ON_SEND" \notin goaway' /\ 1 \in StreamIds => Early'
  <2>1. /\ UNCHANGED <<out, answered, obReg, goaway>> /\ tbl.strm[s].item # "none"
        /\ \E i \in {"none", "deferred"} : tbl' = SetItem(tbl, s, i)
    BY <1>9 DEF DropData, DeferData, ReadFails, PicksData, Sending, queues
  <2>2. /\ tbl'.idleQ = tbl.idleQ /\ Spares(tbl, tbl')
        /\ \A x \in StreamIds : tbl'.strm[x].st = tbl.strm[x].st
    BY <1>4, <2>1, SetItemAges
  <2> QED BY <1>1, <1>2, <2>1, <2>2 DEF Early, Spares
<1>10. ASSUME NEW s \in StreamIds, SendData(s)
       PROVE  /\ tbl'.idleQ = << >>
              /\ "TERM_ON_SEND" \notin goaway' /\ 1 \in StreamIds => Early'
  <2>1. /\ tbl'.idleQ = tbl.idleQ /\ tbl.strm[s].item # "none"
        /\ UNCHANGED <<obReg, answered, goaway>>
        /\ \A x \in StreamIds \ {s} : tbl'.strm[x] = tbl.strm[x]
        /\ \E n \in 0 .. left[s] :
             out' = [out EXCEPT ![s].body = @ + n,
                                ![s].fin = @ + IF n = left[s] THEN 1 ELSE 0]
    BY <1>10, SendDataEffect
  <2>2. out[s].hdr = 1
    BY <2>1 DEF WireInv, Wire
  <2>3. \A x \in StreamIds : out'[x].hdr = out[x].hdr
    <3>1. PICK n \in 0 .. left[s] :
            out' = [out EXCEPT ![s].body = @ + n,
                               ![s].fin = @ + IF n = left[s] THEN 1 ELSE 0]
      BY <2>1
    <3>2. out \in [StreamIds -> OutRecord]
      BY DEF IInv, ControlInv
    <3>3. out' = [out EXCEPT ![s] = [out[s] EXCEPT !.body = @ + n,
                                                 !.fin = @ + IF n = left[s] THEN 1 ELSE 0]]
      BY <3>1, <3>2
    <3> QED BY <3>2, <3>3 DEF OutRecord
  <2>4. ASSUME "TERM_ON_SEND" \notin goaway, 1 \in StreamIds PROVE Early'
    <3>1. CASE s = 1
      BY <2>2, <2>3, <3>1 DEF Early
    <3>2. CASE s # 1
      BY <1>2, <2>1, <2>3, <2>4, <3>2 DEF Early, Live
    <3> QED BY <3>1, <3>2
  <2> QED BY <1>1, <2>1, <2>4
<1> QED BY <1>5, <1>6, <1>7, <1>8, <1>9, <1>10 DEF Send

-----------------------------------------------------------------------------
(* Nothing is forgotten. *)

\* A new session has nothing to send.
LEMMA InitKept ==
  ASSUME Init PROVE KeptInv
<1>1. /\ tbl = EmptyTable /\ pc = "start" /\ answered = {} /\ iframe.k = "first"
  BY DEF Init, FirstSettings
<1>2. 0 \in Windows
  BY MaxWindowAssumption DEF Windows
<1>3. tbl.idleQ = << >> /\ \A s \in StreamIds : tbl.strm[s].st = "ABSENT"
  BY <1>1, <1>2, BlankEntries DEF EmptyTable
<1> QED BY <1>1, <1>3 DEF KeptInv, IdleInv, SendExhaustive, EarlyInv

\* Every step keeps the invariant.
LEMMA NextKept ==
  ASSUME IInv, IInv', SInv, WireInv, KeptInv, [Next]_vars PROVE KeptInv'
<1>1. IdleInv'
  BY NextIdle DEF KeptInv
<1>2. (answered \subseteq delivered)'
  BY NextAnswered DEF KeptInv
<1>3. EarlyInv'
  <2>1. CASE frames' # 0
    BY <2>1 DEF EarlyInv
  <2>2. CASE frames' = 0
    <3>1. EarlyInv
      BY DEF KeptInv
    <3>2. /\ frames = 0 /\ iframe' = iframe
          /\ \/ \E w \in WindowSizes : Upgrade(w)
             \/ UpgradeRejected \/ ServerPreface \/ StartRecv \/ BufferEnd
             \/ \E s \in StreamIds, n \in BodySizes : SubmitResponse(s, n)
             \/ Send \/ UNCHANGED vars
      BY <2>2, <3>1, EarlyFrames
    <3>3. CASE UpgradeRejected \/ \E w \in WindowSizes : Upgrade(w)
      BY <3>2, <3>3, UpgradeEarly
    <3>4. CASE \/ ServerPreface \/ StartRecv \/ BufferEnd
               \/ \E s \in StreamIds, n \in BodySizes : SubmitResponse(s, n)
      BY <3>2, <3>4, TrimEarly
    <3>5. CASE Send
      BY <3>2, <3>5, SendEarly
    <3>6. CASE UNCHANGED vars
      BY <3>1, <3>6 DEF vars, EarlyInv, input, queues, response
    <3> QED BY <3>2, <3>3, <3>4, <3>5, <3>6
  <2> QED BY <2>1, <2>2
<1> QED BY <1>1, <1>2, <1>3 DEF KeptInv

\* KeptInv holds in every state of every behaviour of the session.
LEMMA KeptInvariance == Spec => []KeptInv
<1>1. IInv /\ IInv' /\ SInv /\ WireInv /\ KeptInv /\ [Next]_vars => KeptInv'
  BY NextKept
<1> QED BY <1>1, InitKept, Invariance, LifeInvariance, WireInvariance, PTL DEF Spec

\* Whenever nghttp2_session_send has returned nothing is left that it may send, and the
\* application's answer to the request that asked for the upgrade is out, for any number of
\* streams, windows and frames (nghttp2_session.c:2987-3006, 3216-3234; HTTP2Session.swift:110).
THEOREM NothingIsForgotten == Spec => []NothingForgotten
<1>1. IInv /\ KeptInv => NothingForgotten
  <2> SUFFICES ASSUME IInv, KeptInv PROVE InitialResponseSent
    BY DEF NothingForgotten, KeptInv, IdleInv
  <2>1. SUFFICES ASSUME pc = "idle", frames = 0, 1 \in answered
                 PROVE  out[1].hdr = 1 \/ tbl.strm[1].st = "ABSENT" \/ "TERM_ON_SEND" \in goaway
    BY DEF InitialResponseSent
  <2>2. 1 \in StreamIds
    BY <2>1 DEF IInv, ControlInv
  <2>3. Headers(1) \notin ToSet(obReg)
    <3>1. obReg = << >>
      BY <2>1 DEF KeptInv, IdleInv
    <3> QED BY <3>1 DEF ToSet
  <2> QED BY <2>1, <2>2, <2>3 DEF KeptInv, EarlyInv
<1> QED BY <1>1, Invariance, KeptInvariance, PTL

-----------------------------------------------------------------------------
(* No answer is lost. *)

\* A new session has answered nothing.
LEMMA InitAnswers ==
  ASSUME Init PROVE AnswersInv
BY DEF Init, AnswersInv, RequestsKnown

\* The steps on which neither an upgrade nor a data provider fails
Faultless ==
  \/ \E w \in WindowSizes : Upgrade(w)
  \/ ServerPreface \/ Receive \/ SendUrgent \/ SendGoaway
  \/ \E s \in StreamIds, n \in BodySizes : SubmitResponse(s, n)
  \/ SendHeaders \/ SendRst \/ SendDone
  \/ \E s \in StreamIds : DropData(s) \/ DeferData(s) \/ SendData(s)

\* The stream of a request that comes to the application is a known one.
LEMMA FaultlessKnown ==
  ASSUME IInv, IInv', SInv, WireInv, AnswersInv, [Faultless]_vars, "BAD_UPGRADE" \notin Inputs
  PROVE  RequestsKnown'
<1>1. delivered \subseteq StreamIds /\ RequestsKnown
  BY DEF IInv, ControlInv, AnswersInv
<1>2. CASE \/ \E w \in WindowSizes : Upgrade(w)
           \/ ServerPreface \/ Receive \/ SendUrgent \/ SendGoaway
  <2>1. Asks /\ lastRecv' >= lastRecv
    BY <1>2, NextQuiet DEF Quiet
  <2>2. \A x \in StreamIds : ~IsNewPeerStream(x, lastRecv) => ~IsNewPeerStream(x, lastRecv')
    <3>1. lastRecv \in Nat /\ lastRecv' \in Nat /\ StreamIds \subseteq Nat
      BY StreamIdsAssumption DEF IInv, TableInv, StreamOrNone
    <3> QED BY <2>1, <3>1 DEF IsNewPeerStream
  <2>3. CASE delivered' = delivered
    BY <1>1, <2>2, <2>3 DEF RequestsKnown
  <2>4. ASSUME NEW s \in StreamIds, delivered' = delivered \cup {s},
               ~IsNewPeerStream(s, lastRecv')
        PROVE  RequestsKnown'
    BY <1>1, <2>2, <2>4 DEF RequestsKnown
  <2> QED BY <2>1, <2>3, <2>4 DEF Asks
<1>3. CASE \/ \E s \in StreamIds, n \in BodySizes : SubmitResponse(s, n)
           \/ SendHeaders \/ SendRst \/ SendDone
           \/ \E s \in StreamIds : DropData(s) \/ DeferData(s) \/ SendData(s)
           \/ UNCHANGED vars
  <2>1. UNCHANGED <<delivered, lastRecv>>
    BY <1>3 DEF SubmitResponse, SendHeaders, SendRst, SendDone, DropData, DeferData, SendData,
                Pops, PicksData, Sending, ids, history, vars
  <2> QED BY <1>1, <2>1 DEF RequestsKnown
<1> QED BY <1>2, <1>3 DEF Faultless

\* The steps that send nothing and answer nothing.
LEMMA QuietAnswers ==
  ASSUME IInv, IInv', KeptInv, AnswersInv, RequestsKnown', Quiet PROVE AnswersInv'
<1>3. ASSUME "TERM_ON_SEND" \notin goaway', NEW s \in answered',
             Live(tbl', s), tbl'.strm[s].st # "CLOSING"
      PROVE  out'[s].fin = 1 \/ tbl'.strm[s].item # "none" \/ Headers(s) \in ToSet(obReg')
  <2>1. /\ "TERM_ON_SEND" \notin goaway /\ s \in answered /\ out' = out
        /\ SameHeaders(obReg, obReg') /\ Waits(tbl, tbl') /\ Renews
    BY <1>3 DEF Quiet
  <2>2. s \in StreamIds /\ ~IsNewPeerStream(s, lastRecv)
    BY <2>1 DEF AnswersInv, RequestsKnown, IInv, ControlInv, KeptInv
  <2>3. Live(tbl, s) /\ tbl.strm[s].st # "CLOSING"
    BY <1>3, <2>1, <2>2 DEF Renews
  <2>4. out[s].fin = 1 \/ tbl.strm[s].item # "none" \/ Headers(s) \in ToSet(obReg)
    BY <2>1, <2>3 DEF AnswersInv
  <2> QED BY <1>3, <2>1, <2>2, <2>4 DEF Waits, SameHeaders
<1> QED BY <1>3 DEF AnswersInv

\* The steps that leave the answers as they are: a stream that is open after one was open
\* before, and what is under way on it still is.
LEMMA AnswersStay ==
  ASSUME AnswersInv, UNCHANGED <<delivered, answered, lastRecv, goaway>>,
         "TERM_ON_SEND" \notin goaway =>
           \A s \in answered : Live(tbl', s) /\ tbl'.strm[s].st # "CLOSING" =>
             /\ Live(tbl, s) /\ tbl.strm[s].st # "CLOSING"
             /\ \/ out[s].fin = 1
                \/ tbl.strm[s].item # "none"
                \/ Headers(s) \in ToSet(obReg)
                => \/ out'[s].fin = 1
                   \/ tbl'.strm[s].item # "none"
                   \/ Headers(s) \in ToSet(obReg')
  PROVE  AnswersInv'
BY DEF AnswersInv, RequestsKnown

\* The answer itself: it is queued.
LEMMA SubmitAnswers ==
  ASSUME IInv, IInv', SInv, KeptInv, AnswersInv, NEW s \in StreamIds, NEW n \in BodySizes,
         SubmitResponse(s, n)
  PROVE  AnswersInv'
<1>1. /\ answered' = answered \cup {s} /\ obReg' = Append(obReg, Headers(s))
      /\ tbl' = AdjustIdle(tbl, IdleMax(localMax, pendingMax))
      /\ UNCHANGED <<out, lastRecv, delivered, goaway>>
  BY DEF SubmitResponse, EnterSend, ids, history
<1>2. obReg \in Seq(OutFrame) /\ Headers(s) \in OutFrame /\ answered \subseteq StreamIds
  BY DEF IInv, ControlInv, Headers, OutFrame
<1>3. Ages(tbl, tbl') /\ Waits(tbl, tbl')
  <2>1. initWin \in Windows /\ TableOK(tbl) /\ EntriesOK(tbl, initWin)
    BY MaxWindowAssumption DEF IInv, TableInv, Windows, SInv, LifeInv
  <2>2. IdleMax(localMax, pendingMax) \in Nat
    BY LimitTypes DEF IInv
  <2> QED BY <1>1, <2>1, <2>2, TrimAges
<1>4. ToSet(obReg') = ToSet(obReg) \cup {Headers(s)}
  BY <1>1, <1>2, QueueContents
<1>5. ASSUME "TERM_ON_SEND" \notin goaway', NEW x \in answered',
             Live(tbl', x), tbl'.strm[x].st # "CLOSING"
      PROVE  out'[x].fin = 1 \/ tbl'.strm[x].item # "none" \/ Headers(x) \in ToSet(obReg')
  <2>1. CASE x = s
    BY <2>1, <1>4
  <2>2. CASE x # s
    <3>1. x \in answered /\ x \in StreamIds
      BY <1>1, <1>2, <2>2
    <3>2. Live(tbl, x) /\ tbl.strm[x].st # "CLOSING"
      BY <3>1, <1>3, <1>5 DEF Ages
    <3>3. out[x].fin = 1 \/ tbl.strm[x].item # "none" \/ Headers(x) \in ToSet(obReg)
      BY <3>1, <3>2, <1>1, <1>5 DEF AnswersInv
    <3> QED BY <3>1, <3>3, <1>1, <1>3, <1>4, <1>5 DEF Waits
  <2> QED BY <2>1, <2>2
<1> QED BY <1>1, <1>5 DEF AnswersInv, RequestsKnown

\* Response HEADERS on an open stream are sent, and attach the DATA item.
LEMMA SendHeadersAnswers ==
  ASSUME IInv, SInv, WireInv, KeptInv, AnswersInv, SendHeaders PROVE AnswersInv'
<1> DEFINE s == Head(obReg).s
<1>1. /\ s \in StreamIds /\ ~tbl.strm[s].wr
      /\ ToSet(obReg) = ToSet(obReg') \cup {Headers(s)}
      /\ UNCHANGED <<lastRecv, answered, delivered, goaway>>
      /\ \/ /\ MaySendHeaders(s, Tail(obReg)) /\ tbl' = Attach(tbl, s)
            /\ out' = [out EXCEPT ![s].hdr = 1]
         \/ ~MaySendHeaders(s, Tail(obReg)) /\ UNCHANGED <<tbl, out>>
  BY SendHeadersEffect
<1> HIDE DEF s
<1>2. answered \subseteq StreamIds
  BY DEF IInv, ControlInv
<1>3. \A x \in StreamIds \ {s} : Headers(x) \in ToSet(obReg) => Headers(x) \in ToSet(obReg')
  BY <1>1, FramesDiffer
<1>4. CASE ~MaySendHeaders(s, Tail(obReg)) /\ UNCHANGED <<tbl, out>>
  <2>1. "TERM_ON_SEND" \notin goaway => ~Live(tbl, s) \/ tbl.strm[s].st = "CLOSING"
    BY <1>1, <1>4, HeadersGoOut
  <2> QED BY <1>1, <1>2, <1>3, <1>4, <2>1, AnswersStay
<1>5. CASE /\ MaySendHeaders(s, Tail(obReg)) /\ tbl' = Attach(tbl, s)
           /\ out' = [out EXCEPT ![s].hdr = 1]
  <2>1. Live(tbl, s) /\ tbl.strm[s].st # "CLOSING"
    BY <1>5 DEF MaySendHeaders
  <2>2. tbl'.strm[s].item # "none" /\ \A x \in StreamIds \ {s} : tbl'.strm[x] = tbl.strm[x]
    BY <1>1, <1>5, <2>1, AttachAges DEF IInv, TableInv, SInv, LifeInv
  <2>3. \A x \in StreamIds \ {s} : out'[x] = out[x]
    BY <1>1, <1>5 DEF IInv, ControlInv
  <2> QED BY <1>1, <1>2, <1>3, <2>1, <2>2, <2>3, AnswersStay DEF Live
<1> QED BY <1>1, <1>4, <1>5

\* RST_STREAM goes out only for a stream that is not open any more.
LEMMA SendRstAnswers ==
  ASSUME IInv, IInv', SInv, WireInv, KeptInv, AnswersInv, SendRst PROVE AnswersInv'
<1> DEFINE s == Head(obReg).s
<1>1. /\ s \in StreamIds /\ Rst(s) \in ToSet(obReg) /\ SameHeaders(obReg, obReg')
      /\ UNCHANGED <<lastRecv, answered, delivered, goaway>>
      /\ \/ tbl' = CloseStream(tbl, s) /\ out' = [out EXCEPT ![s].rst = @ + 1]
         \/ UNCHANGED <<tbl, out>>
  BY SendRstEffect
<1> HIDE DEF s
<1>2. answered \subseteq StreamIds
  BY DEF IInv, ControlInv
<1>3. CASE UNCHANGED <<tbl, out>>
  BY <1>1, <1>2, <1>3, AnswersStay DEF SameHeaders
<1>4. CASE tbl' = CloseStream(tbl, s) /\ out' = [out EXCEPT ![s].rst = @ + 1]
  <2>1. initWin \in Windows /\ TableOK(tbl) /\ EntriesOK(tbl, initWin)
    BY MaxWindowAssumption DEF IInv, TableInv, Windows, SInv, LifeInv
  <2>2. Ages(tbl, tbl') /\ Waits(tbl, tbl')
    <3>1. Fades(tbl, tbl', initWin)
      BY <1>1, <1>4, <2>1, CloseStreamFades
    <3> QED BY <2>1, <3>1, FadesOK
  <2>3. \A x \in StreamIds : out'[x].fin = out[x].fin
    BY <1>1, <1>4 DEF IInv, ControlInv, OutRecord
  <2>4. \A x \in StreamIds : /\ ~IsNewPeerStream(x, lastRecv)
                             /\ Live(tbl', x) /\ tbl'.strm[x].st # "CLOSING"
          => Live(tbl, x) /\ tbl.strm[x].st # "CLOSING"
    BY <2>2 DEF Ages
  <2>5. \A x \in answered : ~IsNewPeerStream(x, lastRecv)
    BY DEF AnswersInv, RequestsKnown, KeptInv
  <2> QED BY <1>1, <1>2, <2>2, <2>3, <2>4, <2>5, AnswersStay DEF Waits, SameHeaders
<1> QED BY <1>1, <1>3, <1>4

\* A DATA item is dropped only where its stream is not open any more.
LEMMA SetItemAnswers ==
  ASSUME IInv, IInv', SInv, WireInv, KeptInv, AnswersInv,
         NEW s \in StreamIds, DropData(s) \/ DeferData(s)
  PROVE  AnswersInv'
<1>1. /\ UNCHANGED <<out, answered, delivered, obReg, lastRecv, goaway>>
      /\ tbl.strm[s].item # "none"
      /\ \/ ~MaySendData(s) /\ tbl' = SetItem(tbl, s, "none")
         \/ tbl' = SetItem(tbl, s, "deferred")
  BY DEF DropData, DeferData, PicksData, Sending, ids, queues
<1>2. answered \subseteq StreamIds /\ TableOK(tbl) /\ EntriesOK(tbl, initWin)
  BY DEF IInv, TableInv, ControlInv, SInv, LifeInv
<1>3. PICK i \in {"none", "deferred"} :
        /\ tbl' = SetItem(tbl, s, i)
        /\ i = "none" => ~MaySendData(s)
  BY <1>1
<1>4. /\ Ages(tbl, tbl')
      /\ \A x \in StreamIds : tbl'.strm[x].st = tbl.strm[x].st
      /\ \A x \in StreamIds : tbl'.strm[x].item = IF x = s THEN i ELSE tbl.strm[x].item
  BY <1>1, <1>2, <1>3, SetItemAges
<1>5. "TERM_ON_SEND" \notin goaway /\ i = "none" /\ Live(tbl, s) =>
        tbl.strm[s].st = "CLOSING" \/ out[s].fin = 1
  <2>1. tbl.strm[s].st \in {"OPENED", "CLOSING"}
    BY <1>1, <1>2 DEF EntriesOK, EntryOK
  <2>2. tbl.strm[s].wr => out[s].fin = 1
    BY DEF WireInv, Wire
  <2> QED BY <1>3, <2>1, <2>2 DEF MaySendData
<1> QED BY <1>1, <1>2, <1>4, <1>5, AnswersStay DEF Ages

\* The DATA item goes with the frame that carries END_STREAM.
LEMMA SendDataAnswers ==
  ASSUME IInv, IInv', SInv, WireInv, KeptInv, AnswersInv, NEW s \in StreamIds, SendData(s)
  PROVE  AnswersInv'
<1>1. /\ tbl.strm[s].item # "none"
      /\ UNCHANGED <<obReg, lastRecv, answered, delivered, goaway>>
      /\ Ages(tbl, tbl')
      /\ \A x \in StreamIds \ {s} : tbl'.strm[x] = tbl.strm[x]
      /\ \E n \in 0 .. left[s] :
           /\ out' = [out EXCEPT ![s].body = @ + n,
                                 ![s].fin = @ + IF n = left[s] THEN 1 ELSE 0]
           /\ IF n = left[s] THEN tbl'.strm[s].item = "none"
              ELSE tbl'.strm[s].item # "none" /\ (tbl'.strm[s].wr => tbl.strm[s].wr)
  BY SendDataEffect
<1>2. PICK n \in 0 .. left[s] :
        /\ out' = [out EXCEPT ![s].body = @ + n,
                              ![s].fin = @ + IF n = left[s] THEN 1 ELSE 0]
        /\ IF n = left[s] THEN tbl'.strm[s].item = "none"
           ELSE tbl'.strm[s].item # "none" /\ (tbl'.strm[s].wr => tbl.strm[s].wr)
  BY <1>1
<1>3. answered \subseteq StreamIds /\ out \in [StreamIds -> OutRecord] /\ out[s].fin = 0
  BY <1>1 DEF IInv, ControlInv, WireInv, Wire
<1>4. tbl'.strm[s].item = "none" => out'[s].fin = 1
  <2>1. out' = [out EXCEPT ![s] = [out[s] EXCEPT !.body = @ + n,
                                               !.fin = @ + IF n = left[s] THEN 1 ELSE 0]]
    BY <1>2, <1>3
  <2>2. out'[s].fin = out[s].fin + IF n = left[s] THEN 1 ELSE 0
    BY <1>3, <2>1 DEF OutRecord
  <2> QED BY <1>2, <1>3, <2>2
<1>5. \A x \in StreamIds \ {s} : out'[x] = out[x]
  BY <1>2, <1>3
<1> QED BY <1>1, <1>3, <1>4, <1>5, AnswersStay DEF Ages

\* Every step keeps the invariant.
LEMMA NextAnswers ==
  ASSUME IInv, IInv', SInv, WireInv, KeptInv, AnswersInv, [Faultless]_vars, RequestsKnown'
  PROVE  AnswersInv'
<1>1. CASE \/ \E w \in WindowSizes : Upgrade(w)
           \/ ServerPreface \/ Receive \/ SendUrgent \/ SendGoaway
  BY <1>1, NextQuiet, QuietAnswers
<1>2. CASE \E s \in StreamIds, n \in BodySizes : SubmitResponse(s, n)
  BY <1>2, SubmitAnswers
<1>3. CASE SendHeaders
  BY <1>3, SendHeadersAnswers
<1>4. CASE SendRst
  BY <1>4, SendRstAnswers
<1>5. CASE SendDone
  BY <1>5 DEF SendDone, Sending, ids, queues, AnswersInv, RequestsKnown
<1>6. ASSUME NEW s \in StreamIds, DropData(s) \/ DeferData(s) PROVE AnswersInv'
  BY <1>6, SetItemAnswers
<1>7. ASSUME NEW s \in StreamIds, SendData(s) PROVE AnswersInv'
  BY <1>7, SendDataAnswers
<1>8. CASE UNCHANGED vars
  BY <1>8 DEF AnswersInv, RequestsKnown, vars, queues, response, history, ids
<1> QED BY <1>1, <1>2, <1>3, <1>4, <1>5, <1>6, <1>7, <1>8 DEF Faultless

\* What the invariant says of a stream when nghttp2_session_send has returned.
LEMMA AnswersImply ==
  ASSUME SInv, KeptInv, AnswersInv, answered \subseteq StreamIds PROVE NoAnswerLost
<1> SUFFICES ASSUME pc = "idle", "TERM_ON_SEND" \notin goaway, NEW s \in answered, Live(tbl, s)
             PROVE  out[s].fin = 1 \/ tbl.strm[s].item # "none"
  BY DEF NoAnswerLost
<1>1. obReg = << >> /\ ToSet(<< >>) = {}
  BY DEF KeptInv, IdleInv, ToSet
<1>2. tbl.strm[s].st # "CLOSING"
  BY <1>1 DEF SInv, ResetInv
<1> QED BY <1>1, <1>2 DEF AnswersInv

\* Where no upgrade fails and no data provider does, the answer to every request is sent to its
\* end or still has a DATA item when nghttp2_session_send has returned, for any bodies and
\* windows, unless the session ends or the peer resets the stream
\* (nghttp2_session.c:1955-2048, 2109, 2612-2634).
THEOREM NoAnswerIsLost ==
  ASSUME "READ_FAILURE" \notin Inputs, "BAD_UPGRADE" \notin Inputs
  PROVE  Spec => []NoAnswerLost
<1>1. Init => AnswersInv
  BY InitAnswers
<1>2. IInv /\ IInv' /\ SInv /\ WireInv /\ KeptInv /\ AnswersInv /\ [Next]_vars => AnswersInv'
  <2> SUFFICES ASSUME IInv, IInv', SInv, WireInv, KeptInv, AnswersInv, [Next]_vars
               PROVE  AnswersInv'
    OBVIOUS
  <2>1. [Faultless]_vars
    BY DEF Next, Send, UpgradeRejected, ReadFails, Faultless
  <2> QED BY <2>1, FaultlessKnown, NextAnswers
<1>3. IInv /\ SInv /\ KeptInv /\ AnswersInv => NoAnswerLost
  BY AnswersImply DEF IInv, ControlInv
<1> QED BY <1>1, <1>2, <1>3, Invariance, LifeInvariance, WireInvariance, KeptInvariance,
           PTL DEF Spec
=============================================================================
