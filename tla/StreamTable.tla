----------------------------- MODULE StreamTable -----------------------------
(***************************************************************************)
(* The stream table of one nghttp2 server session: the streams map and the *)
(* two intrusive lists threaded through it, the closed streams that the    *)
(* server retains for the sake of the dependency tree and the idle streams *)
(* that PRIORITY information creates.  Only the server role is modelled,   *)
(* because Sources/KituraHTTP2 creates server sessions alone; so no stream *)
(* is ever reserved and no stream is initiated locally.                    *)
(*                                                                         *)
(* The operators are the functions of nghttp2_session.c that change the    *)
(* table.  Each takes a table and returns the table the function leaves.   *)
(* The counters num_closed_streams and num_idle_streams move with their    *)
(* lists in every function, and are the lengths of closedQ and idleQ here; *)
(* num_incoming_streams is kept, because it has no list of its own.        *)
(***************************************************************************)
EXTENDS Integers, FiniteSets, SequencesExt

CONSTANTS
  StreamIds,      \* the stream identifiers that occur in frames
  DefaultMax,     \* NGHTTP2_DEFAULT_MAX_CONCURRENT_STREAMS, i.e. no limit
  IdleFloor,      \* 16 and ...
  IdleCeil,       \* ... 100, between which the idle list may grow
  MaxWindow       \* NGHTTP2_MAX_WINDOW_SIZE

ASSUME StreamIdsAssumption == IsFiniteSet(StreamIds) /\ StreamIds \subseteq Nat \ {0}
ASSUME DefaultMaxAssumption == DefaultMax \in Nat \ {0}
ASSUME IdleAssumption == IdleFloor \in Nat /\ IdleCeil \in Nat /\ IdleFloor <= IdleCeil
ASSUME MaxWindowAssumption == MaxWindow \in Nat \ {0}

States == {"ABSENT", "IDLE", "OPENING", "OPENED", "CLOSING"}

\* What the int32_t of a window holds, which the peer may make negative
Windows == (-MaxWindow - 1) .. MaxWindow

\* One nghttp2_stream.  `st' is "ABSENT" when the map has no entry; `closed' is
\* NGHTTP2_STREAM_FLAG_CLOSED; `rd' and `wr' are the two shut_flags; `win' is
\* remote_window_size; `item' tells whether a DATA item is attached, and if so
\* whether it is queued in the dependency tree or deferred by flow control.
Stream == [st : States, closed : BOOLEAN, rd : BOOLEAN, wr : BOOLEAN,
           win : Windows, item : {"none", "active", "deferred"}]

Table == [strm : [StreamIds -> Stream], closedQ : Seq(StreamIds),
          idleQ : Seq(StreamIds), nIncoming : Int]

NewStream(st, w) == [st |-> st, closed |-> FALSE, rd |-> FALSE, wr |-> FALSE,
                     win |-> w, item |-> "none"]

NoStream == NewStream("ABSENT", 0)

EmptyTable == [strm |-> [s \in StreamIds |-> NoStream],
               closedQ |-> << >>, idleQ |-> << >>, nIncoming |-> 0]

-----------------------------------------------------------------------------
(* Looking a stream up. *)

IsMine(s) == s % 2 = 0

\* nghttp2_session_get_stream_raw finds the stream
Mapped(t, s) == t.strm[s].st # "ABSENT"

\* nghttp2_session_get_stream finds it: it is neither idle nor closed
Live(t, s) == t.strm[s].st \notin {"ABSENT", "IDLE"} /\ ~t.strm[s].closed

\* session_detect_idle_stream; the server has sent no stream of its own
DetectIdle(s, lastRecv) == IsMine(s) \/ lastRecv < s

IsNewPeerStream(s, lastRecv) == ~IsMine(s) /\ lastRecv < s

LiveSet(t) == {s \in StreamIds : Live(t, s)}
ClosedSet(t) == {s \in StreamIds : t.strm[s].closed}
IdleSet(t) == {s \in StreamIds : t.strm[s].st = "IDLE"}

\* session_get_num_active_streams: a subtraction, as in the code
NumActive(t) == Cardinality({s \in StreamIds : Mapped(t, s)})
                  - Len(t.closedQ) - Len(t.idleQ)

-----------------------------------------------------------------------------
(* Opening, closing and destroying streams. *)

\* nghttp2_session_open_stream with NGHTTP2_STREAM_IDLE, for an unmapped stream
CreateIdle(t, s, w) ==
  [t EXCEPT !.strm[s] = NewStream("IDLE", w), !.idleQ = Append(@, s)]

\* A stream whose priority names stream d: an unmapped d that no frame has
\* opened yet becomes an idle anchor in the tree (d = 0 is the root)
AnchorDependency(t, d, w, lastRecv) ==
  IF d # 0 /\ ~Mapped(t, d) /\ DetectIdle(d, lastRecv) THEN CreateIdle(t, d, w) ELSE t

\* Mutant: the stream stays in the idle list
DetachNothing(t, s) == t

\* nghttp2_session_detach_idle_stream
DetachIdle(t, s) ==
  [t EXCEPT !.idleQ = RemoveAt(@, CHOOSE i \in 1 .. Len(@) : @[i] = s)]

\* nghttp2_session_open_stream with NGHTTP2_STREAM_OPENING: an idle stream is
\* reused and keeps its windows, any other is allocated
OpenIncoming(t, s, w) ==
  LET base == IF t.strm[s].st = "IDLE" THEN DetachIdle(t, s) ELSE t
      new  == IF t.strm[s].st = "IDLE" THEN [t.strm[s] EXCEPT !.st = "OPENING"]
                                       ELSE NewStream("OPENING", w)
  IN  [base EXCEPT !.strm[s] = new, !.nIncoming = @ + 1]

\* nghttp2_session_close_stream: the DATA item is detached and the stream is
\* retained at the tail of the closed list
CloseStream(t, s) ==
  IF Live(t, s)
  THEN [t EXCEPT !.strm[s].closed = TRUE, !.strm[s].item = "none",
                 !.nIncoming = @ - 1, !.closedQ = Append(@, s)]
  ELSE t

ShutRd(t, s) == [t EXCEPT !.strm[s].rd = TRUE]
ShutWr(t, s) == [t EXCEPT !.strm[s].wr = TRUE]

CloseIfShut(t, s) ==
  IF t.strm[s].rd /\ t.strm[s].wr THEN CloseStream(t, s) ELSE t

\* The stream half of nghttp2_session_add_rst_stream
MarkClosing(t, s) == IF Live(t, s) THEN [t EXCEPT !.strm[s].st = "CLOSING"] ELSE t

\* nghttp2_session_destroy_stream of the k oldest streams of a list q
DestroyOldest(strm, q, k) ==
  [s \in StreamIds |-> IF \E i \in 1 .. k : q[i] = s THEN NoStream ELSE strm[s]]

SmallerOf(a, b) == IF a <= b THEN a ELSE b
LargerOf(a, b) == IF a >= b THEN a ELSE b

\* Mutant: a limit that is announced but not yet acknowledged does not count
RetainMaxLocal(localMax, pendingMax) == localMax

\* The limit of nghttp2_session_adjust_closed_stream
RetainMax(localMax, pendingMax) == IF localMax = DefaultMax THEN pendingMax ELSE localMax

\* nghttp2_session_adjust_closed_stream: while closed and incoming streams
\* together exceed the limit, destroy the oldest closed stream
AdjustClosed(t, max) ==
  LET k == SmallerOf(Len(t.closedQ), LargerOf(0, Len(t.closedQ) + t.nIncoming - max))
  IN  [t EXCEPT !.strm = DestroyOldest(@, t.closedQ, k),
                !.closedQ = SubSeq(@, k + 1, Len(@))]

IdleMax(localMax, pendingMax) ==
  SmallerOf(IdleCeil, LargerOf(IdleFloor, SmallerOf(localMax, pendingMax)))

\* nghttp2_session_adjust_idle_stream: destroy the oldest idle streams above max
AdjustIdle(t, max) ==
  LET k == LargerOf(0, Len(t.idleQ) - max)
  IN  [t EXCEPT !.strm = DestroyOldest(@, t.idleQ, k),
                !.idleQ = SubSeq(@, k + 1, Len(@))]

\* The orders in which nghttp2_map_each may visit the streams of R
Orders(R) == {q \in [1 .. Cardinality(R) -> R] : IsInjective(q)}

\* session_close_stream_on_goaway closes the streams of the sequence q
CloseAll(t, q) ==
  [t EXCEPT !.strm = [s \in StreamIds |-> IF s \in ToSet(q) THEN CloseStream(t, s).strm[s]
                                                            ELSE t.strm[s]],
            !.nIncoming = @ - Len(q), !.closedQ = @ \o q]

-----------------------------------------------------------------------------
(* Flow-control windows and DATA items. *)

\* Mutant: one byte too many is accepted
OverflowsLate(t, s, new, old) ==
  t.strm[s].win + new - old \notin (-MaxWindow - 1) .. MaxWindow + 1

\* update_initial_window_size fails, and leaves the window alone
Overflows(t, s, new, old) == t.strm[s].win + new - old \notin Windows

\* A deferred item whose window is positive again goes back to the tree
ResumeIfOpen(r) == IF r.win > 0 /\ r.item = "deferred" THEN [r EXCEPT !.item = "active"] ELSE r

\* update_remote_initial_window_size_func over every mapped stream, closed and
\* idle ones included; a stream whose window would overflow is reset
UpdateInitialWindow(t, new, old) ==
  [t EXCEPT !.strm =
     [s \in StreamIds |->
        IF ~Mapped(t, s) THEN t.strm[s]
        ELSE IF Overflows(t, s, new, old) THEN MarkClosing(t, s).strm[s]
        ELSE ResumeIfOpen([t.strm[s] EXCEPT !.win = @ + new - old])]]

\* Mutant: only streams that wait to send are reset
WaitingOverflows(t, new, old) ==
  {s \in StreamIds : Mapped(t, s) /\ t.strm[s].item # "none" /\ Overflows(t, s, new, old)}

WindowOverflows(t, new, old) ==
  {s \in StreamIds : Mapped(t, s) /\ Overflows(t, s, new, old)}

\* Mutant: the deferred item is not woken
GrowWindowAsleep(t, s, n) == [t EXCEPT !.strm[s].win = @ + n]

GrowWindow(t, s, n) ==
  [t EXCEPT !.strm[s] = ResumeIfOpen([t.strm[s] EXCEPT !.win = @ + n])]

SetItem(t, s, i) == [t EXCEPT !.strm[s].item = i]

-----------------------------------------------------------------------------
(* Consistency of the table. *)

\* q holds each element of S exactly once: the list is not threaded through a
\* stream twice, nor through one that is gone
Lists(q, S) == ToSet(q) = S /\ IsInjective(q)

\* The three structures agree: the closed and the idle list hold exactly the
\* closed and the idle streams, and the counter is the number of live streams.
\* Destroying a stream that a list still holds, or holding it twice, is a use
\* after free in the C code; a counter that drifts refuses or admits streams
\* wrongly for the rest of the connection.
TableConsistent(t) ==
  /\ Lists(t.closedQ, ClosedSet(t))
  /\ Lists(t.idleQ, IdleSet(t))
  /\ \A s \in StreamIds : t.strm[s].closed => t.strm[s].st \notin {"ABSENT", "IDLE"}
  /\ t.nIncoming = Cardinality(LiveSet(t))
=============================================================================
