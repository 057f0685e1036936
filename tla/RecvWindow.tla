------------------------------ MODULE RecvWindow ------------------------------
(***************************************************************************)
(* The windows a server grants to its peer.  DATA fills the window of the   *)
(* connection and that of its stream; the library hands the bytes back in   *)
(* WINDOW_UPDATE frames, by itself (use.auto, what KituraHTTP2              *)
(* uses) or as the application consumes them, and the application may also  *)
(* resize a window.  The peer, its own count of the windows and the frames  *)
(* on the wire in both directions are part of the model, because what the   *)
(* counts are for is that the two sides never disagree.                     *)
(*                                                                         *)
(* A DATA frame is read in pieces, as mem_recv gets them.  Identifier 0     *)
(* stands for the connection, as in the frames.                             *)
(***************************************************************************)
EXTENDS Integers, Sequences, SequencesExt

CONSTANTS
  StreamIds,         \* the streams the peer may open
  MaxWindow,         \* NGHTTP2_MAX_WINDOW_SIZE
  ConnectionWindow,  \* NGHTTP2_INITIAL_CONNECTION_WINDOW_SIZE
  InitialWindow,     \* the initial window of streams
  Uses               \* how a session and its peer are used: the options below

\* auto: FALSE is NGHTTP2_OPTMASK_NO_AUTO_WINDOW_UPDATE.  honest: the peer keeps within its
\* windows.  payloads, pads: lengths of DATA payloads, padding included, and values of Pad
\* Length; a frame may also have no padding.  increments, sizes, initials: arguments of
\* nghttp2_submit_window_update and nghttp2_session_set_local_window_size, and the values of
\* SETTINGS_INITIAL_WINDOW_SIZE the server announces.  Bounds: streams, the identifiers used;
\* frames, the DATA frames of the peer; calls, those of the application that change windows.
ASSUME SizesAssumption ==
  /\ MaxWindow \in Nat /\ InitialWindow \in 0..MaxWindow /\ ConnectionWindow \in 0..MaxWindow
  /\ StreamIds \subseteq Nat \ {0} /\ IsFiniteSet(StreamIds)
  /\ Uses \subseteq [auto : BOOLEAN, honest : BOOLEAN, payloads : SUBSET Nat, pads : SUBSET Nat,
                     increments : SUBSET (-MaxWindow - 1..MaxWindow), sizes : SUBSET (0..MaxWindow),
                     initials : SUBSET (0..MaxWindow),
                     streams : SUBSET StreamIds, frames : Nat, calls : Nat]

VARIABLES
  srv,       \* the session and its streams, as far as windows go
  iframe,    \* the DATA frame being read
  fromPeer,  \* frames on their way to the server
  toPeer,    \* frames on their way to the peer
  peer,      \* what the peer knows: its credit per identifier, the settings it has applied
  held,      \* bytes the application was given and has yet to consume (not use.auto)
  frames, calls,  \* for the bounds
  use        \* one of Uses, for good

vars == <<srv, iframe, fromPeer, toPeer, peer, held, frames, calls, use>>

Ids == StreamIds \cup {0}
NoFrame == [state |-> "READ_HEAD"]
NoPad == -1
Window(size) == [local |-> size, recv |-> 0, consumed |-> 0, reduction |-> 0, queued |-> FALSE]
Least(a, b) == IF a <= b THEN a ELSE b
Greatest(a, b) == IF a >= b THEN a ELSE b

Init ==
  /\ srv = [win      |-> [id \in Ids |-> Window(IF id = 0 THEN ConnectionWindow ELSE InitialWindow)],
            stream   |-> [s \in StreamIds |-> "idle"],
            shutRd   |-> {},
            urgent   |-> <<>>,
            ob       |-> <<>>,
            goaway   |-> "none",
            initial  |-> InitialWindow,
            inflight |-> <<>>,
            overrun  |-> {}]
  /\ iframe = NoFrame
  /\ fromPeer = <<>> /\ toPeer = <<>>
  /\ peer = [credit |-> [id \in Ids |-> IF id = 0 THEN ConnectionWindow ELSE 0],
             initial |-> InitialWindow, opened |-> {}, ended |-> {}]
  /\ held = [s \in StreamIds |-> 0]
  /\ frames = 0 /\ calls = 0
  /\ use \in Uses

-----------------------------------------------------------------------------
(* The helpers of the library.  A handler makes several of these calls in   *)
(* turn, so each maps the server's state to its next.                       *)

Live(s, id) == id \in StreamIds /\ s.stream[id] \in {"opened", "closing"}
IsClosing(s) == s.goaway # "none"

Terminate(s) ==
  IF s.goaway # "none" THEN s
  ELSE [s EXCEPT !.goaway = "queued", !.ob = Append(@, [type |-> "GOAWAY", id |-> 0, inc |-> 0])]

AddRst(s, id) ==
  IF s.stream[id] = "closing" THEN s
  ELSE [s EXCEPT !.stream[id] = IF Live(s, id) THEN "closing" ELSE @,
                 !.ob = Append(@, [type |-> "RST_STREAM", id |-> id, inc |-> 0])]

AddWindowUpdate(s, id, n) ==
  [s EXCEPT !.win[id].queued = @ \/ id = 0 \/ Live(s, id),
            !.ob = Append(@, [type |-> "WINDOW_UPDATE", id |-> id, inc |-> n])]

\* Mutant: an update of nothing
ShouldSendAlways(local, recv) == recv >= local \div 2

ShouldSendWindowUpdate(local, recv) == recv > 0 /\ recv >= local \div 2

\* Mutant: the bytes handed back still count as received
ReplenishAgain(s, id) ==
  IF /\ use.auto /\ ~s.win[id].queued
     /\ ShouldSendWindowUpdate(s.win[id].local, s.win[id].recv)
  THEN AddWindowUpdate(s, id, s.win[id].recv)
  ELSE s

\* Hands everything received back to the peer, once it is half the window
Replenish(s, id) ==
  IF /\ use.auto /\ ~s.win[id].queued
     /\ ShouldSendWindowUpdate(s.win[id].local, s.win[id].recv)
  THEN [AddWindowUpdate(s, id, s.win[id].recv) EXCEPT !.win[id].recv = 0]
  ELSE s

\* Mutant: the last byte of the window is refused
OverrunsEarly(w, n) == w.recv >= w.local - n \/ w.recv > MaxWindow - n

Overruns(w, n) == w.recv > w.local - n \/ w.recv > MaxWindow - n

RecvOnConnection(s, n) ==
  IF Overruns(s.win[0], n)
  THEN [Terminate(s) EXCEPT !.overrun = @ \cup {0}]
  ELSE Replenish([s EXCEPT !.win[0].recv = @ + n], 0)

RecvOnStream(s, id, n, mayUpdate) ==
  IF Overruns(s.win[id], n)
  THEN [AddRst(s, id) EXCEPT !.overrun = @ \cup {id}]
  ELSE LET t == [s EXCEPT !.win[id].recv = @ + n]
       IN IF mayUpdate THEN Replenish(t, id) ELSE t

UpdateConsumed(s, id, n) ==
  LET w == s.win[id]
      size == Least(w.consumed + n, w.recv)
  IN IF w.consumed > MaxWindow - n THEN Terminate(s)
     ELSE IF ~w.queued /\ ShouldSendWindowUpdate(w.local, size)
     THEN [AddWindowUpdate(s, id, size) EXCEPT !.win[id].recv = @ - size,
                                               !.win[id].consumed = @ + n - size]
     ELSE [s EXCEPT !.win[id].consumed = @ + n]

\* Mutant: the connection is only told while the stream lives
ConsumeIfLive(s, id, n) ==
  IF use.auto \/ ~Live(s, id) THEN s ELSE UpdateConsumed(UpdateConsumed(s, 0, n), id, n)

\* NGHTTP2_ERR_INVALID_STATE, without effect, when updates are automatic
Consume(s, id, n) ==
  IF use.auto THEN s
  ELSE LET t == UpdateConsumed(s, 0, n)
       IN IF Live(t, id) THEN UpdateConsumed(t, id, n) ELSE t

ConsumeConnection(s, n) == IF use.auto THEN s ELSE UpdateConsumed(s, 0, n)

-----------------------------------------------------------------------------
(* Reading *)

WantRead(s) == s.goaway # "sent"

\* A new stream has the window the server's settings now give
OpenStream(s, id) ==
  [s EXCEPT !.stream[id] = "opened", !.win[id] = Window(s.initial)]

CloseStream(s, id) == [s EXCEPT !.stream[id] = "closed"]

\* The acknowledgement of SETTINGS: the windows of all streams move by the
\* difference, and what they have received may now be enough for an update.  The map of
\* streams is worked through in an order of its own.
UpdateLocalInitial(s, new) ==
  LET Moved(id, t) ==
        IF t.win[id].local + new - t.initial > MaxWindow
        THEN AddRst(t, id)
        ELSE Replenish([t EXCEPT !.win[id].local = @ + new - t.initial], id)
  IN [FoldSet(Moved, s, {id \in StreamIds : s.stream[id] # "idle"}) EXCEPT !.initial = new, !.inflight = Tail(@)]

\* DATA for a stream the server no longer reads is counted and thrown away
DataHead(f) ==
  [id |-> f.id, left |-> f.len, end |-> f.end, pad |-> 0, padLength |-> f.pad,
   state |-> IF srv.stream[f.id] # "opened" THEN "IGN_DATA"
             ELSE IF f.pad # NoPad THEN "READ_PAD_DATA" ELSE "READ_DATA"]

RecvHead ==
  /\ WantRead(srv) /\ iframe = NoFrame /\ fromPeer # <<>>
  /\ LET f == Head(fromPeer)
     IN CASE f.type = "HEADERS" -> /\ srv' = IF IsClosing(srv) THEN srv ELSE OpenStream(srv, f.id)
                                   /\ UNCHANGED iframe
          [] f.type = "SETTINGS_ACK" -> /\ srv' = UpdateLocalInitial(srv, Head(srv.inflight))
                                        /\ UNCHANGED iframe
          [] f.type = "DATA" -> iframe' = DataHead(f) /\ UNCHANGED srv
  /\ fromPeer' = Tail(fromPeer)
  /\ UNCHANGED <<use, toPeer, peer, held, frames, calls>>

\* The last bytes of a message need no update for their stream
MoreToCome(left) == left > 0 \/ ~iframe.end

RecvPadLength ==
  /\ WantRead(srv) /\ iframe # NoFrame /\ iframe.state = "READ_PAD_DATA"
  /\ LET id == iframe.id
         left == iframe.left - 1
         counted == Consume(RecvOnConnection(srv, 1), id, 1)
         s == IF Live(counted, id) THEN RecvOnStream(counted, id, 1, MoreToCome(left)) ELSE counted
         bad == iframe.padLength > left
     IN /\ srv' = IF bad THEN Terminate(s) ELSE s
        /\ iframe' = [iframe EXCEPT !.left = left, !.pad = iframe.padLength,
                                    !.state = IF bad THEN "IGN_DATA" ELSE "READ_DATA"]
  /\ UNCHANGED <<use, fromPeer, toPeer, peer, held, frames, calls>>

\* The bytes of a piece that are not padding
EffectiveReadLen(n, left) ==
  IF iframe.pad <= left THEN n ELSE Greatest(0, n - (iframe.pad - left))

\* Mutant: the end of a message counts on a stream being reset
EndDataAlways(s) == IF iframe.end THEN [s EXCEPT !.shutRd = @ \cup {iframe.id}] ELSE s

EndData(s) ==
  IF iframe.end /\ s.stream[iframe.id] = "opened"
  THEN [s EXCEPT !.shutRd = @ \cup {iframe.id}] ELSE s

RecvData(n) ==
  /\ WantRead(srv) /\ iframe # NoFrame /\ iframe.state = "READ_DATA"
  /\ n = iframe.left \/ n \in 1..iframe.left
  /\ IF ~Live(srv, iframe.id)
     THEN iframe' = [iframe EXCEPT !.state = "IGN_DATA"] /\ UNCHANGED <<use, srv, held>>
     ELSE LET id == iframe.id
              left == iframe.left - n
              s == RecvOnStream(RecvOnConnection(srv, n), id, n, MoreToCome(left))
              data == EffectiveReadLen(n, left)
              t == IF n = 0 THEN srv ELSE IF data < n THEN Consume(s, id, n - data) ELSE s
          IN \/ /\ srv' = IF left = 0 THEN EndData(t) ELSE t
                /\ held' = IF use.auto THEN held ELSE [held EXCEPT ![id] = @ + data]
                /\ iframe' = IF left = 0 THEN NoFrame ELSE [iframe EXCEPT !.left = left]
             \/ \* nghttp2_http_on_data_chunk: more than content-length announced
                /\ data > 0 /\ ~use.honest
                /\ srv' = AddRst(ConsumeConnection(t, data), id)
                /\ iframe' = [iframe EXCEPT !.left = left, !.state = "IGN_DATA"]
                /\ UNCHANGED held
  /\ UNCHANGED <<use, fromPeer, toPeer, peer, frames, calls>>

IgnoreData(n) ==
  /\ WantRead(srv) /\ iframe # NoFrame /\ iframe.state = "IGN_DATA"
  /\ n = iframe.left \/ n \in 1..iframe.left
  /\ srv' = IF n = 0 THEN srv ELSE ConsumeConnection(RecvOnConnection(srv, n), n)
  /\ iframe' = IF n = iframe.left THEN NoFrame ELSE [iframe EXCEPT !.left = @ - n]
  /\ UNCHANGED <<use, fromPeer, toPeer, peer, held, frames, calls>>

-----------------------------------------------------------------------------
(* Sending *)

WindowUpdateAllowed(s, id) == ~IsClosing(s) /\ (id = 0 \/ s.stream[id] = "opened")

\* Mutants: what arrived while the update waited is forgotten; the mark stays
AfterWindowUpdateIdle(s, id) == [s EXCEPT !.win[id].queued = FALSE]
AfterWindowUpdateMarked(s, id) == s

\* The update is out: another may be due already
AfterWindowUpdate(s, id) ==
  LET t == [s EXCEPT !.win[id].queued = FALSE]
  IN IF id \in s.shutRd THEN t
     ELSE IF use.auto THEN Replenish(t, id) ELSE UpdateConsumed(t, id, 0)

Send ==
  /\ srv.ob # <<>> \/ srv.urgent # <<>>
  /\ WantRead(srv)
  /\ LET item == Head(srv.urgent \o srv.ob)
         s == IF srv.urgent # <<>> THEN [srv EXCEPT !.urgent = Tail(@)] ELSE [srv EXCEPT !.ob = Tail(@)]
     IN \/ /\ item.type = "WINDOW_UPDATE"
           /\ IF WindowUpdateAllowed(s, item.id)
              THEN srv' = AfterWindowUpdate(s, item.id) /\ toPeer' = Append(toPeer, item)
              ELSE srv' = s /\ UNCHANGED toPeer
        \/ /\ item.type = "RST_STREAM"
           /\ IF IsClosing(s) THEN srv' = s /\ UNCHANGED toPeer
              ELSE srv' = CloseStream(s, item.id) /\ toPeer' = Append(toPeer, item)
        \/ /\ item.type = "GOAWAY"
           /\ srv' = [s EXCEPT !.goaway = "sent"] /\ toPeer' = Append(toPeer, item)
        \/ /\ item.type = "SETTINGS"
           /\ srv' = s /\ toPeer' = Append(toPeer, item)
  /\ UNCHANGED <<use, iframe, fromPeer, peer, held, frames, calls>>

-----------------------------------------------------------------------------
(* The application *)

\* A handler answers, or the stream is reset from this side
FinishStream(id) ==
  /\ ~IsClosing(srv) /\ srv.stream[id] = "opened"
  /\ \/ id \in srv.shutRd /\ srv' = CloseStream(srv, id)
     \/ calls < use.calls /\ id \notin srv.shutRd /\ srv' = AddRst(srv, id)
  /\ calls' = IF id \in srv.shutRd THEN calls ELSE calls + 1
  /\ UNCHANGED <<use, iframe, fromPeer, toPeer, peer, held, frames>>

\* nghttp2_session_consume, called with bytes that were delivered
ConsumeHeld(id, n) ==
  /\ ~use.auto /\ n \in 1..held[id]
  /\ srv' = Consume(srv, id, n)
  /\ held' = [held EXCEPT ![id] = @ - n]
  /\ UNCHANGED <<use, iframe, fromPeer, toPeer, peer, frames, calls>>

\* Mutants: the peer is told of bytes it could send all along
Restored(w, grow) ==
  [w EXCEPT !.local = @ + grow, !.reduction = 0,
            !.recv = IF @ < 0 THEN @ + Least(w.reduction, grow) ELSE Least(w.reduction, grow)]
AdjustUnpaid(w, d) ==
  LET grow == d - Greatest(0, w.recv)
  IN IF d < 0 THEN [win |-> [w EXCEPT !.local = @ + d, !.recv = @ + d, !.reduction = @ - d], inc |-> 0]
     ELSE IF grow <= 0 THEN [win |-> [w EXCEPT !.recv = -grow], inc |-> d]
     ELSE [win |-> Restored(w, grow), inc |-> d]

\* nghttp2_adjust_local_window_size: the window and the increment left to announce.
\* The window shrinks without notice, by counting bytes that were never received
\* as given back, so growing again must first pay that debt.
AdjustFails(w, d) ==
  IF d > 0 THEN d > Greatest(0, w.recv) /\ w.local > MaxWindow - (d - Greatest(0, w.recv))
  ELSE w.local + d < 0 \/ w.recv < -MaxWindow - 1 - d \/ w.reduction > MaxWindow + d
Adjust(w, d) ==
  LET grow == d - Greatest(0, w.recv)
      paid == Least(w.reduction, grow)
  IN CASE d < 0 -> [win |-> [w EXCEPT !.local = @ + d, !.recv = @ + d, !.reduction = @ - d], inc |-> 0]
       [] d > 0 /\ grow <= 0 -> [win |-> [w EXCEPT !.recv = -grow], inc |-> d]
       [] OTHER -> [win |-> [w EXCEPT !.local = @ + grow, !.reduction = @ - paid,
                                      !.recv = IF @ < 0 THEN @ + paid ELSE paid],
                    inc |-> d - paid]

SubmitWindowUpdate(id, d) ==
  /\ calls < use.calls /\ calls' = calls + 1
  /\ d # 0 /\ (id = 0 \/ Live(srv, id)) /\ ~AdjustFails(srv.win[id], d)
  /\ LET a == Adjust(srv.win[id], d)
         s == [srv EXCEPT !.win[id] = a.win]
     IN srv' = IF a.inc > 0
               THEN AddWindowUpdate([s EXCEPT !.win[id].consumed = Greatest(0, @ - a.inc)], id, a.inc)
               ELSE s
  /\ UNCHANGED <<use, iframe, fromPeer, toPeer, peer, held, frames>>

\* nghttp2_increase_local_window_size
Increase(w, d) ==
  LET paid == Least(w.reduction, d)
  IN [win |-> [w EXCEPT !.local = @ + d, !.reduction = @ - paid, !.recv = @ + paid], inc |-> d - paid]

SetLocalWindowSize(id, size) ==
  /\ calls < use.calls /\ calls' = calls + 1
  /\ id = 0 \/ Live(srv, id)
  /\ LET w == srv.win[id]
         d == size - w.local
         a == IF d < 0 THEN Adjust(w, d) ELSE Increase(w, d)
         s == [srv EXCEPT !.win[id] = a.win]
     IN /\ d # 0 /\ (d < 0 => ~AdjustFails(w, d)) /\ size <= MaxWindow
        /\ srv' = IF a.inc > 0 THEN AddWindowUpdate(s, id, a.inc) ELSE s
  /\ UNCHANGED <<use, iframe, fromPeer, toPeer, peer, held, frames>>

\* nghttp2_submit_settings with a new initial window; it applies when acknowledged
SubmitSettings(v) ==
  /\ calls < use.calls /\ calls' = calls + 1 /\ ~IsClosing(srv)
  /\ srv' = [srv EXCEPT !.inflight = Append(@, v),
                        !.urgent = Append(@, [type |-> "SETTINGS", id |-> 0, inc |-> v])]
  /\ UNCHANGED <<use, iframe, fromPeer, toPeer, peer, held, frames>>

-----------------------------------------------------------------------------
(* The peer *)

PeerOpen(id) ==
  /\ id \in use.streams \ peer.opened /\ frames < use.frames
  /\ \A other \in use.streams : other < id => other \in peer.opened
  /\ fromPeer' = Append(fromPeer, [type |-> "HEADERS", id |-> id])
  /\ peer' = [peer EXCEPT !.opened = @ \cup {id}, !.credit[id] = peer.initial]
  /\ UNCHANGED <<use, srv, iframe, toPeer, held, frames, calls>>

PeerData(id, len, pad, end) ==
  /\ id \in peer.opened \ peer.ended /\ frames < use.frames
  /\ pad = NoPad \/ len > 0
  /\ use.honest => /\ pad < len
                   /\ len <= peer.credit[id] /\ len <= peer.credit[0]
  /\ fromPeer' = Append(fromPeer, [type |-> "DATA", id |-> id, len |-> len, pad |-> pad, end |-> end])
  /\ peer' = [peer EXCEPT !.credit[id] = @ - len, !.credit[0] = @ - len,
                          !.ended = IF end THEN @ \cup {id} ELSE @]
  /\ frames' = frames + 1
  /\ UNCHANGED <<use, srv, iframe, toPeer, held, calls>>

PeerRead ==
  /\ toPeer # <<>>
  /\ LET f == Head(toPeer)
     IN \/ /\ f.type = "WINDOW_UPDATE"
           /\ peer' = [peer EXCEPT !.credit[f.id] = @ + f.inc]
           /\ UNCHANGED fromPeer
        \/ /\ f.type = "SETTINGS"
           /\ peer' = [peer EXCEPT !.initial = f.inc,
                                   !.credit = [id \in Ids |-> IF id \in peer.opened
                                                              THEN @[id] + f.inc - peer.initial ELSE @[id]]]
           /\ fromPeer' = Append(fromPeer, [type |-> "SETTINGS_ACK"])
        \/ /\ f.type = "RST_STREAM"
           /\ peer' = [peer EXCEPT !.ended = @ \cup {f.id}] /\ UNCHANGED fromPeer
        \/ /\ f.type = "GOAWAY"
           /\ peer' = [peer EXCEPT !.ended = StreamIds] /\ UNCHANGED fromPeer
  /\ toPeer' = Tail(toPeer)
  /\ UNCHANGED <<use, srv, iframe, held, frames, calls>>

-----------------------------------------------------------------------------
Reading == RecvHead \/ RecvPadLength \/ (iframe # NoFrame /\ \E n \in 0..iframe.left : RecvData(n) \/ IgnoreData(n))

Application ==
  \/ \E id \in StreamIds : FinishStream(id) \/ \E n \in 1..held[id] : ConsumeHeld(id, n)
  \/ \E id \in Ids : \/ \E d \in use.increments : SubmitWindowUpdate(id, d)
                     \/ \E size \in use.sizes : SetLocalWindowSize(id, size)
  \/ \E v \in use.initials : SubmitSettings(v)

PeerSends ==
  \E id \in StreamIds : \/ PeerOpen(id)
                        \/ \E len \in use.payloads, pad \in use.pads \cup {NoPad}, end \in BOOLEAN :
                             PeerData(id, len, pad, end)

Next == Reading \/ Send \/ Application \/ PeerSends \/ PeerRead

Spec == Init /\ [][Next]_vars

-----------------------------------------------------------------------------
(* What the two sides know of each other.                                  *)

Fits(f, type, id) == f.type = type /\ f.id = id
Bytes(wire, id) ==
  SumFunction([i \in DOMAIN wire |-> IF wire[i].type = "DATA" /\ id \in {0, wire[i].id} THEN wire[i].len ELSE 0])
Updates(wire, id) ==
  SumFunction([i \in DOMAIN wire |-> IF Fits(wire[i], "WINDOW_UPDATE", id) THEN wire[i].inc ELSE 0])

\* DATA the server has not read and WINDOW_UPDATE the peer has not read
InFlight(id) ==
  Bytes(fromPeer, id) + (IF iframe # NoFrame /\ id \in {0, iframe.id} THEN iframe.left ELSE 0)
Announced(id) == Updates(srv.ob, id) + Updates(toPeer, id)

\* An acknowledgement under way: streams have moved at the peer, not yet here
SettingsGap(id) == IF id = 0 THEN 0 ELSE peer.initial - srv.initial

Counted(id) == /\ ~IsClosing(srv) /\ id \notin srv.overrun
               /\ id # 0 => srv.stream[id] = "opened"

\* The application sizes windows itself, or announces new initial ones: with both, the counts
\* may leave the range of int32_t.
Apart == use.initials = {} \/ (use.increments = {} /\ use.sizes = {})

TypeOK ==
  /\ \A id \in Ids : LET w == srv.win[id] IN
       /\ w.local <= MaxWindow /\ (Apart => w.recv <= MaxWindow)
       /\ w.consumed \in 0..MaxWindow /\ w.reduction >= 0 /\ w.queued \in BOOLEAN
  /\ srv.stream \in [StreamIds -> {"idle", "opened", "closing", "closed"}]
  /\ srv.shutRd \subseteq StreamIds /\ srv.goaway \in {"none", "queued", "sent"}
  /\ \A i \in DOMAIN srv.ob : srv.ob[i].type = "WINDOW_UPDATE" =>
       srv.ob[i].inc > 0 /\ (Apart => srv.ob[i].inc <= MaxWindow)
  /\ held \in [StreamIds -> Nat]

\* The two sides agree on every window: what the server still accepts is what
\* the peer may still send, counting what is under way in both directions,
\* whatever pieces DATA is read in and however windows were resized.
CreditAgrees ==
  \A id \in Ids : Counted(id) =>
    srv.win[id].local - srv.win[id].recv + SettingsGap(id)
      = peer.credit[id] + InFlight(id) + Announced(id)

\* A peer that keeps within the windows it was told is never accused of
\* FLOW_CONTROL_ERROR, by a reset of the stream or the end of the connection.  (Windows sized
\* both ways may pass the greatest there is, and then the stream is refused.)
NoFalseAlarm == use.honest /\ Apart => srv.overrun = {}

\* Windows only grow: what is announced is never more than what the two sides can make up.
\* Outside this use a window can close for good.  A window shrunk by a negative
\* nghttp2_submit_window_update owes that many bytes: growing back pays them and announces
\* nothing (nghttp2_helper.c:161-187).  nghttp2_session_set_local_window_size announces no more
\* than the difference, never what came before.  And a smaller initial window is only held
\* against what has come if updates are automatic (nghttp2_session.c:4197).
Growing == use.sizes = {} /\ use.increments \subseteq Nat /\ (use.auto \/ use.initials = {})

\* When nothing is under way, a peer facing an open window may send: with automatic updates
\* always, and otherwise once all it sent was consumed.  (Then a window of one byte is out: a
\* Pad Length is consumed before it is counted as received, nghttp2_session.c:6274-6296, so the
\* byte of a frame without data is announced with the next one.)
NoStall ==
  \A id \in Ids :
    (/\ Growing /\ Counted(id) /\ id \notin peer.ended
     /\ srv.win[id].local > (IF use.auto THEN 0 ELSE 1)
     /\ InFlight(id) = 0 /\ Announced(id) = 0 /\ SettingsGap(id) = 0 /\ srv.inflight = <<>>
     /\ use.auto \/ \A s \in StreamIds : held[s] = 0)
    => peer.credit[id] > 0

HeldBytes == SumFunction(held)

\* Without automatic updates, what a window counts as received is exactly what
\* the application still holds and what it has consumed and is not yet
\* announced: padding and ignored DATA are not held against it, nothing is
\* announced twice, and the application never holds more than the window, unless a new
\* initial window has shrunk it.
HeldIsCounted ==
  ~use.auto /\ use.increments = {} /\ use.sizes = {} =>
    /\ ~IsClosing(srv) => srv.win[0].recv - srv.win[0].consumed = HeldBytes
    /\ \A s \in StreamIds : Counted(s) =>
         /\ srv.win[s].recv - srv.win[s].consumed = held[s]
         /\ use.initials = {} => held[s] <= srv.win[s].local

\* A peer that sends more than its window never completes a request by it, and
\* the server never counts more than the window as received, unless new initial
\* windows shrink it.
OverrunContained ==
  /\ srv.overrun \cap srv.shutRd = {}
  /\ use.initials = {} => \A id \in Ids : srv.win[id].recv <= srv.win[id].local

\* The library reads what arrived and sends what it has queued (KituraHTTP2
\* calls nghttp2_session_send after every nghttp2_session_mem_recv), the peer
\* reads too; nothing obliges the peer or the application to go on.
FairSpec == Spec /\ WF_vars(Reading) /\ WF_vars(Send) /\ WF_vars(PeerRead)

\* A peer that has used up a window is given more, unless it has said all, the stream or the
\* connection is ending, or a new initial window left it none.
WindowReopens ==
  \A id \in Ids :
    (/\ use.auto /\ use.honest /\ Growing
     /\ peer.credit[id] = 0 /\ (id # 0 => id \in peer.opened))
      ~> (\/ peer.credit[id] > 0 \/ IsClosing(srv)
          \/ id # 0 /\ (id \in peer.ended \/ srv.stream[id] \in {"closing", "closed"}
              \/ srv.win[id].local <= 0))

\* The ledgers of the two sides agree: on every window, and on what the application holds of it
\* (nghttp2_session.c:4929, 6260-6330, nghttp2_helper.c:155-251).
LedgersAgree == TypeOK /\ CreditAgrees /\ HeldIsCounted

\* Whom the server accuses of overrunning a window did so, and gets no further by it
\* (nghttp2_session.c:4915, 4923, 4952).
AccusedRightly == NoFalseAlarm /\ OverrunContained
=============================================================================
