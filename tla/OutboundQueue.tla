----------------------------- MODULE OutboundQueue -----------------------------
(***************************************************************************)
(* How the frames of an nghttp2 server session leave it: the two queues and *)
(* the DATA items of the streams, the frame that is being sent, which the   *)
(* send callback may take in pieces or not at all, and who owns each item   *)
(* meanwhile.  Peer and application act between two calls of                *)
(* nghttp2_session_send, and so perhaps in the middle of a frame.           *)
(*                                                                         *)
(* Requests arrive whole, windows count DATA frames, the connection's       *)
(* window never shuts, and which ready stream is next is left open: Session *)
(* has those.  Kitura's send callback takes all there is; here it need not. *)
(***************************************************************************)
EXTENDS Naturals, Sequences, FiniteSets, SequencesExt

CONSTANTS
  Streams,
  FrameOctets,    \* octets of every frame; a frame in two halves can be cut
  Takes,          \* how many octets the send callback may take, 0 when it would block
  MaxFlood,       \* NGHTTP2_MAX_OBQ_FLOOD_ITEM, 10000
  MaxBlock,       \* max_send_header_block_length, in chunks
  Blocks,         \* how many chunks a response's header block needs
  Bodies,         \* DATA frames of a response
  InitialWindow,  \* of a stream, in DATA frames
  MaxEvents       \* bound: what peer and application do

ASSUME OutboundAssumption ==
  /\ FrameOctets \in Nat \ {0} /\ Takes \subseteq Nat /\ MaxFlood \in Nat /\ MaxBlock \in Nat
  /\ Blocks \subseteq Nat \ {0} /\ Bodies \subseteq Nat \ {0} /\ InitialWindow \in Nat
  /\ MaxEvents \in Nat

VARIABLES
  urgent, reg,   \* ob_urgent and ob_reg
  aob,           \* the active item, the chunks packed for it, the one being sent and the octets sent of it
  strm,          \* the streams, each with its DATA item
  flood,         \* obq_flood_counter_
  goaway,        \* goaway_flags
  pc,            \* "idle", "sending" while in nghttp2_session_send, "deleted"
  events,
  heap,          \* history: how often each item was freed
  wire           \* history: the octets that were sent

outside == <<events>>
vars == <<urgent, reg, aob, strm, flood, goaway, pc, events, heap, wire>>

Item(type, s, n) == [type |-> type, s |-> s, n |-> n]
None == Item("none", 0, 0)
Data(s) == Item("DATA", s, 0)
Items ==
  {Item("SETTINGS", 0, 0), Item("GOAWAY", 0, 0)}
    \cup {Item(type, 0, n) : type \in {"SETTINGS_ACK", "PING_ACK"}, n \in 1..MaxEvents}
    \cup {Item("HEADERS", s, n) : s \in Streams, n \in Blocks}
    \cup {Item("RST_STREAM", s, n) : s \in Streams, n \in 1..MaxEvents}
    \cup {Data(s) : s \in Streams}

IsAck(i) == i.type \in {"SETTINGS_ACK", "PING_ACK"}

\* active_outbound_item_reset empties the chunks.
NoItem == [item |-> None, chunks |-> 0, cur |-> 1, pos |-> 0]

\* The session has submitted the SETTINGS that begin the connection and is about to send.
Init ==
  /\ urgent = <<Item("SETTINGS", 0, 0)>> /\ reg = <<>>
  /\ aob = [item |-> None, chunks |-> 0, cur |-> 1, pos |-> 0]
  /\ strm = [s \in Streams |-> [st |-> "IDLE", item |-> FALSE, deferred |-> FALSE, win |-> InitialWindow, left |-> 0]]
  /\ flood = 0 /\ goaway = {} /\ pc = "sending" /\ events = 0
  /\ heap = [i \in {Item("SETTINGS", 0, 0)} |-> 0] /\ wire = <<>>

-----------------------------------------------------------------------------
(* Memory.                                                                  *)

Alloc(h, i) == [j \in DOMAIN h \cup {i} |-> IF j = i THEN 0 ELSE h[j]]
New(type, s) == Item(type, s, 1 + Cardinality({i \in DOMAIN heap : i.type = type /\ i.s = s}))
Free(h, gone) == [j \in DOMAIN h |-> IF j \in gone THEN h[j] + 1 ELSE h[j]]

Live(s) == strm[s].st \in {"OPENING", "OPENED", "CLOSING"}

\* nghttp2_session_close_stream: the DATA item goes with its stream, unless it is being sent.
ItemGone(s) == IF strm[s].item /\ aob.item # Data(s) THEN {Data(s)} ELSE {}

Closed(s) == [strm EXCEPT ![s].st = "CLOSED", ![s].item = FALSE, ![s].deferred = FALSE]

-----------------------------------------------------------------------------
(* Whether anything is to be read or written.                               *)

\* The tree's queue: DATA items that are not deferred.
Ready(s) == Live(s) /\ strm[s].item /\ ~strm[s].deferred

WantRead == "TERM_SENT" \notin goaway /\ ((\E s \in Streams : Live(s)) \/ goaway \cap {"SENT", "RECV"} = {})

WantWrite(uq, rq, item) ==
  /\ "TERM_SENT" \notin goaway
  /\ item # None \/ uq # <<>> \/ rq # <<>> \/ \E s \in Streams : Ready(s)

IsClosing(uq, rq, item) == "TERM_ON_SEND" \in goaway \/ (~WantRead /\ ~WantWrite(uq, rq, item))

-----------------------------------------------------------------------------
(* nghttp2_session_add_item and its callers, between two calls of send.     *)

Event == pc = "idle" /\ events < MaxEvents /\ events' = events + 1
Receives == Event /\ WantRead
Calm == UNCHANGED <<aob, pc, wire>>

IsUrgent(i) == i.type \in {"SETTINGS", "SETTINGS_ACK", "PING_ACK"}

AddItem(i) ==
  /\ heap' = Alloc(heap, i)
  /\ IF IsUrgent(i) THEN urgent' = Append(urgent, i) /\ UNCHANGED reg
                    ELSE reg' = Append(reg, i) /\ UNCHANGED urgent

AckRefused == flood >= MaxFlood

\* A PING or SETTINGS to acknowledge.  Too many of them make nghttp2_session_mem_recv fail.
OnAcknowledged(type) ==
  /\ Receives
  /\ IF IsClosing(urgent, reg, aob.item) \/ AckRefused
     THEN UNCHANGED <<urgent, reg, flood, heap>>
     ELSE /\ AddItem(New(type, 0))
          /\ flood' = flood + 1
  /\ UNCHANGED <<strm, goaway>> /\ Calm

\* A request opens a stream, unless a GOAWAY is on its way.
OnRequest(s) ==
  /\ Receives /\ strm[s].st = "IDLE" /\ goaway \cap {"TERM_ON_SEND", "SENT"} = {}
  /\ strm' = [strm EXCEPT ![s].st = "OPENING"]
  /\ UNCHANGED <<urgent, reg, flood, goaway, heap>> /\ Calm

\* The peer resets a stream.
OnRst(s) ==
  /\ Receives /\ Live(s)
  /\ strm' = Closed(s) /\ heap' = Free(heap, ItemGone(s))
  /\ UNCHANGED <<urgent, reg, flood, goaway>> /\ Calm

OnWindowUpdate(s) ==
  /\ Receives /\ Live(s)
  /\ strm' = [strm EXCEPT ![s].win = @ + 1, ![s].deferred = FALSE]
  /\ UNCHANGED <<urgent, reg, flood, goaway, heap>> /\ Calm

OnGoaway ==
  /\ Receives /\ goaway' = goaway \cup {"RECV"}
  /\ UNCHANGED <<urgent, reg, flood, strm, heap>> /\ Calm

\* nghttp2_session_add_rst_stream, upon a frame the stream should not have got
AddRstStream(s) ==
  /\ Receives /\ Live(s) /\ strm[s].st # "CLOSING"
  /\ AddItem(New("RST_STREAM", s))
  /\ strm' = [strm EXCEPT ![s].st = "CLOSING"]
  /\ UNCHANGED <<flood, goaway>> /\ Calm

\* session_terminate_session
Terminate ==
  /\ Receives /\ "TERM_ON_SEND" \notin goaway
  /\ AddItem(Item("GOAWAY", 0, 0)) /\ goaway' = goaway \cup {"TERM_ON_SEND"}
  /\ UNCHANGED <<flood, strm>> /\ Calm

\* nghttp2_submit_response, also when the stream is long gone
SubmitResponse(s, block, body) ==
  /\ Event /\ strm[s].st # "IDLE" /\ strm[s].left = 0
  /\ \A i \in DOMAIN heap : ~(i.type = "HEADERS" /\ i.s = s)
  /\ AddItem(Item("HEADERS", s, block))
  /\ strm' = [strm EXCEPT ![s].left = body]
  /\ UNCHANGED <<flood, goaway>> /\ Calm

\* nghttp2_session_del
Held ==
  LET attached == {s \in Streams : strm[s].item}
  IN Range(urgent) \cup Range(reg) \cup {aob.item} \cup {Data(s) : s \in attached}

SessionDel ==
  /\ pc = "idle" /\ pc' = "deleted"
  /\ heap' = Free(heap, Held)
  /\ urgent' = <<>> /\ reg' = <<>> /\ aob' = NoItem
  /\ strm' = [s \in Streams |-> [strm[s] EXCEPT !.st = "CLOSED", !.item = FALSE]]
  /\ UNCHANGED <<flood, goaway, outside, wire>>

-----------------------------------------------------------------------------
(* nghttp2_session_mem_send_internal: the next item, prepared.              *)

\* Nothing is being sent
Pops == pc = "sending" /\ aob.item = None /\ UNCHANGED <<outside, wire, goaway>>

\* The frame is packed into the chunks, of which there may be more from before.
Pack(i, n) == aob' = [item |-> i, chunks |-> IF aob.chunks > n THEN aob.chunks ELSE n, cur |-> 1, pos |-> 0]

\* Mutant: not freed
DropForgotten(i) == aob' = NoItem /\ UNCHANGED heap
Drop(i) == aob' = NoItem /\ heap' = Free(heap, {i})

\* Mutant: the counter is decreased for every frame
FloodAfterAny(i, sent) == flood - 1
\* Mutant: it is decreased only for what is sent
FloodAfterSent(i, sent) == IF IsAck(i) /\ sent THEN flood - 1 ELSE flood
FloodAfter(i, sent) == IF IsAck(i) THEN flood - 1 ELSE flood

SendUrgent ==
  /\ Pops /\ urgent # <<>>
  /\ LET i == Head(urgent)
         ok == i.type = "SETTINGS" \/ ~IsClosing(Tail(urgent), reg, None)
     IN /\ urgent' = Tail(urgent) /\ flood' = FloodAfter(i, ok)
        /\ IF ok THEN Pack(i, 1) /\ UNCHANGED heap ELSE Drop(i)
  /\ UNCHANGED <<reg, strm, pc>>

\* The tests of session_prep_frame on an item of ob_reg.
Sendable(i, rest) ==
  \/ i.type = "GOAWAY"
  \/ i.type = "RST_STREAM" /\ ~IsClosing(urgent, rest, None)
  \/ /\ i.type = "HEADERS" /\ i.n <= MaxBlock
     /\ strm[i.s].st = "OPENING" /\ ~IsClosing(urgent, rest, None)

SendReg ==
  /\ Pops /\ urgent = <<>> /\ reg # <<>>
  /\ LET i == Head(reg)
     IN /\ reg' = Tail(reg)
        /\ IF Sendable(i, Tail(reg))
           THEN Pack(i, IF i.type = "HEADERS" THEN i.n ELSE 1) /\ UNCHANGED heap
           ELSE Drop(i)
  /\ UNCHANGED <<urgent, strm, flood, pc>>

DataAllowed(s) == strm[s].st = "OPENED" /\ ~IsClosing(<<>>, <<>>, None)

\* A DATA frame is dropped with its item, deferred when the window is shut, or packed.
SendData(s) ==
  /\ Pops /\ urgent = <<>> /\ reg = <<>> /\ Ready(s)
  /\ \/ /\ ~DataAllowed(s)
        /\ strm' = [strm EXCEPT ![s].item = FALSE] /\ Drop(Data(s))
     \/ /\ DataAllowed(s) /\ strm[s].win = 0
        /\ strm' = [strm EXCEPT ![s].deferred = TRUE] /\ aob' = NoItem /\ UNCHANGED heap
     \/ /\ DataAllowed(s) /\ strm[s].win > 0
        /\ strm' = [strm EXCEPT ![s].left = @ - 1] /\ Pack(Data(s), 1) /\ UNCHANGED heap
  /\ UNCHANGED <<urgent, reg, flood, pc>>

SendDone ==
  /\ Pops /\ urgent = <<>> /\ reg = <<>> /\ \A s \in Streams : ~Ready(s)
  /\ pc' = "idle"
  /\ UNCHANGED <<urgent, reg, aob, strm, flood, heap>>

-----------------------------------------------------------------------------
(* nghttp2_session_send: the chunk goes to the callback.                    *)

\* What the chunk is on the wire.  A body ends with the frame that exhausts its provider.
FrameOf(i, cur, chunks, left) ==
  [type |-> IF cur > 1 THEN "CONTINUATION" ELSE i.type, s |-> i.s, n |-> IF IsAck(i) THEN i.n ELSE 0,
   end |-> CASE i.type = "HEADERS" -> cur = i.n
             [] i.type = "DATA" -> left = 0
             [] OTHER -> TRUE]

Sending == pc = "sending" /\ aob.item # None /\ UNCHANGED <<outside, urgent, reg, flood>>

\* The offset is set to the end of the chunk before the callback is called, and back to
\* what it took.
\* Mutant: not set back when it would block
PosAfterBlocked(n) == IF n = 0 THEN FrameOctets ELSE aob.pos + n
PosAfter(n) == aob.pos + n

Write(n) ==
  /\ Sending /\ n <= FrameOctets - aob.pos /\ aob.pos < FrameOctets
  /\ LET i == aob.item
         f == FrameOf(i, aob.cur, aob.chunks, IF i.type = "DATA" THEN strm[i.s].left ELSE 0)
     IN wire' = wire \o [k \in 1..n |-> [frame |-> f, k |-> aob.pos + k]]
  /\ aob' = [aob EXCEPT !.pos = PosAfter(n)]
  /\ pc' = IF n = 0 THEN "idle" ELSE pc
  /\ UNCHANGED <<strm, goaway, heap>>

\* session_after_frame_sent1 and 2 when the frame is complete
Sent == Sending /\ aob.pos = FrameOctets /\ UNCHANGED <<wire, pc>>

\* Mutant: only the frames of a stream that is open are followed by their CONTINUATION
NextPresentOpen == aob.cur < aob.chunks /\ aob.item.type = "HEADERS" /\ Live(aob.item.s)
NextPresent == aob.cur < aob.chunks

HeadersContinue ==
  /\ Sent /\ aob.item.type = "HEADERS" /\ NextPresent
  /\ aob' = [aob EXCEPT !.cur = @ + 1, !.pos = 0]
  /\ UNCHANGED <<strm, goaway, heap>>

\* The header block is out: the body's DATA item is attached to its stream.
HeadersSent ==
  /\ Sent /\ aob.item.type = "HEADERS" /\ ~NextPresent
  /\ LET s == aob.item.s
         freed == Free(heap, {aob.item})
     IN IF Live(s)
        THEN /\ strm' = [strm EXCEPT ![s].st = "OPENED", ![s].item = TRUE]
             /\ heap' = Alloc(freed, Data(s))
        ELSE heap' = freed /\ UNCHANGED strm
  /\ aob' = NoItem /\ UNCHANGED goaway

\* Mutant: the stream is left as it was
StreamResetNot(s) == strm
StreamReset(s) == IF Live(s) THEN Closed(s) ELSE strm

OtherSent ==
  /\ Sent /\ aob.item.type \notin {"HEADERS", "DATA"}
  /\ LET i == aob.item
         reset == i.type = "RST_STREAM"
     IN /\ strm' = IF reset THEN StreamReset(i.s) ELSE strm
        /\ heap' = Free(heap, {i} \cup (IF reset /\ Live(i.s) THEN ItemGone(i.s) ELSE {}))
        /\ goaway' = IF i.type = "GOAWAY" THEN goaway \cup {"TERM_SENT", "SENT"} ELSE goaway
  /\ aob' = NoItem

\* The item of a DATA frame stays with its stream until the body ends, or until the
\* stream is closed or reset in the meantime.
\* Mutant: it stays whatever happened to the stream
StaysAlways(s) == strm[s].left > 0
Stays(s) == strm[s].left > 0 /\ Live(s) /\ DataAllowed(s)

DataSent ==
  /\ Sent /\ aob.item.type = "DATA"
  /\ LET s == aob.item.s
         paid == [strm EXCEPT ![s].win = IF Live(s) THEN @ - 1 ELSE @]
     IN /\ strm' = IF strm[s].left = 0 /\ Live(s)
                   THEN [paid EXCEPT ![s].st = "CLOSED", ![s].item = FALSE]
                   ELSE [paid EXCEPT ![s].item = @ /\ Stays(s)]
        /\ heap' = IF Stays(s) THEN heap ELSE Free(heap, {Data(s)})
  /\ aob' = NoItem /\ UNCHANGED goaway

-----------------------------------------------------------------------------
SessionSend ==
  /\ pc = "idle" /\ pc' = "sending"
  /\ UNCHANGED <<urgent, reg, aob, strm, flood, goaway, outside, heap, wire>>

Steps ==
  \/ SendUrgent \/ SendReg \/ (\E s \in Streams : SendData(s)) \/ SendDone
  \/ HeadersContinue \/ HeadersSent \/ OtherSent \/ DataSent

Next ==
  \/ OnAcknowledged("PING_ACK") \/ OnAcknowledged("SETTINGS_ACK")
  \/ \E s \in Streams :
       \/ OnRequest(s) \/ OnRst(s) \/ OnWindowUpdate(s) \/ AddRstStream(s)
       \/ \E block \in Blocks, body \in Bodies : SubmitResponse(s, block, body)
  \/ OnGoaway \/ Terminate \/ SessionDel
  \/ SessionSend \/ Steps \/ \E n \in Takes : Write(n)

Spec == Init /\ [][Next]_vars

\* nghttp2_session_send is called again, and runs; a callback that keeps being called takes
\* something in the end.
FairSpec ==
  /\ Spec /\ WF_vars(SessionSend) /\ WF_vars(Steps) /\ WF_vars(\E n \in Takes : Write(n))
  /\ SF_vars(\E n \in Takes \ {0} : Write(n))

-----------------------------------------------------------------------------
(* Properties.                                                              *)

TypeOK ==
  /\ urgent \in Seq(Items) /\ reg \in Seq(Items)
  /\ aob \in [item : Items \cup {None}, chunks : Nat, cur : Nat \ {0}, pos : 0..FrameOctets]
  /\ strm \in [Streams -> [st : {"IDLE", "OPENING", "OPENED", "CLOSING", "CLOSED"}, item : BOOLEAN,
                           deferred : BOOLEAN, win : Nat, left : Nat]]
  /\ flood \in Nat /\ goaway \subseteq {"TERM_ON_SEND", "TERM_SENT", "SENT", "RECV"}
  /\ pc \in {"idle", "sending", "deleted"} /\ events \in Nat
  /\ DOMAIN heap \subseteq Items

\* Every item that was allocated and not freed is in exactly one hand, the queue's, the
\* stream's or the sender's, and is freed once when it leaves them, though streams close while
\* their DATA is half sent and the session may be deleted between any two calls
\* (nghttp2_session.c:653, 1155, 1970, 2803-2831, 2957).
ItemsOwned ==
  /\ \A i \in DOMAIN heap : heap[i] = IF i \in Held THEN 0 ELSE 1
  /\ Held \subseteq DOMAIN heap \cup {None}

\* The flood counter is the number of acknowledgements that wait, also after some were dropped
\* because the session is closing, and so the peer cannot make more of them wait
\* than there may be (nghttp2_session.c:2172, 2230, 6630, 6775).
FloodCounted ==
  /\ TypeOK
  /\ pc # "deleted" => flood = Cardinality({i \in Range(urgent) : IsAck(i)}) /\ flood <= MaxFlood

\* What is on the wire, octet by octet, are frames, sent whole and in an order that RFC 7540
\* allows: no octet lost or repeated when the callback takes part of a frame, nothing between a
\* HEADERS and its CONTINUATION, no DATA before the headers or after a reset, acknowledgements
\* in the order of what they acknowledge (nghttp2_session.c:2293, 2566, 2780, 2816, 3226, 3233).
Garbled == [type |-> "garbled"]
FrameAt(j) ==
  LET octets == SubSeq(wire, (j - 1) * FrameOctets + 1, j * FrameOctets)
      f == octets[1].frame
  IN IF octets = [k \in 1..FrameOctets |-> [frame |-> f, k |-> k]] THEN f ELSE Garbled

Promise == INSTANCE SentFrames
             WITH Numbers <- 1..MaxEvents, sent <- [j \in 1..(Len(wire) \div FrameOctets) |-> FrameAt(j)]
ImplementsSentFrames == Promise!Spec

\* Whatever is queued leaves the session: when peer and application pause there comes a time
\* when every frame has been sent or dropped, and freed; neither a reset in the middle of a frame
\* nor a callback that would block keeps one for ever (nghttp2_session.c:2293, 3216-3234).
Waiting == {i \in DOMAIN heap : i.type # "DATA" /\ heap[i] = 0}
EverythingLeaves == Waiting # {} ~> Waiting = {}

=============================================================================
