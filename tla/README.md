# A TLA+ verification of Kitura-HTTP2

Kitura-HTTP2 adds HTTP/2 to the Kitura web server. It consists of a Swift layer
(`src/Sources/KituraHTTP2`) and a copy of the C library nghttp2
(`src/Sources/nghttp2`) that it drives in the server role. This directory holds
TLA+ models of the system, the configurations with which TLC checks them on small
instances, and proofs that TLAPS checks for all values of the parameters.

## 1. The system

### Components

| component | state | operations | what makes it correct | module |
|---|---|---|---|---|
| **stream table** (`nghttp2_session.c`, `nghttp2_stream.c`) | the streams map, closed and idle lists, `num_incoming_streams`; per stream: state, shut flags, remote window, DATA item | open, close, retain, destroy, anchor, reset, move windows, defer/resume | map, lists and counter agree; bounded; within the announced limit; the assertion of `open_stream` holds | `StreamTable` |
| **session** (`nghttp2_session.c`, `nghttp2_submit.c`) | ids last received/processed, `goaway_flags`, local/pending settings, `ob_urgent`/`ob_reg`, inbound frame, connection window | one handler per frame type in `mem_recv`; one preparation and one after-sent step per frame type in `send`; `submit_*`; `upgrade2` | no lost wakeup, no lost answer, nothing after END_STREAM or RST_STREAM, GOAWAY covers what was processed, `send` is exhaustive and returns | `Session` |
| **HTTP2Session** (Swift) | `session`, `streamsData`, `initialRequest` | callbacks of nghttp2, `sendData`, `processIncomingData`, `close` | each complete request reaches the application once; each answer reaches the stream | `KituraSession` |
| **HTTP2SocketProcessor, upgrade factory, Utils** | the handler, the session, keep-alive | upgrade, set handler, process, close; base64url | preface before anything else; initial answer; the settings of the client are what the session gets | `Session`, `UpgradeSettings` |
| **HTTP2ServerRequest/Response** | read position; buffered body, status, headers | read, write, end | the body arrives whole and in order, one response per request | `KituraSession` |
| **receive flow control** (`nghttp2_session.c`, `_helper.c`) | `recv_window_size`, `recv_reduction`, `consumed_size`, `local_window_size` | count, consume, WINDOW_UPDATE, resize | both ends agree on every window; the peer is never accused wrongly nor starved | `RecvWindow` |
| **dependency tree** (`nghttp2_stream.c`, `nghttp2_pq.c`) | parent/sibling links, queues, weights, cycles | add, insert, remove, attach, defer, resume, reschedule | stays a tree; every active item is found, in order; shares follow weights; no starvation | `StreamTree`, `PriorityQueue`, `TreeShare`, `SendChoice` |
| **inbound frame machine** (`mem_recv`) | `iframe.state`, `sbuf`, payload left, padding | one case per state | any cut of the bytes gives the same frames | `InboundFrame`, `FrameMeaning` |
| **frame octets** (`nghttp2_frame.c`) | | pack and unpack, padding, CONTINUATION | what is read is what was written | `FrameCodec` |
| **outbound queues** (`mem_send`) | the queues, `aob`, `framebufs`, `obq_flood_counter_` | submit, prepare, write a part, after sent | one owner per item; whole frames in a legal order; the counter counts | `OutboundQueue`, `SentFrames` |
| **HPACK** (`nghttp2_hd.c`, `_hd_huffman.c`) | the two tables, the ring buffer, the hash map, the inflater's state | deflate, inflate, resize; encode and decode strings | tables agree; any cut of a block gives the same fields; the code is the standard's | `HpackTable`, `Hpack`, `HpackInflater`, `Huffman`, `HuffmanCode`, `HdRingbuf`, `Deque` |
| **HTTP messaging** (`nghttp2_http.c`) | `http_flags`, `content_length`, `recv_content_length` | on_header, end of block, DATA, end of stream | malformed requests do not reach the application, others do | `HttpMessaging`, `RequestRules` |
| **data structures** (`nghttp2_map.c`, `_pq.c`, `_queue.c`, `_buf.c`) | | | they keep what they are given | `HashMap`, `PriorityQueue`, `Bufs` |

`HTTP2SocketProcessor.process` passes each buffer of the socket to
`HTTP2Session.processIncomingData`, which calls `nghttp2_session_mem_recv` and then
`nghttp2_session_send`. The library calls back with headers, data chunks, whole
frames and closed streams; in the callback for the end of a request Kitura runs the
application, which answers at once or later through `HTTP2ServerResponse.end`,
`sendData`, `nghttp2_submit_response` and, again, `nghttp2_session_send`. So a send
loop runs inside a receive handler whenever the application answers at once.
`nghttp2_session_send` writes through `processor.write` and never blocks.

### What is hard

* A send loop nested in a receive handler: it closes streams, moves windows and
  empties queues while the handler holds pointers.
* Closing and resetting from five sides: END_STREAM in both directions, RST_STREAM in
  both directions, GOAWAY; a reset is decided when it is queued and takes effect when
  it is sent.
* Memory kept for the priority tree: closed and idle streams live on in lists with
  bounds of their own.
* Windows that SETTINGS moves for all streams at once, below zero too.
* The limit that holds once announced and again once acknowledged.
* Frames cut by the ends of buffers, with sends in between.
* Two counts of every window, one at each end, with frames on the way in both directions;
  two compression tables likewise, which nothing but the order of the frames keeps alike.
* Unsigned numbers that wrap: the cycles of the tree, the sequence numbers of table
  entries, the front of the ring buffer.
* A send callback that takes part of a frame or would block, and streams that are closed
  or reset before it takes the rest.
* Errors in the middle of a message: what is not decoded or not counted any more changes
  what comes later.

`PROJECT.json` lists these as hazards, each with its line and the properties that
would catch it.

## 2. The modules

| module | what it is |
|---|---|
| `StreamTable` | the stream table as a record, and the functions of the C code that change it as operators on it |
| `Session` | the server session: EXTENDS `StreamTable`, one action per frame handler, per frame sent, and per call of the application; properties |
| `Exchange` | abstract: what the session promises for each stream |
| `KituraSession` | the Swift layer: EXTENDS `Session`, each action together with the callbacks it makes |
| `RecvWindow` | the windows the server grants, with the peer's count of them and the wire between the two |
| `PriorityQueue`, `StreamTree`, `TreeShare` | the heap; the tree with its queues; the tree with a count of what each subtree sent |
| `SendChoice` | abstract: what the session asks of its scheduler |
| `FrameMeaning` | abstract: what whole frames mean to a server |
| `InboundFrame` | `mem_recv` octet by octet, one action per pass of its loop: EXTENDS `FrameMeaning` |
| `OutboundQueue` | queues, the frame in hand, partial sends, the flood counter |
| `SentFrames` | abstract: which frames a server may write, one after another |
| `HpackTable`, `Hpack` | a compression table; deflater and inflater with SETTINGS in flight |
| `HpackInflater` | a header block octet by octet, one action per state, and what a block means by RFC 7541 |
| `Bufs`, `HuffmanCode`, `Huffman` | chained buffers; the code of the standard; the encoder over chunks and the decoder in pieces |
| `Deque`, `HdRingbuf` | abstract: a list; the array that implements it |
| `RequestRules` | abstract: which requests are well-formed |
| `HttpMessaging` | the same judged field by field and chunk by chunk |
| `FrameCodec` | frames as octets: packed into chunks, padded, read again |
| `UpgradeSettings` | HTTP2-Settings from the client's encoding to the entries the session gets |
| `HashMap` | the map of streams, its chains and its growth |
| `MCSession`, `MCKitura`, `MCRecvWindow`, `MCTree`, `MCInboundFrame`, `MCLayers` | the instances TLC checks |
| `SessionProofs` | what each operator of `StreamTable` preserves, and what it does to the life of each stream and to the size of the map; the inductive invariants `IInv` and `SInv` of `Session`, one lemma per action, and the theorems about the table and the life of streams |
| `ExchangeProofs` | three more invariants of `Session` on top of those: the session implements `Exchange`, nothing is forgotten, no answer is lost |
| `KituraProofs` | the Swift layer: its steps are steps of the session, and its own invariant |
| `OutboundProofs` | the inductive invariants of `OutboundQueue`: who owns an item, and that it implements `SentFrames` |
| `RecvWindowProofs` | sums over sequences and functions; the ledgers of `RecvWindow` |
| `RecvStallProofs` | what can be handed back is not withheld: `NoStall` |
| `HdRingbufProofs` | the ring buffer implements `Deque` |
| `InboundProofs` | where in which frame the reader of `InboundFrame` is; what the application hears of streams that are reset |

How they fit together. `Session` takes frames as wholes, or as begin and end for HEADERS
and DATA, and lets the peer choose whether a message is well-formed, a block decodes,
and which ready DATA item is next. Each of these choices is the subject of a module: that the
pieces make up whole frames (`InboundFrame`), that the octets of a frame say what was
meant (`FrameCodec`), when a block decodes (`Hpack`, `HpackInflater`, `Huffman`), which messages are
well-formed (`HttpMessaging`), and whose turn it is (`StreamTree` implements `SendChoice`, the free
choice). What `Session` sends as wholes, `OutboundQueue` sends in parts. `KituraSession` is
`Session` with the callbacks of the Swift layer in each step.

### `Session` and `KituraSession`

`tbl.strm[s]` is the `nghttp2_stream` of identifier `s` (`"ABSENT"` when the map has no
entry), `tbl.closedQ` and `tbl.idleQ` are the lists from `closed_stream_head` and
`idle_stream_head`, `tbl.nIncoming` is `num_incoming_streams`. `num_closed_streams` and
`num_idle_streams` move with their lists in every function and are their lengths. The
other variables of `Session` carry, in their declaration, the name of the field they
stand for. `pc` says where the one thread of control is: outside the library (`idle`),
between two frames of a buffer (`recv`), inside `on_frame_recv` (`callback`), in the
loop of `nghttp2_session_send` (`send`, with `ret` the place it returns to). `out`,
`delivered`, `answered`, `refused` and `goneLast` are history: what went out, and what
the application saw.

* Connection start: `Upgrade`, `UpgradeRejected`, `ServerPreface`.
* `StartRecv` and `BufferEnd` bracket `nghttp2_session_mem_recv`; `EnterSend` is the call
  of `nghttp2_session_send` that follows, with its trimming of the idle list.
* A frame of the peer: HEADERS begin with `RecvRequest` (opened, refused, ignored or
  fatal, in the order of the tests in the code) or `RecvTrailers`, DATA with `RecvData`.
  They end with `FrameDelivered` (the callback runs, then `CallbackReturns` applies
  END_STREAM), `FrameViolatesMessaging`, `FrameAborted`, `FrameIgnored` or
  `CompressionError`. Between begin and end the buffer may end and anything may be
  sent. The other frames are one step each: `RecvRst`, `RecvPriority`, `RecvSettings`,
  `RecvSettingsAck`, `RecvConnWindowUpdate`, `RecvWindowUpdate`, `RecvGoaway`, `RecvPing`,
  `RecvInvalid` (all frames the code answers with a connection error on sight) and
  `RecvNoSettings`.
* `SubmitResponse`: an answer, from outside or from inside the callback.
* One iteration of the send loop: `SendUrgent`, `SendHeaders`, `SendRst`, `SendGoaway`,
  `DropData`, `DeferData`, `SendData`, `ReadFails`, `SendDone`.

* In `KituraSession` the actions whose callbacks matter have a version of their own:
  `KRecvRequest` (`on_begin_headers`, `on_header`), `KRecvData` (`on_data_chunk_recv`),
  `KFrameDelivered` (`on_frame_recv`), `KSubmitResponse` (`sendData`), `KSendData` (the data
  provider), `KUpgrade`, and `EndEmpty` for `end()` with nothing written. In all other
  steps (`KPlain`) only `on_stream_close` acts: `DropClosed` clears the entry of each
  stream that was open before the step and is not after it.

`streamsData[s]` keeps of a `StreamData` whether it exists, whether its header fields make
a URL, the chunks of the saved request, and whether `dataInfo` knows the answer.
`array` is the stream whose `sendData` is on the stack: its byte array lives just as long.

### `RecvWindow`

`srv.win` holds the fields of the library for the connection and each stream, `peer` what
the peer believes it may send, `fromPeer` and `toPeer` are the wires: DATA one way, WINDOW_UPDATE
and SETTINGS the other. DATA is read in pieces. `use` says what the application does: leave the
updates to the library (KituraHTTP2), consume by hand, or resize windows. Identifier 0 is
the connection.

### `StreamTree`, `PriorityQueue`, `TreeShare`

`t` holds the pointers `dep_prev`, `dep_next`, `sib_prev`, `sib_next`, the queue of each node as the array of
`nghttp2_pq`, cycles modulo `CycleMod` (2^32 in the code), penalties and sums of weights.
Actions are the functions that the session calls: open a stream, reprioritize, close, destroy,
attach, defer, resume or detach an item, and a turn of the scheduler. A node is never due below
a parent that always has something to send itself, which is nghttp2's rule; `Due` has it.

### `InboundFrame` and `FrameMeaning`

An octet is a record that says what it is for; the peer sends one of `Inputs`, well-formed
or not, and the socket cuts it anywhere. `Step` is one pass of the loop of `mem_recv`, its disjuncts the states
`NGHTTP2_IB_*`. `Meaning` of `FrameMeaning` is a fold over whole frames, without states; the events of
the two must agree. Between two calls a send may or may not happen. The content
of a stream that is reset may have been handed over or not. The meaning ends with the error
that ends the connection. As in the code: padding that exceeds what the
priority fields leave is taken as an empty block, a wrong magic consumes nothing, and the length of
CONTINUATION is not held against the largest frame.

### `OutboundQueue` and `SentFrames`

`wire` is a sequence of octets, each of which knows its frame and its place in it; `heap`
counts how often an item was freed. `Write(n)` is one call of the send callback, which takes `n`
octets, none included. Peer and application act while a frame is half written.
`ImplementsSentFrames` cuts the octets into frames and shows that they obey the abstract
specification: nothing between HEADERS and its CONTINUATION, DATA only after HEADERS and before
END_STREAM or RST_STREAM, acknowledgements in order, no stream served after the GOAWAY that ends the session.

### The layers

* `HpackTable` and `Hpack`: a context is entries, room, next sequence number (modulo `Seqs`) and the
  chains of the hash map. SETTINGS and their acknowledgement, and header blocks, cross on two
  wires. A deflater that fails in the middle of a block leaves it marked bad. Values of
  `authorization` and of short cookies, and fields marked NO_INDEX, are `secret`.
* `HpackInflater`: integers and strings octet by octet; what a block means is `Meaning`,
  a fold without the inflater's states.
* `Huffman`: the real table of 257 codes. The decoder's table of 4-bit steps is generated data;
  the model decodes with the tree it is generated from.
* `HttpMessaging`: a field is a name, a class of value and, for content-length, digits. Numbers
  are in base 3 and end at 7, where the code's end at `INT64_MAX`. Regular fields with illegal
  characters are ignored, `te` and schemes compare without case. `RequestRules` judges whole lists.
* `FrameCodec`: sender and reader are two sessions of the library, so that the sender may
  pad and set reserved bits. Numbers of 32 bits go to 2^31-1.
* `UpgradeSettings`: characters are the numbers they stand for in base64. The decoder of
  Foundation is external: it refuses what is no base64 with its padding.
* `HashMap`: the hash of the code, with chains through the entries. The session looks for an
  identifier before it inserts it, so that the error for a duplicate is not reached.

### The abstract specifications

`Exchange` says of each stream: the application gets its request at most once and answers
it at most once, the answer goes out as one header block followed by exactly the bytes of
its body, the part that completes the body ends the stream, and nothing follows a reset.
`Session!ImplementsExchange` is that specification under the mapping
`asked <- delivered`, `wire <- out`, `size[s] <- left[s] + out[s].body`: what the provider
still has and what was sent add up to the body.

`SendChoice`: a turn goes to a stream that is due, and one that stays due gets a turn.
`StreamTree!ImplementsChoice`, under the fairness that turns are taken at all.
`SentFrames`: see above. `Deque`: a list; `HdRingbuf` implements it with the entries read off the
array. `FrameMeaning`, `RequestRules`, `HuffmanCode` and the `Meaning` of a header block
are reference definitions over whole inputs.

### Abstractions

* In `Session` and `KituraSession` header lists and payloads are left out, and a body is its
  length; the data provider gives all that fits, or fails.
* Widths: `MaxWindow` stands for 2^31-1. The arithmetic of windows is over integers, and
  the type invariants show that no value leaves 32 bits. What wraps in the code (cycles,
  sequence numbers, the front of the ring buffer) wraps in the models.
* Allocation never fails, except where it is named. The client role, push, options and
  extension frames are out: KituraHTTP2 uses none of them.
* A session that must end is not closed by the models; Kitura does not close it either.

## 3. The runs

| run | what it explores | properties |
|---|---|---|
| `MCSession` | four kinds of peer (`peer`), two requests at a time | `TypeOK`, `Consistent`, `ConcurrencyLimit`, `OpenAssertion`, `DeferredHasNoWindow`, `WindowsKept`, `ObjectsBounded`, `RepeatedOnce`, `HeldStreamLive`, `StreamsClose`, `NothingForgotten`, `ImplementsExchange`, `SendReturns` |
| `MCKitura` | HEADERS, DATA, RST_STREAM, WINDOW_UPDATE, an upgrade; 5 frames | `EntriesKept`, `WholeRequest`, `NoAnswerLost` |
| `MCRecvWindow` | eight uses of the windows | `LedgersAgree`, `AccusedRightly`, `NoStall`, `WindowReopens` |
| `MCTree` | links and queues, cycles, the heap (`about`) | `TreeKept`, `DueInOrder`, `ProportionalShare`, `HeapKept` |
| `MCTreeChoice` | two streams, two weights, deferred for two reasons | `ImplementsChoice` |
| `MCInboundFrame` | whole connections in all pieces | `PiecesDoNotMatter`, `BlocksDecoded`, `CountsRight`, `HeardNoMore`, `CallReturns` |
| `MCOutbound` | two streams, partial writes, GOAWAY, deletion | `ItemsOwned`, `FloodCounted`, `ImplementsSentFrames`, `EverythingLeaves` |
| `MCLayers` | nine layers, one at a time (`about`) | `RequestsJudged`, `TablesAgree`, `BlocksRead`, `StringsCoded`, `ContainersKeep`, `WireUnderstood` |
| `MCTrailers`, `MCLargeBody`, `MCEmptyBody`, `MCTreeScale` | 2 to 4 frames | one property each, violated: see below |

Several properties are conjunctions whose parts are named and commented in the modules:
`RepeatedOnce`, `StreamsClose` and `NothingForgotten` in `Session`, `EntriesKept` and `WholeRequest`
in `KituraSession`, `TreeKept`, `DueInOrder` and `HeapKept`
in `MCTree`, all of those in `MCLayers`. Each property was seen to fail when the code is
changed as its mutants in `PROJECT.json` say, under the same bounds.

### Bounds

`MCSession`: identifiers 1, 3, 5 of the peer and 2, which it may name in PRIORITY only;
announced limit `MaxConcurrent = 2` (100 in the code) below `DefaultMax`; idle list between
0 and 1 (16 and 100), so that two anchors already overflow it; windows start
at 2 and end at 3, so that one step of either sign reaches a limit; DATA frames of at most
2 bytes, so that a body of 3 takes two. `MaxFrames` bounds the frames of the peer, and what
the server sends is bounded by that: 4 in `streams` (SETTINGS and three requests, or two and a
reset: a stream is retained, refused, anchored, reused), 5 in `flow` (a request,
a window that shuts, opens and overflows), 6 in `shutdown` (two requests with bodies), 3
in `upgrade`. No run of these stops in a deadlock: `StartRecv` is always possible when idle.

`MCKitura`: five frames are SETTINGS, a request in HEADERS, DATA and trailers, and one more; or two
requests with resets.

`MCRecvWindow`: windows of 3 and 4 bytes and 7 for the largest, DATA of up to 3 with padding,
2 to 4 frames, one or two calls of the application: a window is used up and opened more
than once, and overrun by one byte and by many. The system stops when the peer has said all.

`MCTree`: three streams (every shape of tree below the root, four nodes), two PRIORITY frames,
cycles modulo 8, which wrap after a few frames; a heap of six entries, three levels, with two
keys, where a new entry takes the first free name; in `cycles` the streams stay open.
`MCTreeChoice`: two streams side by side or in a chain. Both stop when joins are used up and nothing is active.

`MCInboundFrame`: a frame head of 3 octets and a magic of 2, other lengths as in HTTP/2; one frame
of each kind and layout behind a request, header blocks of three frames, broken openings. Pieces
end at every place where the code looks at the end of its input. It stops at the end of the input.

`MCOutbound`: frames of two octets, so that one may be half sent; header blocks of one or two
frames or too long; bodies of two frames behind a window of one; one acknowledgement at a time;
five events of peer and application.

`MCLayers`: lists of five fields of any kind in any order, and requests with content up to 8; two compression
tables of three or four entries, with sequence numbers modulo 4, three SETTINGS or five blocks; blocks of two
or three representations with indices and lengths at the ends of their prefixes, and octets of the peer's
own making, in every division; strings of each symbol, each pair of lengths and all inputs of one octet,
in chunks of 1, 2, 3 and 12; an array of up to 6 entries, with front and mask modulo 16;
frames of all kinds with chunks of 10, header blocks of up to three; five identifiers
in a map of two buckets that grows to eight. It stops at the end of each input.

### Fairness

`MCSession`: `nghttp2_session_send` is a loop that runs on, and a callback returns: weak
fairness of `Send` and of `CallbackReturns`. Nothing is assumed of the peer or of the application.
`MCRecvWindow`: the library reads what arrived, and sends after each read, as
`processIncomingData` does; the peer reads what it is sent, and nothing makes it send. `MCTreeChoice`: turns are
taken while a stream is due, the same loop of `send`. `MCInboundFrame`: a call of
`mem_recv`, once entered, goes on. `MCOutbound`: `nghttp2_session_send` is called again after
each event, and its loop goes on; a callback that would block takes something if called
often enough (strong fairness of writing). Kitura's callback never blocks.

### What holds, and its exceptions

The properties are as strong as the code lets them be; where it does less, the exception is
part of the property and exact.

* `InitialResponseSent`: not when `nghttp2_session_upgrade2` failed. Its result is ignored
  (`HTTP2Session.swift:107`): if the length of the payload is no multiple of six it opens no stream
  1 (`nghttp2_session.c:7172`), the connection is upgraded nevertheless, and the HEADERS of the
  answer are dropped. The comment at 110 says that a response is sent.
* `GoawayCovers`: an upgrade whose settings are out of range queues its GOAWAY before it opens
  stream 1 (`nghttp2_session.c:7186`), whose request is then answered.
* `UnhandledHasNoUrl`, in `WholeRequest`: a request without `:path`, or whose path and authority
  make no URL, is neither handled nor reset (`HTTP2Session.swift:184`, 197).
* `OnlyLateAnswersLinger`, in `EntriesKept`: an answer that comes after its stream was reset makes an entry in
  `streamsData` (409) that no callback removes.
* `WholeRequest` is about requests without trailers; for the others see below.
* `NoStall` is about windows that only grow (`Growing`). Elsewhere a window can close for good, in three
  ways, each of which TLC showed when the property was stated without its exception: a window shrunk by a
  negative `nghttp2_submit_window_update` owes those bytes, and growing back pays them and announces nothing
  (`nghttp2_helper.c:155`); `nghttp2_session_set_local_window_size` announces no more than the
  difference, so that bytes received before are not announced when it grows again (`nghttp2_submit.c:472`);
  a smaller initial window is held against what has come only if updates are automatic
  (`nghttp2_session.c:4197`). KituraHTTP2 does none of these. And without automatic updates a window of one byte is
  out: a Pad Length is consumed before it is counted as received (`nghttp2_session.c:6274`), so its byte is
  announced with the next frame only.
* `SentFrames` lets a stream be reset twice: when it is reset while its HEADERS are half sent, it becomes open
  again afterwards (`nghttp2_session.c:2613`, although `nghttp2_session.h:386` says otherwise).
* A header block that is too long is dropped, and its stream stays open (`nghttp2_session.c:2090`): the models
  have the behaviour, and no property says otherwise.

`ProviderFindsData`, in `EntriesKept`, is what `Session` assumes of Kitura: the data provider never
fails, because the entry made by `sendData` stays until the stream is closed, at which point the
library has dropped the DATA item. So the action `ReadFails`, which `Session` has for any
provider, is no step of `KituraSession`, and `NoAnswerLost`, which a provider that fails breaks,
is a property of `MCKitura`.

### The violated runs

`TrailersKeepBody`. `on_frame_recv` builds a request from every HEADERS frame. When a request
ends in trailers, the request built from them is handled (`HTTP2Session.swift:208`), and the
one saved with the body (212) is not, although it "will be handled once all request frames
arrive" (51).

`OwnBytes`. The provider reads from the address of `mutData` (364), an array that is gone
when `sendData` returns. If the body exceeds the peer's window, the rest is read when the
window opens, from memory that is somebody else's: the model lets the bytes be right or
wrong. `largeGet` in `LargePayloadTests.swift` was to test a large body, but sends a POST,
whose answer is short.

`EndCompletes`. `HTTP2ServerResponse.end` submits nothing when nothing was written (85).

`SameScale`. The comment at `nghttp2_stream.c:34` says that cycles in one queue are never further
apart than the maximum distance, so that comparing them tells which has wrapped. A PRIORITY that moves a
busy subtree resets the base of its queue (197) while the streams in it keep their cycles; the
next one pushed starts from zero, out of reach of the others.

## 4. The proofs

For every finite set of positive identifiers, all limits, windows, sizes of bodies and bounds on
the frames of the peer; of `OutboundQueue`, for any streams, sizes of frames and pieces, and limits;
of `RecvWindow`, for any streams, windows, payloads, paddings and increments; of `HdRingbuf`, for any word and
sizes that are powers of two, and any number of entries; of `InboundFrame`, for any octets of the peer, of any lengths
and well-formed or not, in any pieces:

| module | theorem | statement |
|---|---|---|
| `SessionProofs` | `Invariance` | `Spec => []IInv` |
| | `TypeCorrect` | `Spec => []TypeOK` |
| | `TableStaysConsistent` | `Spec => []Consistent` |
| | `LimitKept` | `Spec => []ConcurrencyLimit` |
| | `AssertionHolds` | `Spec => []OpenAssertion` |
| | `WindowsNotOverdrawn` | `Spec => []WindowsKept` |
| | `NoLostWakeup` | `Spec => []DeferredHasNoWindow` |
| | `LifeInvariance` | `Spec => []SInv` |
| | `CallbackStreamLives` | `Spec => []HeldStreamLive` |
| | `RepeatIsSafe` | `Spec => []RepeatedOnce` |
| | `StreamsComeToAnEnd` | `Spec => []StreamsClose` |
| | `MapStaysSmall` | `Spec => []ObjectsBounded` |
| `ExchangeProofs` | `WireInvariance` | `Spec => []WireInv` |
| | `SessionImplementsExchange` | `Spec => ImplementsExchange` |
| | `NothingIsForgotten` | `Spec => []NothingForgotten` |
| | `NoAnswerIsLost` | `Spec => []NoAnswerLost`, without failing providers and refused upgrades |
| `KituraProofs` | `SwiftInvariance` | `KSpec => [](IInv /\ SInv /\ WireInv /\ KeptInv /\ AnswersInv /\ KInv)` |
| | `EntriesAreKept` | `KSpec => []EntriesKept` |
| | `RequestsAreWhole` | `KSpec => []WholeRequest` |
| | `AnswersAreSent` | `KSpec => []NoAnswerLost` |
| `OutboundProofs` | `OutboundInvariance` | `Spec => []OInv` |
| | `EveryItemIsOwned` | `Spec => []ItemsOwned` |
| | `FloodIsCounted` | `Spec => []FloodCounted` |
| | `WireKeepsThePromise` | `Spec => ImplementsSentFrames` |
| `RecvWindowProofs` | `LedgersAlwaysAgree` | `Spec => []LedgersAgree` |
| | `OnlyOverrunsAreAccused` | `Spec => []AccusedRightly` |
| `RecvStallProofs` | `OpenWindowsCanBeUsed` | `Spec => []NoStall` |
| `HdRingbufProofs` | `RingIsDeque` | `Spec => ImplementsDeque`, under `RingbufAssumption` |
| `InboundProofs` | `ReaderKnowsItsPlace` | `Spec => []IInv` |
| | `CountsAreRight` | `Spec => []CountsRight` |
| | `NothingHeardAfterReset` | `Spec => HeardNoMore` |

Assumptions are those named in `StreamTable`, `Session`, `OutboundQueue`, `RecvWindow`, `FrameMeaning` and `InboundFrame`: identifiers are a
finite set of positive numbers, the announced limit lies below "no limit", the initial window is a
window, frames are not empty, sizes and lengths are natural numbers, and an input is a sequence of frames
whose padded ones begin with a Pad Length (`InputsAssumption`; nothing else is assumed of them: any type, any
flags, any length, padding beyond the frame). TLC evaluates them in every run.
`RingbufAssumption` (the word is a power of two, and the sizes are not beyond it) is a hypothesis of its theorem, since
the module is only used as an instance; `MCLayers` assumes it of that instance.
`NoAnswerIsLost` has two hypotheses of its own: `Inputs`, the kinds of events an instance has, does
not name the data provider that fails (`"READ_FAILURE"`) nor the upgrade whose settings are refused
(`"BAD_UPGRADE"`): after either, the library does lose the answer. `AnswersAreSent` needs neither:
`HTTP2Session`'s provider does not fail (that is `EntriesAreKept`), and the refused upgrade, which
ends in a GOAWAY, is left to `Session`.

### The session

`IInv` is `TableInv /\ ControlInv`. `TableInv` is about the table and the
numbers: `TableOK` (types and `TableConsistent`), the counter is at most the limit,
`WindowsOK` (the type of windows together with the distance of each from the initial
window, without which a SETTINGS that lowers it could not be shown to stay in 32
bits), `DeferredOK`, and `OpenAssertion`. None is inductive alone: the limit needs the
counter to be the number of live streams, which needs the closed and idle lists to be
exact; the assertion needs `last_recv_stream_id` to be recorded for refused and ignored
requests too. `ControlInv` says where the handler is: the inbound frame and the running
callback belong to a stream, the limit is announced before anything is received, and
nothing has happened before an upgrade. The limit needs that too: before the server's
SETTINGS the pending limit is "no limit", and only the single stream of an upgrade may
be open. `SessionProofs` has, for each operator of the table, a lemma that it keeps
`TableOK` and what it does to windows, items and states, and one lemma per action, which
combines them.

`SInv` is about streams over their life. Its parts need each other: a stream whose callback runs
lives (`HeldStreamLive`) because only the end of both directions or a reset closes it, so it
must be neither shut nor about to be reset, and the loop of `send`, which may run inside the
callback, must not find its RST_STREAM (`ReadInv`); what is marked for reset has its RST_STREAM queued, which
holds only until the session is to end, when such frames are dropped (`ResetInv`); and that a
request beyond a GOAWAY was not delivered needs the GOAWAYs still in the queue to cover what is
delivered or may still be (`GoawayInv`). `LifeInv` bounds the lists and says what an entry may be in
each state. `OpenRequestAges` is the one lemma in which a stream comes to life; in all others streams
only get older.

`WireInv` ties the queue, the DATA items and what was sent: a HEADERS is queued once, for a stream
on which nothing was sent; a DATA item is on a stream whose headers went out and END_STREAM did not; what
is shut for writing has sent END_STREAM; and what was reset is dead and not used again. Under it each step of
the session is a step of `Exchange` or a stutter: most are `Quiet` (they send nothing and ask nothing), `SendHeaders`,
`SendData`, `SendRst`, `SubmitResponse` and the deliveries are not.

`KeptInv` and `AnswersInv` carry `NothingForgotten` and `NoAnswerLost`: between the answer and the end of its body there is always
a HEADERS in the queue or a DATA item on the stream, also when the stream's windows move, other
streams are reset, and the callback answers before the handler of its frame is done.

### The Swift layer

Each step of `KSpec` is a step of the session or leaves it alone (`SwiftStep`), so the invariants of the session hold
without being proved again. `KInv` says of each stream which entry of `streamsData` it has: one from the
first header until the request is handled, with the chunks that were received, and again from the
answer to the close, with the data the library may ask for. It needs to know whose frame is being read, and that of `SInv`:
an entry may only go with its stream, and its stream may not go while its callback runs.

### The queues that leave

`OInv` adds to the two properties what makes them inductive. `QueueInv`: an item waits once, in the queue of its
kind, and not while it is sent. `StreamInv`: an item hangs on a live stream with octets left, and stays there while
it is sent if its stream lives, so that it is the stream or the sender that frees it, never both.
`NameInv` is about the names the model gives to items, which stand for addresses: a new one is not in use.
`OwnStep` is the argument in one lemma: what a step makes somebody holds, and what it frees
nobody holds any more.

`SentInv` is what the frames on the wire say of the session. The wire is whole frames and the octets of the one in
hand (`WireInv`), so that cutting it into frames gives the sequence of `SentFrames`, and a call of the callback
that takes part of a frame is a stutter. `OrderInv` has one conjunct for each clause of `SentFrames`: what a
CONTINUATION in hand continues; that acknowledgements are numbered as they were queued and wait in that order; that
nothing but SETTINGS or a GOAWAY is packed after the GOAWAY that ends the session; and, for each stream, that HEADERS went out
before its DATA item exists, and that one whose end went out is closed. The last is the hard one: a stream that is
reset while its HEADERS are half sent is opened again, so `EndOut` must speak of the frame in hand too.

### The windows

`LedgerInv` is an account. `Slack(id)` is what the server would still accept of a window, less what it has
announced and the peer has not read, less the peer's credit, less what is on the wire or in the frame being
read, plus what a SETTINGS under way will move; it is zero for every window that counts (`Balanced`). Each step moves bytes from one
column to another, and most of the proof is one lemma for each helper of the library, about what it does to
the columns of each window (`Moves`, `Onward`, `Same`). What makes it inductive: SETTINGS that were sent are
acknowledged in their order, and the ACKs under way tell which initial window each DATA was sent under (`AckLedger`);
a peer that keeps within its windows had the credit for each DATA under way, also when an initial window announced since has
taken it away (`Afforded`); nothing of a stream
comes before its HEADERS or after its end (`Unopened`, `Opening`, `Ending`); and what the application holds of each
window is what was received less what was consumed (`HeldRight`). That an honest peer is never accused is `Afforded` at the head of
the wire. Sums over the wires are folds; what adding or taking a frame does to them is proved by
induction over a set of numbers (`NatSet`, from the least element of a well-founded order), since the provers do not take
an induction over a formula.

`StallInv` is on top: where windows only grow, no debt is left (`Level`), a window that is marked has an update
queued (`Announcing`), what the application does not hold is consumed (`Handed`), and as long as it is not
marked, little could be handed back (`Little`). It is a condition on every place that counts, consumes, resizes or sends:
the update that leaves takes the mark away, so the code must look again whether another is due
(`nghttp2_session.c:2709`, 2735). With nothing under way the account says that the peer's credit is what the window has left,
and `Little` that this is more than nothing.

### The ring buffer

The array is a list read from `first`, modulo its size. Since the word is a power of two, and so is the size of the
array, the size divides the word, and an index that has wrapped around the word names the same place:
`RingIsDeque` needs that, and that the array of `Reserved` is a copy from zero.

### The reader

`IInv` says where the reader is. Between two frames, or in the head of one, it is `Ahead`: some number of frames has been read
to the end, and the buffer holds the octets of the next head that have arrived. In a payload it is `Within`: the
octets it still expects (`payloadleft`) are those up to the end of a frame of the input, and it is in a state
for the content of DATA only if that frame is DATA (and the other way round, while the connection is well).
`FrameOK` has what each state needs to
know of its buffer: that the fixed part still fits into the payload (the length is tested when the head has been read, and
again when the Pad Length has taken an octet), that SETTINGS are a number of whole entries, and that a Pad Length
comes next exactly where the code reads one. None of this holds by itself: where the buffer of one state is wrong,
the next head is read from the middle of a payload. What the window is charged with is then the number of octets of DATA payloads
up to where the reader is (`ContentSize`), in each of the five states that read them.

For `HeardNoMore`, a stream that was reset is `Gone`: closing, or no longer there and not to come back, since only
identifiers above `last_recv_stream_id` are opened. Each handler is shown to keep `SessionOK`
(what was reset is gone, and nothing was told of it since, `Final`), and the states in which a callback may be called (`Heard`) are
reached only for streams that are not gone. The fold over the octets of a header block is taken apart by induction over a set
of numbers, as the sums over the wires are.

### Only model-checked

* Liveness: `SendReturns`, `WindowReopens`, `CallReturns`, `EverythingLeaves`, the fairness of `SendChoice`.
* What folds over whole inputs and recursive operators compute, which needs an induction over data: the meaning of
  frames (`PiecesDoNotMatter`, `BlocksDecoded`) and of header blocks, `HuffmanCode`, the compression tables, the octets of frames; the
  tree and its heap (`StreamTree`, `PriorityQueue`, `TreeShare`, whose operators are `RECURSIVE`).

## 5. What is left

All modules are written and checked. What a continuation would prove first: the heap, with its loops written as
recursive functions; and `BlocksDecoded`, from the invariant of the reader.

### Not modelled

* Closing a connection: `HTTP2Session.close` deletes the session, and who calls it, KituraNet, is
  outside the repository. After the GOAWAY that ends a session nothing of Kitura asks
  `nghttp2_session_want_read`.
* Data races: an answer from the application's thread calls the library while the socket's
  thread may be in it (`HTTP2Session.swift:363`). The models interleave whole calls.
* A response that is ended twice, header lists and status codes of responses, and the reading of
  a request's body in pieces by the application.
* The client role of nghttp2 and the pushing of streams, ALTSVC and extension frames, options, padding
  callbacks of an application, and functions of the API that KituraHTTP2 never calls. A PUSH_PROMISE
  of the peer is in `InboundFrame`, which reads it and ends the connection; `Session` has it among
  the frames of `RecvInvalid`.
* In `InboundFrame`, what depends on the values in a payload: that content falls short of its declared length
  when the stream ends is in `HttpMessaging`; the numbers in PRIORITY, WINDOW_UPDATE, RST_STREAM and GOAWAY
  are in `Session`.
* Allocation failures, error texts, logging, ALPN selection, reference counts, the decoder's
  generated Huffman table, build files and tests.
