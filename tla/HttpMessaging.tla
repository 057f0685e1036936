----------------------------- MODULE HttpMessaging -----------------------------
(***************************************************************************)
(* The rules of HTTP on the requests of a client (nghttp2_http.c), applied  *)
(* to one stream field by field as the header block is inflated, and to its *)
(* content chunk by chunk: what is remembered of the stream are flags, the  *)
(* declared length and the length received.  The client's half of the file, *)
(* which reads responses, is not reached by a server.                       *)
(***************************************************************************)
EXTENDS Integers, Sequences, FiniteSets, SequencesExt

CONSTANTS
  Values,       \* what the value of a field may be
  Digits,       \* and of a content-length
  Peer,         \* bound: the fields the peer uses
  MaxFields, MaxTrailers,   \* bounds: of the field lists
  Chunks,       \* sizes of the pieces of content
  MaxContent,   \* bound: of all of them
  Base,         \* 10
  MaxLength     \* INT64_MAX

VARIABLES
  phase,    \* "fields", "content", "trailers", "ended" or "reset"
  flags,    \* http_flags
  length,   \* content_length
  recv,     \* recv_content_length
  head, trailer,  \* history: the field lists the peer sent
  closed    \* history: whether it ended the stream

vars == <<phase, flags, length, recv, head, trailer, closed>>

Rules == INSTANCE RequestRules

MessagingAssumption ==
  /\ Peer \subseteq Rules!Fields(Values, Digits)
  /\ Base \in Nat \ {0, 1} /\ MaxLength \in Nat /\ MaxContent \in Nat /\ Chunks \subseteq Nat

\* nghttp2_stream_init
Init ==
  /\ phase = "fields" /\ flags = {} /\ length = -1 /\ recv = 0
  /\ head = <<>> /\ trailer = <<>> /\ closed = FALSE

Pseudo(f) == f.name \in {":authority", ":method", ":path", ":scheme", ":other"}

-----------------------------------------------------------------------------
(* A field (nghttp2_http_on_header and http_request_on_header).             *)

\* parse_uint: -1 for what is no number, or one that is too large
\* Mutant: the last digit may exceed the limit
AddDigitLoose(n, d) == IF n = -1 \/ d >= Base \/ n > MaxLength \div Base THEN -1 ELSE (Base * n) + d
AddDigit(n, d) ==
  IF n = -1 \/ d >= Base \/ n > MaxLength \div Base \/ Base * n > MaxLength - d THEN -1 ELSE (Base * n) + d

ParseUint(digits) == IF digits = <<>> THEN -1 ELSE FoldLeft(AddDigit, 0, digits)

\* A field with characters that may not be is refused or, if it is a regular one, ignored.
BadCharacters(f) == f.spelt # "ok" \/ f.value = "illegal"
Refused(f) == Pseudo(f) \/ f.spelt = "upper"

\* check_pseudo_header, also for host
\* Mutant: a field that is there already is not looked at
SeenOnceOnly(f) == f.value # "empty"
SeenOnce(f) == f.name \notin flags /\ f.value # "empty"

ConnectFlag(f) == IF f.value = "CONNECT" THEN {"CONNECT"} ELSE {}

\* The flags a field that is accepted adds.
FlagsOf(f) ==
  CASE f.name = ":method" -> {f.name} \cup (IF f.value = "OPTIONS" THEN {"OPTIONS"} ELSE ConnectFlag(f))
    [] f.name = ":path" -> {f.name} \cup ({f.value} \cap {"/", "*"})
    [] f.name = ":scheme" -> {f.name} \cup ({f.value} \cap {"http"})
    [] f.name \in {":authority", "host"} -> {f.name}
    [] OTHER -> {}

\* Mutant: CONNECT is not held against what came before it
AcceptableConnect(f) ==
  /\ f.name \notin {":other", "hop-by-hop"}
  /\ f.name \in {":authority", ":method", ":path", ":scheme", "host"} => SeenOnce(f)
  /\ f.name \in {":path", ":scheme"} => "CONNECT" \notin flags
  /\ f.name = "te" => f.value = "trailers"
  /\ f.name = "content-length" => length = -1 /\ ParseUint(f.digits) # -1
Acceptable(f) ==
  /\ f.name \notin {":other", "hop-by-hop"}
  /\ f.name \in {":authority", ":method", ":path", ":scheme", "host"} => SeenOnce(f)
  /\ f.name \in {":path", ":scheme"} => "CONNECT" \notin flags
  /\ f.name = ":method" /\ f.value = "CONNECT" => flags \cap {":path", ":scheme"} = {}
  /\ f.name = "te" => f.value = "trailers"
  /\ f.name = "content-length" => length = -1 /\ ParseUint(f.digits) # -1

\* No pseudo-header field after a regular one, though that one was ignored.
\* Mutant: one that is ignored does not count
OrderAfterIgnored(f) == flags
OrderAfter(f) == flags \cup {"DISALLOWED"}

Reset == phase' = "reset" /\ UNCHANGED <<flags, length, recv>>

OnHeader(f) ==
  IF BadCharacters(f)
  THEN IF Refused(f) THEN Reset
       ELSE flags' = OrderAfter(f) /\ UNCHANGED <<phase, length, recv>>
  ELSE IF (Pseudo(f) /\ (phase = "trailers" \/ "DISALLOWED" \in flags)) \/ ~Acceptable(f) THEN Reset
  ELSE /\ flags' = flags \cup FlagsOf(f) \cup (IF Pseudo(f) THEN {} ELSE {"DISALLOWED"})
       /\ length' = IF f.name = "content-length" THEN ParseUint(f.digits) ELSE length
       /\ UNCHANGED <<phase, recv>>

FieldOfHead(f) ==
  /\ phase = "fields" /\ Len(head) < MaxFields
  /\ head' = Append(head, f) /\ UNCHANGED <<trailer, closed>>
  /\ OnHeader(f)

FieldOfTrailer(f) ==
  /\ phase = "trailers" /\ Len(trailer) < MaxTrailers
  /\ trailer' = Append(trailer, f) /\ UNCHANGED <<head, closed>>
  /\ OnHeader(f)

-----------------------------------------------------------------------------
(* The end of a block, and content.                                         *)

\* nghttp2_http_on_remote_end_stream
\* Mutant: too little content will do
EndRemoteShort(len) == len = -1 \/ recv <= len
EndRemote(len) == len = -1 \/ len = recv

\* check_path
PathFine == "http" \in flags => "/" \in flags \/ ("OPTIONS" \in flags /\ "*" \in flags)

\* nghttp2_http_on_request_headers
\* Mutant: :authority is needed
RequestFineAuthority ==
  IF "CONNECT" \in flags THEN ":authority" \in flags
  ELSE {":method", ":path", ":scheme", ":authority"} \subseteq flags /\ PathFine
RequestFine ==
  IF "CONNECT" \in flags THEN ":authority" \in flags
  ELSE /\ {":method", ":path", ":scheme"} \subseteq flags
       /\ flags \cap {":authority", "host"} # {}
       /\ PathFine

\* Mutant: what CONNECT declares is taken for the length of its content
LengthAfterRequestKept == length
LengthAfterRequest == IF "CONNECT" \in flags THEN -1 ELSE length

\* session_after_header_block_received
EndHeaders(endStream) ==
  /\ phase = "fields" /\ closed' = endStream /\ UNCHANGED <<flags, recv, head, trailer>>
  /\ IF RequestFine /\ (endStream => EndRemote(LengthAfterRequest))
     THEN phase' = (IF endStream THEN "ended" ELSE "content") /\ length' = LengthAfterRequest
     ELSE phase' = "reset" /\ length' = length

BeginTrailers ==
  /\ phase = "content" /\ phase' = "trailers"
  /\ UNCHANGED <<flags, length, recv, head, trailer, closed>>

\* nghttp2_http_on_trailer_headers
EndTrailers(endStream) ==
  /\ phase = "trailers" /\ closed' = endStream
  /\ phase' = IF endStream /\ EndRemote(length) THEN "ended" ELSE "reset"
  /\ UNCHANGED <<flags, length, recv, head, trailer>>

\* nghttp2_http_on_data_chunk.  A chunk that is too much is not handed over.
\* Mutant: the limit is tested before the chunk is added
TooMuchBefore(n) == length # -1 /\ recv > length
TooMuch(n) == length # -1 /\ recv + n > length

DataChunk(n) ==
  /\ phase = "content" /\ recv + n <= MaxContent
  /\ recv' = recv + n
  /\ phase' = IF TooMuch(n) THEN "reset" ELSE phase
  /\ UNCHANGED <<flags, length, head, trailer, closed>>

\* nghttp2_session_on_data_received, with END_STREAM
EndData ==
  /\ phase = "content" /\ closed' = TRUE
  /\ phase' = IF EndRemote(length) THEN "ended" ELSE "reset"
  /\ UNCHANGED <<flags, length, recv, head, trailer>>

Next ==
  \/ \E f \in Peer : FieldOfHead(f) \/ FieldOfTrailer(f)
  \/ \E endStream \in BOOLEAN : EndHeaders(endStream) \/ EndTrailers(endStream)
  \/ BeginTrailers \/ EndData
  \/ \E n \in Chunks : DataChunk(n)

Spec == Init /\ [][Next]_vars

-----------------------------------------------------------------------------
TypeOK ==
  /\ phase \in {"fields", "content", "trailers", "ended", "reset"}
  /\ flags \subseteq {":authority", ":method", ":path", ":scheme", "host", "CONNECT", "OPTIONS", "/", "*",
                      "http", "DISALLOWED"}
  /\ length \in -1..MaxLength /\ recv \in 0..MaxContent
  /\ head \in Seq(Peer) /\ trailer \in Seq(Peer) /\ closed \in BOOLEAN

\* A request the application is told of is well-formed as a whole, in whatever order its
\* fields came; it is handed no more content than the request declared, and one that ends has as
\* much as it declared, in its header or in its trailers (nghttp2_http.c:115, 408, 467, 535).
OnlyWellFormed ==
  /\ phase # "reset" => Rules!Sound(head, trailer)
  /\ phase \in {"content", "trailers", "ended"} => Rules!Complete(head)
  /\ phase = "content" => \A n \in Rules!Lengths(head, trailer) : recv <= n
  /\ phase = "ended" => Rules!Lengths(head, trailer) \subseteq {recv}

\* A stream is reset for its messaging only when the request cannot be well-formed any more:
\* fields that contradict each other, too much content or, at its end, too little, a header that
\* ends without what it needs, or trailers that do not end the stream
\* (nghttp2_http.c:408, 467, 524, 548).
BeyondRepair ==
  \/ ~Rules!Sound(head, trailer)
  \/ \E n \in Rules!Lengths(head, trailer) : recv > n \/ (closed /\ recv < n)
MayReset ==
  \/ BeyondRepair'
  \/ phase = "fields" /\ head' = head /\ ~Rules!Complete(head)
  \/ phase = "trailers" /\ trailer' = trailer /\ ~closed'
ResetForCause == [][phase' = "reset" => MayReset]_vars
=============================================================================
