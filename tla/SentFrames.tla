------------------------------ MODULE SentFrames ------------------------------
(***************************************************************************)
(* What a server may write on an HTTP/2 connection, one whole frame after   *)
(* another (RFC 7540, 3.5, 4.3, 5.1, 6.4, 6.7 and 6.8): OutboundQueue, which *)
(* writes octets, implements it.                                            *)
(***************************************************************************)
EXTENDS Naturals, Sequences, FiniteSetsExt

CONSTANTS Streams, Numbers

VARIABLE sent   \* the frames, in order

\* end: the last frame of a header block, or of a body; n: which PING or SETTINGS of the peer
\* it answers
Frame ==
  [type : {"SETTINGS", "GOAWAY"}, s : {0}, n : {0}, end : {TRUE}]
    \cup [type : {"SETTINGS_ACK", "PING_ACK"}, s : {0}, n : Numbers, end : {TRUE}]
    \cup [type : {"HEADERS", "CONTINUATION", "DATA"}, s : Streams, n : {0}, end : BOOLEAN]
    \cup [type : {"RST_STREAM"}, s : Streams, n : {0}, end : {TRUE}]

Init == sent = <<>>

Before(P(_)) == \E i \in DOMAIN sent : P(sent[i])

\* A header block has been begun and not ended.
InBlock ==
  sent # <<>> /\ sent[Len(sent)].type \in {"HEADERS", "CONTINUATION"} /\ ~sent[Len(sent)].end

OnConnection(f) == f.type \in {"SETTINGS", "GOAWAY"}

Answers(f) ==
  /\ f.type \in {"SETTINGS_ACK", "PING_ACK"}
  /\ ~Before(LAMBDA g : g.type = f.type /\ g.n >= f.n)

Ends(f) == f.type = "RST_STREAM" \/ (f.type = "DATA" /\ f.end)

\* Nothing more of a stream once it has ended or was reset, but a reset, which answers
\* what the peer sent.
OnStream(f) ==
  \/ f.type = "RST_STREAM"
  \/ /\ f.type \in {"HEADERS", "DATA"}
     /\ ~Before(LAMBDA g : g.s = f.s /\ Ends(g))
     /\ f.type = "DATA" <=> Before(LAMBDA g : g.s = f.s /\ g.type = "HEADERS")

Allowed(f) ==
  IF InBlock THEN f.type = "CONTINUATION" /\ f.s = sent[Len(sent)].s
  ELSE IF sent = <<>> THEN f.type = "SETTINGS"
  ELSE OnConnection(f) \/ (~Before(LAMBDA g : g.type = "GOAWAY") /\ (Answers(f) \/ OnStream(f)))

Next == \E f \in Frame : Allowed(f) /\ sent' = Append(sent, f)

Spec == Init /\ [][Next]_sent
=============================================================================
