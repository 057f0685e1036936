---------------------------- MODULE MCInboundFrame ---------------------------
(***************************************************************************)
(* The inbound frame on small instances: short headers and fields, and the  *)
(* connections a peer may send.                                             *)
(***************************************************************************)
EXTENDS InboundFrame

Frame(type, flags, stream, payload) ==
  [type |-> type, flags |-> flags, stream |-> stream, payload |-> payload]

Fill(n) == [i \in 1..n |-> Byte("other", "any")]
Pad(n) == <<Byte("pad", n)>>
B(values) == [i \in DOMAIN values |-> Byte("block", values[i])]
Entry(id, value) == [i \in 1..EntryLength |-> Byte("entry", <<id, value>>)]

Settings == Frame("SETTINGS", {}, 0, <<>>)
Ack == Frame("SETTINGS", {"ACK"}, 0, <<>>)
Ping == Frame("PING", {}, 0, Fill(2 * WordLength))
Request(id) == Frame("HEADERS", {"END_HEADERS", "END_STREAM"}, id, B(<<"whole">>))
Open == Frame("HEADERS", {"END_HEADERS"}, 1, B(<<"whole">>))

\* HEADERS of every layout
HeadersFrames ==
  {Frame("HEADERS", {"END_HEADERS"} \cup flags, id, pad \o pri \o B(block) \o trail) :
     flags \in SUBSET {"END_STREAM"}, id \in {3}, pad \in {<<>>}, pri \in {<<>>}, trail \in {<<>>},
     block \in {<<>>, <<"first", "second">>, <<"whole", "invalid", "first", "second">>,
                <<"whole", "undecodable">>, <<"whole", "first">>}}
  \cup {Frame("HEADERS", {"END_HEADERS", "END_STREAM", "PADDED"}, id,
                 Pad(n) \o B(<<"first", "second">>) \o Fill(n)) :
          n \in 0..2, id \in {1, 3}}
  \cup {Frame("HEADERS", {"END_HEADERS", "PADDED"}, 3, Pad(2) \o B(<<"invalid">>) \o Fill(2)),
        Frame("HEADERS", {"END_HEADERS", "PADDED", "PRIORITY"}, 3,
              Pad(1) \o Fill(PriorityLength) \o B(<<"whole">>) \o Fill(1)),
        Frame("HEADERS", {"END_HEADERS", "PRIORITY"}, 3, Fill(PriorityLength) \o B(<<"whole">>)),
        \* padding beyond the frame, beyond what the priority leaves, no room for either
        Frame("HEADERS", {"END_HEADERS", "PADDED"}, 3, Pad(2) \o B(<<"whole">>)),
        Frame("HEADERS", {"END_HEADERS", "PADDED", "PRIORITY"}, 3, Pad(2) \o Fill(PriorityLength)),
        Frame("HEADERS", {"END_HEADERS", "PADDED", "PRIORITY"}, 3, Pad(0) \o Fill(PriorityLength - 1)),
        Frame("HEADERS", {"END_HEADERS", "PADDED"}, 3, <<>>),
        Frame("HEADERS", {"END_HEADERS", "PRIORITY"}, 3, Fill(PriorityLength - 1)),
        Frame("HEADERS", {"END_HEADERS"}, 3, Fill(MaxFrameSize + 1)),
        Frame("HEADERS", {"END_HEADERS", "END_STREAM"}, 1, B(<<"whole">>)),
        Frame("HEADERS", {"END_HEADERS"}, 1, B(<<"first", "second">>))}

\* What a server takes from no peer
PushFrames ==
  {Frame("PUSH_PROMISE", {"END_HEADERS"}, 1, Fill(WordLength) \o B(<<"first", "second">>)),
   Frame("PUSH_PROMISE", {"END_HEADERS", "PADDED"}, 1, Pad(1) \o Fill(WordLength) \o B(<<"whole">>) \o Fill(1)),
   Frame("PUSH_PROMISE", {"END_HEADERS", "PADDED"}, 1, Pad(2) \o Fill(1)),
   Frame("PUSH_PROMISE", {"END_HEADERS"}, 1, Fill(WordLength - 1))}

\* Frames of the connection on a stream, and those of a stream on none
Misplaced ==
  {Frame("SETTINGS", {}, 1, <<>>), Frame("PING", {}, 1, Fill(2 * WordLength)),
   Frame("GOAWAY", {}, 1, Fill(2 * WordLength)), Frame("RST_STREAM", {}, 0, Fill(WordLength)),
   Frame("PRIORITY", {}, 0, Fill(PriorityLength)), Frame("DATA", {}, 0, <<Byte("data", "in")>>),
   Frame("HEADERS", {"END_HEADERS"}, 0, B(<<"first", "second">>))}

DataFrames ==
  {Frame("DATA", flags, id, [i \in 1..n |-> Byte("data", "in")]) :
     flags \in SUBSET {"END_STREAM"}, id \in {1}, n \in {0, 2}}
  \cup {Frame("DATA", {"PADDED", "END_STREAM"}, 1, Pad(n) \o <<Byte("data", "in")>> \o Fill(n)) : n \in {0, 2}}
  \cup {Frame("DATA", {"PADDED"}, 1, <<>>), Frame("DATA", {"PADDED"}, 1, Pad(2) \o Fill(1)),
        Frame("DATA", {"PADDED"}, 1, Pad(2) \o Fill(2)),
        Frame("DATA", {}, 1, <<Byte("data", "in"), Byte("data", "excess"), Byte("data", "in")>>),
        Frame("DATA", {"PADDED"}, 3, Pad(1) \o Fill(1)), Frame("DATA", {}, 1, Fill(MaxFrameSize + 1))}

OtherFrames ==
  {Ack, Ping, Frame("PING", {"ACK"}, 0, Fill(2 * WordLength)), Frame("PING", {}, 0, Fill(1)),
   Frame("RST_STREAM", {}, 1, Fill(WordLength)), Frame("RST_STREAM", {}, 3, Fill(WordLength)),
   Frame("RST_STREAM", {}, 1, <<>>), Frame("WINDOW_UPDATE", {}, 0, Fill(WordLength)),
   Frame("PRIORITY", {}, 1, Fill(PriorityLength)), Frame("PRIORITY", {}, 1, Fill(PriorityLength + 1)),
   Frame("GOAWAY", {}, 0, Fill(2 * WordLength)), Frame("GOAWAY", {}, 0, Fill(2 * WordLength + 2)),
   Frame("GOAWAY", {}, 0, Fill(WordLength)), Frame("UNKNOWN", {}, 0, Fill(2)),
   Frame("SETTINGS", {}, 0, Fill(EntryLength + 1)), Frame("SETTINGS", {"ACK"}, 0, Entry("UNKNOWN", 0)),
   Frame("SETTINGS", {}, 0, Entry("HEADER_TABLE_SIZE", 2) \o Entry("HEADER_TABLE_SIZE", 0)
                            \o Entry("HEADER_TABLE_SIZE", 1)),
   Frame("SETTINGS", {}, 0, Entry("UNKNOWN", 1) \o Entry("HEADER_TABLE_SIZE", 2) \o Entry("UNKNOWN", 2)),
   Frame("CONTINUATION", {"END_HEADERS"}, 1, B(<<"whole">>))}

Connection(frames) == [magic |-> TRUE, frames |-> frames]

\* One frame of every kind on a connection with an open stream, and one behind it
OneOfEach ==
  {Connection(<<Settings, Open, f, g>>) :
     f \in HeadersFrames \cup PushFrames \cup DataFrames \cup OtherFrames \cup Misplaced,
     g \in {Request(5), Frame("DATA", {"END_STREAM"}, 1, <<>>)}}

\* Header blocks over several frames, interrupted or not
Begun ==
  {Frame("HEADERS", {}, 1, B(block)) : block \in {<<>>, <<"first">>, <<"whole", "invalid">>}}
  \cup {Frame("HEADERS", {"PADDED", "END_STREAM"}, 1, Pad(2) \o B(<<"whole", "first">>) \o Fill(2))}
Continued ==
  {Frame("CONTINUATION", flags, 1, B(block)) :
     flags \in SUBSET {"END_HEADERS"}, block \in {<<>>, <<"second">>, <<"second", "undecodable">>}}
  \cup {Ping, Frame("CONTINUATION", {"END_HEADERS"}, 3, B(<<"second">>)),
        Frame("DATA", {}, 1, Fill(1))}
Split ==
  {Connection(<<Settings, b, c, d, Request(3)>>) : b \in Begun, c \in Continued, d \in Continued}

\* Connections that do not begin as they should
Started ==
  {Connection(<<f, Request(1)>>) : f \in {Settings, Ack, Ping, Request(1),
                                         Frame("SETTINGS", {}, 0, Entry("UNKNOWN", 0))}}
  \cup {[magic |-> FALSE, frames |-> <<Settings>>]}

AllConnections == OneOfEach \cup Started \cup Split
=============================================================================
