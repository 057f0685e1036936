--------------------------- MODULE UpgradeSettings ---------------------------
(***************************************************************************)
(* The settings of a client that asks for an upgrade: HTTP2-Settings, the   *)
(* payload of a SETTINGS frame in base64url, as the upgrade factory decodes *)
(* it and nghttp2_session_upgrade2 reads it.                                *)
(*                                                                         *)
(* A character is the number it stands for in base64, the last two of which *)
(* are spelt otherwise in base64url, or one of those below.                 *)
(***************************************************************************)
EXTENDS Integers, Sequences, SequencesExt

CONSTANTS
  Payloads,   \* what clients encode
  Others      \* values of the field that no client makes from a payload

VARIABLES
  values,     \* the values of HTTP2-Settings in the request
  payload,    \* the payload the only one of them was made from, or NoPayload
  verdict,    \* "asked", "refused" or, when the processor was made, "upgraded"
  rv,         \* what nghttp2_session_upgrade2 returned: 0, or an error
  iv          \* the entries it read

upgradeVars == <<values, payload, verdict, rv, iv>>

NoPayload == <<-1>>

Plus == 62
Slash == 63
Minus == 64
Underscore == 65
Equals == 66
Invalid == 67

-----------------------------------------------------------------------------
(* The client: RFC 7540, 3.2.1, without the trailing padding.               *)

Url(c) == CASE c = Plus -> Minus [] c = Slash -> Underscore [] OTHER -> c

\* Six bits for each character; those of the last that are left over are zero.
Encode(p) ==
  LET bit(i)  == IF i >= 8 * Len(p) THEN 0 ELSE (p[(i \div 8) + 1] \div 2^(7 - (i % 8))) % 2
      char(i) == FoldLeft(LAMBDA n, b : 2 * n + bit(6 * i + b), 0, <<0, 1, 2, 3, 4, 5>>)
  IN [i \in 1..((8 * Len(p) + 5) \div 6) |-> Url(char(i - 1))]

UpgradeInit ==
  /\ verdict = "asked" /\ rv = 0 /\ iv = <<>>
  /\ \/ payload \in Payloads /\ values = <<Encode(payload)>>
     \/ payload = NoPayload /\ values \in Others

-----------------------------------------------------------------------------
(* The server.                                                              *)

\* Mutant: nothing is appended.
PaddedNot(s) == s
Padded(s) == IF (Len(s) % 4) # 0 THEN s \o [i \in 1..(4 - (Len(s) % 4)) |-> Equals] ELSE s

\* Mutant: only one of the two characters is replaced.
BaseMinus(c) == IF c = Minus THEN Plus ELSE c
Base(c) == CASE c = Minus -> Plus [] c = Underscore -> Slash [] OTHER -> c

Base64urlToBase64(s) == Padded([i \in DOMAIN s |-> Base(s[i])])

\* Data(base64Encoded:) of Foundation, and what it makes of groups of four characters.
Pads(s) == Len(SelectSeq(s, LAMBDA c : c = Equals))
Decodable(s) ==
  /\ Len(s) % 4 = 0 /\ Pads(s) <= 2
  /\ \A i \in DOMAIN s : s[i] \in 0..63 \/ (s[i] = Equals /\ i > Len(s) - Pads(s))
Decode(s) ==
  LET value(c) == IF c = Equals THEN 0 ELSE c
      group(i) == FoldLeft(LAMBDA n, k : 64 * n + value(s[4 * i + k]), 0, <<1, 2, 3, 4>>)
      octet(i) == (group(i \div 3) \div 256^(2 - (i % 3))) % 256
  IN [i \in 1..(3 * (Len(s) \div 4) - Pads(s)) |-> octet(i - 1)]

Number(octets) == FoldLeft(LAMBDA n, o : 256 * n + o, 0, octets)

\* nghttp2_frame_unpack_settings_payload2
Entry(p, i) ==
  [id |-> Number(SubSeq(p, 6 * i - 5, 6 * i - 4)), value |-> Number(SubSeq(p, 6 * i - 3, 6 * i))]
Unpacked(p) == [i \in 1..(Len(p) \div 6) |-> Entry(p, i)]

\* nghttp2_session_upgrade2, whose result HTTP2Session ignores.
Upgrade2(p) ==
  /\ verdict' = "upgraded"
  /\ IF Len(p) % 6 # 0 THEN rv' = -1 /\ iv' = <<>> ELSE rv' = 0 /\ iv' = Unpacked(p)

\* HTTP2ConnectionUpgradeFactory.upgrade
Refuse == verdict' = "refused" /\ UNCHANGED <<rv, iv>>
AskedUpgrade ==
  /\ verdict = "asked" /\ UNCHANGED <<values, payload>>
  /\ \/ Len(values) # 1 /\ Refuse
     \/ /\ Len(values) = 1
        /\ LET s == Base64urlToBase64(values[1])
           IN \/ ~Decodable(s) /\ Refuse
              \/ Decodable(s) /\ Upgrade2(Decode(s))

-----------------------------------------------------------------------------
\* The settings of a client that encodes them as RFC 7540 says are what the session gets, and a
\* payload that is no list of settings reaches it as an error; what is no base64, or not the only
\* value, is refused with the answer to the request (HTTP2ConnectionUpgradeFactory.swift:42-54,
\* HTTP2Utils.swift:21, nghttp2_session.c:7172, nghttp2_frame.c:485).
SettingsUnderstood ==
  /\ payload # NoPayload /\ verdict # "asked" =>
       /\ verdict = "upgraded" /\ (rv = 0) = (Len(payload) % 6 = 0)
       /\ rv = 0 => FlattenSeq([i \in DOMAIN iv |->
            [k \in 1..6 |-> IF k <= 2 THEN (iv[i].id \div 256^(2 - k)) % 256
                            ELSE (iv[i].value \div 256^(6 - k)) % 256]]) = payload
  /\ verdict = "upgraded" =>
       Len(values) = 1 /\ \A i \in DOMAIN values[1] : values[1][i] # Invalid
=============================================================================
