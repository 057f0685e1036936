----------------------------- MODULE RequestRules -----------------------------
(***************************************************************************)
(* Which requests are well-formed (RFC 7540, 8.1.2, with the leniency of    *)
(* nghttp2: a regular field with illegal characters is as if it were not    *)
(* there, except that no pseudo-header field may follow it).  This is a     *)
(* statement about whole field lists, which HttpMessaging, reading field by *)
(* field, has to agree with.                                                *)
(***************************************************************************)
EXTENDS Naturals, Sequences, FiniteSets, SequencesExt

CONSTANTS Base, MaxLength   \* of the numbers in content-length

VARIABLES head, trailer   \* the field lists of the request and of its trailers

Names ==
  {":authority", ":method", ":path", ":scheme", ":other", "host", "content-length", "hop-by-hop", "te", "other"}
PseudoNames == {":authority", ":method", ":path", ":scheme", ":other"}

\* digits: the value of content-length, a digit of Base or more being any other character;
\* name: whether the name is "ok", has an "upper" case letter, or another "illegal" character
Fields(values, digits) ==
  [name : Names, spelt : {"ok", "upper", "illegal"}, value : values, digits : digits]

Pseudo(f) == f.name \in PseudoNames
Ignored(f) == ~Pseudo(f) /\ f.spelt # "upper" /\ (f.spelt = "illegal" \/ f.value = "illegal")

Number(digits) == FoldLeft(LAMBDA n, d : Base * n + d, 0, digits)
IsNumber(digits) == digits # <<>> /\ (\A i \in DOMAIN digits : digits[i] < Base) /\ Number(digits) <= MaxLength

\* The fields of a list that count, and those of a name.
Real(list) == {i \in DOMAIN list : ~Ignored(list[i])}
Positions(list, name) == {i \in Real(list) : list[i].name = name}
Has(list, name, value) == \E i \in Positions(list, name) : list[i].value = value
HasName(list, name) == Positions(list, name) # {}

FieldFine(f) ==
  /\ f.spelt = "ok"
  /\ f.name \notin {":other", "hop-by-hop"}
  /\ Pseudo(f) \/ f.name = "host" => f.value \notin {"empty", "illegal"}
  /\ f.name = "te" => f.value = "trailers"
  /\ f.name = "content-length" => IsNumber(f.digits)

Once(h, t, name) == Cardinality(Positions(h, name)) + Cardinality(Positions(t, name)) <= 1

\* What no further field can mend.  The content-length of a CONNECT counts for nothing, not even
\* against another one in the trailers.
Sound(h, t) ==
  /\ \A i \in Real(h) : FieldFine(h[i])
  /\ \A i \in Real(t) : FieldFine(t[i]) /\ ~Pseudo(t[i])
  /\ \A i, j \in DOMAIN h : Pseudo(h[j]) /\ ~Pseudo(h[i]) => j < i
  /\ \A name \in PseudoNames \cup {"host"} : Once(h, t, name)
  /\ Once(IF Has(h, ":method", "CONNECT") THEN <<>> ELSE h, t, "content-length")
  /\ Once(h, <<>>, "content-length")
  /\ Has(h, ":method", "CONNECT") => ~HasName(h, ":path") /\ ~HasName(h, ":scheme")

Complete(h) ==
  IF Has(h, ":method", "CONNECT") THEN HasName(h, ":authority")
  ELSE /\ \A name \in {":method", ":path", ":scheme"} : HasName(h, name)
       /\ HasName(h, ":authority") \/ HasName(h, "host")
       /\ Has(h, ":scheme", "http") =>
            Has(h, ":path", "/") \/ (Has(h, ":path", "*") /\ Has(h, ":method", "OPTIONS"))

\* The lengths that are declared for the content.  CONNECT's own is no length of anything.
Lengths(h, t) ==
  LET of(list) == {Number(list[i].digits) : i \in Positions(list, "content-length")}
  IN (IF Has(h, ":method", "CONNECT") THEN {} ELSE of(h)) \cup of(t)
=============================================================================
