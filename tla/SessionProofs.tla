---------------------------- MODULE SessionProofs ----------------------------
(***************************************************************************)
(* What holds of every session, whatever the identifiers, the limits, the  *)
(* windows and the bodies.                                                  *)
(*                                                                         *)
(* The first part: every operation of the stream table keeps it consistent. *)
(* First come facts about the sequences that hold the elements of a set     *)
(* once each, then one lemma per operation, then what the operations do to  *)
(* the life of a stream: none but OpenIncoming brings one to life, a stream *)
(* marked for reset stays marked, a direction that is shut stays shut, and  *)
(* a stream that has no entry, or an idle one, carries nothing of an        *)
(* earlier life.                                                            *)
(*                                                                         *)
(* The second part: the state stays well typed, the stream table            *)
(* consistent, the announced limit is kept, no window is overdrawn and no  *)
(* DATA item sleeps beside an open window.  One invariant, IInv, carries   *)
(* all of it; it is in two halves, one about the table and one about the   *)
(* rest of the state, and each action keeps either half by a lemma.        *)
(*                                                                         *)
(* The third part is about streams over their whole life: one that was      *)
(* reset or half closed on both sides comes to its end, none dies under the *)
(* application's callback, no request that its client may repeat was        *)
(* delivered, and the map stays small.  The invariant SInv carries it, next *)
(* to IInv; every step that brings no stream to life keeps its parts, and   *)
(* RecvRequest is the one that does.                                       *)
(***************************************************************************)
EXTENDS Session, FiniteSetTheorems, SequenceTheorems, TLAPS

-----------------------------------------------------------------------------
(* The stream table. *)

\* A well-typed table whose structures agree
TableOK(t) == t \in Table /\ TableConsistent(t)

\* No stream was opened between t and u
OpensNone(t, u) ==
  \A x \in StreamIds :
    t.strm[x].st \in {"ABSENT", "IDLE"} => u.strm[x].st \in {"ABSENT", "IDLE"}

\* No stream was opened either, and every stream of u has the window it had in t, or
\* is a new one with window w
Keeps(t, u, w) ==
  /\ u.nIncoming <= t.nIncoming
  /\ OpensNone(t, u)
  /\ \A x \in StreamIds :
       /\ Mapped(u, x) =>
            (Mapped(t, x) /\ u.strm[x].win = t.strm[x].win) \/ u.strm[x].win = w
       /\ u.strm[x].item = "deferred" =>
            t.strm[x].item = "deferred" /\ u.strm[x].win = t.strm[x].win

-----------------------------------------------------------------------------
(* Lists that hold the elements of a set once each. *)

\* An element that is new to the set goes to the tail.
LEMMA ListsAppend ==
  ASSUME NEW U, NEW S \in SUBSET U, NEW q \in Seq(U), Lists(q, S),
         NEW x \in U, x \notin S
  PROVE  Append(q, x) \in Seq(U) /\ Lists(Append(q, x), S \cup {x})
<1> DEFINE r == Append(q, x)
<1>1. /\ r \in Seq(U) /\ Len(r) = Len(q) + 1 /\ r[Len(q) + 1] = x
      /\ \A i \in 1 .. Len(q) : r[i] = q[i]
  BY AppendProperties
<1>2. DOMAIN q = 1 .. Len(q) /\ DOMAIN r = 1 .. Len(q) + 1 /\ Len(q) \in Nat
  BY <1>1, LenProperties
<1>3. \A i \in 1 .. Len(q) : q[i] \in S
  BY <1>2 DEF Lists, ToSet
<1> HIDE DEF r
<1>4. ToSet(r) = S \cup {x}
  <2>1. \A i \in DOMAIN r : r[i] \in S \cup {x}
    BY <1>1, <1>2, <1>3
  <2>2. \A y \in S : \E i \in DOMAIN r : r[i] = y
    BY <1>1, <1>2 DEF Lists, ToSet
  <2>3. r[Len(q) + 1] = x /\ Len(q) + 1 \in DOMAIN r
    BY <1>1, <1>2
  <2> QED BY <2>1, <2>2, <2>3 DEF ToSet
<1>5. IsInjective(r)
  <2> SUFFICES ASSUME NEW i \in DOMAIN r, NEW j \in DOMAIN r, r[i] = r[j] PROVE i = j
    BY DEF IsInjective
  <2>1. \A a, b \in 1 .. Len(q) : q[a] = q[b] => a = b
    BY <1>2 DEF Lists, IsInjective
  <2> QED BY <2>1, <1>1, <1>2, <1>3
<1> QED BY <1>1, <1>4, <1>5 DEF Lists, r

\* The k oldest elements of a list
Oldest(q, k) == {q[i] : i \in 1 .. k}

\* The k oldest elements leave the list and the set.
LEMMA ListsDrop ==
  ASSUME NEW U, NEW S \in SUBSET U, NEW q \in Seq(U), Lists(q, S), NEW k \in 0 .. Len(q)
  PROVE  /\ SubSeq(q, k + 1, Len(q)) \in Seq(U)
         /\ Len(SubSeq(q, k + 1, Len(q))) = Len(q) - k
         /\ Lists(SubSeq(q, k + 1, Len(q)), S \ Oldest(q, k))
<1> DEFINE r == SubSeq(q, k + 1, Len(q))
<1>1. DOMAIN q = 1 .. Len(q) /\ Len(q) \in Nat /\ \A i \in 1 .. Len(q) : q[i] \in U
  BY LenProperties, ElementOfSeq
<1>2. /\ r \in Seq(U) /\ Len(r) = Len(q) - k
      /\ \A i \in 1 .. Len(q) - k : r[i] = q[k + i]
  <2>1. \A i \in k + 1 .. Len(q) : q[i] \in U
    BY <1>1
  <2>2. /\ r \in Seq(U) /\ Len(r) = IF k + 1 <= Len(q) THEN Len(q) - (k + 1) + 1 ELSE 0
        /\ \A i \in 1 .. Len(q) - (k + 1) + 1 : r[i] = q[k + 1 + i - 1]
    BY <1>1, <2>1, SubSeqProperties
  <2> HIDE DEF r
  <2>3. k \in Nat /\ Len(q) \in Nat /\ k <= Len(q)
    BY <1>1
  <2>4. Len(r) = Len(q) - k /\ Len(q) - (k + 1) + 1 = Len(q) - k
    BY <2>2, <2>3
  <2>5. ASSUME NEW i \in 1 .. Len(q) - k PROVE r[i] = q[k + i]
    <3>1. k + 1 + i - 1 = k + i /\ i \in 1 .. Len(q) - (k + 1) + 1
      BY <2>3
    <3>2. r[i] = q[k + 1 + i - 1]
      BY <2>2, <3>1
    <3> QED BY <3>1, <3>2
  <2> QED BY <2>2, <2>4, <2>5
<1>3. DOMAIN r = 1 .. Len(q) - k
  BY <1>2, LenProperties
<1>4. \A a, b \in 1 .. Len(q) : q[a] = q[b] => a = b
  BY <1>1 DEF Lists, IsInjective
<1>5. S = {q[i] : i \in 1 .. Len(q)}
  BY <1>1 DEF Lists, ToSet
<1> HIDE DEF r
<1>6. IsInjective(r)
  <2>1. ASSUME NEW a \in DOMAIN r, NEW b \in DOMAIN r, r[a] = r[b] PROVE a = b
    <3>1. /\ a \in Int /\ b \in Int /\ a \in 1 .. Len(q) - k /\ b \in 1 .. Len(q) - k
          /\ k + a \in 1 .. Len(q) /\ k + b \in 1 .. Len(q)
      BY <1>1, <1>3
    <3>2. q[k + a] = q[k + b]
      BY <1>2, <2>1, <3>1
    <3>3. k + a = k + b
      BY <1>4, <3>1, <3>2
    <3> QED BY <3>1, <3>3
  <2> QED BY <2>1, Zenon DEF IsInjective
<1>7. ToSet(r) = S \ {q[i] : i \in 1 .. k}
  <2>1. ASSUME NEW j \in DOMAIN r PROVE r[j] \in S \ {q[i] : i \in 1 .. k}
    <3>1. j \in Nat /\ k + j \in 1 .. Len(q) /\ r[j] = q[k + j] /\ k + j \notin 1 .. k
      BY <1>1, <1>2, <1>3
    <3>2. \A i \in 1 .. k : q[i] # q[k + j]
      BY <3>1, <1>1, <1>4
    <3> QED BY <3>1, <3>2, <1>5
  <2>2. ASSUME NEW y \in S \ {q[i] : i \in 1 .. k} PROVE \E j \in DOMAIN r : r[j] = y
    <3>1. PICK i \in 1 .. Len(q) : q[i] = y
      BY <1>5
    <3>2. i \notin 1 .. k
      BY <3>1
    <3>3. i - k \in 1 .. Len(q) - k /\ k + (i - k) = i
      BY <3>2, <1>1
    <3> QED BY <3>1, <3>3, <1>2, <1>3
  <2> QED BY <2>1, <2>2 DEF ToSet
<1> QED BY <1>2, <1>6, <1>7 DEF Lists, Oldest, r

\* An element leaves the list and the set.
LEMMA ListsRemove ==
  ASSUME NEW U, NEW S \in SUBSET U, NEW q \in Seq(U), Lists(q, S), NEW x \in S
  PROVE  LET r == RemoveAt(q, CHOOSE i \in 1 .. Len(q) : q[i] = x)
         IN  /\ r \in Seq(U) /\ Lists(r, S \ {x})
<1>1. DOMAIN q = 1 .. Len(q) /\ Len(q) \in Nat /\ \A i \in 1 .. Len(q) : q[i] \in U
  BY LenProperties, ElementOfSeq
<1>2. S = {q[i] : i \in 1 .. Len(q)}
  BY <1>1 DEF Lists, ToSet
<1>3. \A a, b \in 1 .. Len(q) : q[a] = q[b] => a = b
  BY <1>1 DEF Lists, IsInjective
<1> DEFINE c == CHOOSE i \in 1 .. Len(q) : q[i] = x
<1>4. c \in 1 .. Len(q) /\ q[c] = x
  <2>1. \E i \in 1 .. Len(q) : q[i] = x
    BY <1>2
  <2> QED BY <2>1
<1> HIDE DEF c
<1> DEFINE lo == SubSeq(q, 1, c - 1)
           hi == SubSeq(q, c + 1, Len(q))
           r  == lo \o hi
<1>5. /\ lo \in Seq(U) /\ Len(lo) = c - 1 /\ \A i \in 1 .. c - 1 : lo[i] = q[i]
  <2>1. \A i \in 1 .. c - 1 : q[i] \in U
    BY <1>1, <1>4
  <2>2. c - 1 \in Int /\ 1 \in Int
    BY <1>4
  <2>3. /\ lo \in Seq(U) /\ Len(lo) = IF 1 <= c - 1 THEN c - 1 - 1 + 1 ELSE 0
        /\ \A i \in 1 .. c - 1 - 1 + 1 : lo[i] = q[1 + i - 1]
    BY <2>1, <2>2, SubSeqProperties
  <2> HIDE DEF lo
  <2>4. ASSUME NEW i \in 1 .. c - 1 PROVE lo[i] = q[i]
    <3>1. 1 + i - 1 = i /\ i \in 1 .. c - 1 - 1 + 1
      BY <1>4
    <3> QED BY <3>1, <2>3
  <2> QED BY <2>3, <2>4, <1>4
<1>6. /\ hi \in Seq(U) /\ Len(hi) = Len(q) - c /\ \A i \in 1 .. Len(q) - c : hi[i] = q[c + i]
  <2>1. \A i \in c + 1 .. Len(q) : q[i] \in U
    BY <1>1, <1>4
  <2>2. c + 1 \in Int /\ Len(q) \in Int
    BY <1>1, <1>4
  <2>3. /\ hi \in Seq(U) /\ Len(hi) = IF c + 1 <= Len(q) THEN Len(q) - (c + 1) + 1 ELSE 0
        /\ \A i \in 1 .. Len(q) - (c + 1) + 1 : hi[i] = q[c + 1 + i - 1]
    BY <2>1, <2>2, SubSeqProperties
  <2> HIDE DEF hi
  <2>4. ASSUME NEW i \in 1 .. Len(q) - c PROVE hi[i] = q[c + i]
    <3>1. c + 1 + i - 1 = c + i /\ i \in 1 .. Len(q) - (c + 1) + 1
      BY <1>1, <1>4
    <3> QED BY <3>1, <2>3
  <2>5. Len(hi) = Len(q) - c
    <3>1. c \in Nat /\ c <= Len(q) /\ Len(q) \in Nat
      BY <1>1, <1>4
    <3>2. Len(hi) = IF c + 1 <= Len(q) THEN Len(q) - (c + 1) + 1 ELSE 0
      BY <2>3
    <3>3. CASE c = Len(q)
      BY <3>1, <3>2, <3>3
    <3>4. CASE c < Len(q)
      BY <3>1, <3>2, <3>4
    <3> QED BY <3>1, <3>3, <3>4
  <2> QED BY <2>3, <2>4, <2>5
<1> HIDE DEF lo, hi
<1>7. /\ r \in Seq(U) /\ Len(r) = Len(q) - 1
      /\ \A i \in 1 .. Len(q) - 1 : r[i] = IF i < c THEN q[i] ELSE q[i + 1]
  <2>1. /\ r \in Seq(U) /\ Len(r) = Len(lo) + Len(hi)
        /\ \A i \in 1 .. Len(lo) + Len(hi) : r[i] = IF i <= Len(lo) THEN lo[i] ELSE hi[i - Len(lo)]
    BY <1>5, <1>6, ConcatProperties
  <2> HIDE DEF r
  <2>2. Len(lo) + Len(hi) = Len(q) - 1
    BY <1>1, <1>4, <1>5, <1>6
  <2>3. ASSUME NEW i \in 1 .. Len(q) - 1 PROVE r[i] = IF i < c THEN q[i] ELSE q[i + 1]
    <3>1. CASE i < c
      <4>1. i \in 1 .. c - 1 /\ i <= Len(lo)
        BY <3>1, <1>4, <1>5
      <4> QED BY <4>1, <2>1, <2>2, <1>5, <3>1
    <3>2. CASE ~(i < c)
      <4>1. i - (c - 1) \in 1 .. Len(q) - c /\ c + (i - (c - 1)) = i + 1 /\ ~(i <= Len(lo))
        BY <3>2, <1>1, <1>4, <1>5
      <4>2. r[i] = hi[i - (c - 1)]
        BY <4>1, <2>1, <2>2, <1>5
      <4>3. hi[i - (c - 1)] = q[c + (i - (c - 1))]
        BY <4>1, <1>6
      <4> QED BY <4>1, <4>2, <4>3, <3>2
    <3> QED BY <3>1, <3>2
  <2> QED BY <2>1, <2>2, <2>3
<1>8. r = RemoveAt(q, CHOOSE i \in 1 .. Len(q) : q[i] = x)
  BY DEF RemoveAt, c, lo, hi
<1> HIDE DEF r
<1>9. DOMAIN r = 1 .. Len(q) - 1
  BY <1>7, LenProperties
<1>10. IsInjective(r)
  <2> SUFFICES ASSUME NEW i \in 1 .. Len(q) - 1, NEW j \in 1 .. Len(q) - 1, r[i] = r[j]
               PROVE  i = j
    BY <1>9 DEF IsInjective
  <2>1. i \in 1 .. Len(q) /\ j \in 1 .. Len(q) /\ i + 1 \in 1 .. Len(q) /\ j + 1 \in 1 .. Len(q)
    BY <1>1
  <2>2. /\ r[i] = IF i < c THEN q[i] ELSE q[i + 1]
        /\ r[j] = IF j < c THEN q[j] ELSE q[j + 1]
    BY <1>7
  <2>3. CASE i < c /\ j < c
    BY <2>1, <2>2, <2>3, <1>3
  <2>4. CASE ~(i < c) /\ ~(j < c)
    <3>1. i + 1 = j + 1
      BY <2>1, <2>2, <2>4, <1>3
    <3> QED BY <3>1
  <2>5. CASE i < c /\ ~(j < c)
    <3>1. i = j + 1
      BY <2>1, <2>2, <2>5, <1>3
    <3> QED BY <3>1, <2>5, <1>4
  <2>6. CASE ~(i < c) /\ j < c
    <3>1. i + 1 = j
      BY <2>1, <2>2, <2>6, <1>3
    <3> QED BY <3>1, <2>6, <1>4
  <2> QED BY <2>3, <2>4, <2>5, <2>6
<1>11. ToSet(r) = S \ {x}
  <2>1. ASSUME NEW i \in DOMAIN r PROVE r[i] \in S \ {x}
    <3>1. i \in 1 .. Len(q) - 1 /\ i \in 1 .. Len(q) /\ i + 1 \in 1 .. Len(q)
      BY <1>1, <1>9
    <3>2. r[i] = IF i < c THEN q[i] ELSE q[i + 1]
      BY <3>1, <1>7
    <3> QED BY <3>1, <3>2, <1>2, <1>3, <1>4
  <2>2. ASSUME NEW y \in S \ {x} PROVE \E i \in DOMAIN r : r[i] = y
    <3>1. PICK k \in 1 .. Len(q) : q[k] = y
      BY <1>2
    <3>2. k # c
      BY <3>1, <1>4
    <3>3. CASE k < c
      <4>1. k \in 1 .. Len(q) - 1
        BY <3>3, <1>1, <1>4
      <4> QED BY <4>1, <3>1, <3>3, <1>7, <1>9
    <3>4. CASE k > c
      <4>1. k - 1 \in 1 .. Len(q) - 1 /\ ~(k - 1 < c) /\ k - 1 + 1 = k
        BY <3>4, <1>1, <1>4
      <4>2. r[k - 1] = q[k]
        BY <4>1, <1>7
      <4> QED BY <4>1, <4>2, <3>1, <1>9
    <3> QED BY <3>2, <3>3, <3>4, <1>4
  <2> QED BY <2>1, <2>2 DEF ToSet
<1> QED BY <1>7, <1>8, <1>10, <1>11 DEF Lists

\* A list of other elements is appended.
LEMMA ListsConcat ==
  ASSUME NEW U, NEW S \in SUBSET U, NEW q \in Seq(U), Lists(q, S),
         NEW R \in SUBSET U, NEW p \in Seq(U), Lists(p, R), S \cap R = {}
  PROVE  q \o p \in Seq(U) /\ Lists(q \o p, S \cup R)
<1> DEFINE r == q \o p
<1>1. /\ r \in Seq(U) /\ Len(r) = Len(q) + Len(p)
      /\ \A i \in 1 .. Len(q) + Len(p) : r[i] = IF i <= Len(q) THEN q[i] ELSE p[i - Len(q)]
  BY ConcatProperties
<1>2. /\ DOMAIN q = 1 .. Len(q) /\ Len(q) \in Nat /\ DOMAIN p = 1 .. Len(p) /\ Len(p) \in Nat
      /\ DOMAIN r = 1 .. Len(q) + Len(p)
  BY <1>1, LenProperties
<1> HIDE DEF r
<1>3. /\ S = {q[i] : i \in 1 .. Len(q)} /\ R = {p[i] : i \in 1 .. Len(p)}
      /\ \A a, b \in 1 .. Len(q) : q[a] = q[b] => a = b
      /\ \A a, b \in 1 .. Len(p) : p[a] = p[b] => a = b
  BY <1>2 DEF Lists, ToSet, IsInjective
<1>4. \A i \in 1 .. Len(q) : r[i] = q[i] /\ i \in DOMAIN r
  BY <1>1, <1>2
<1>5. \A i \in DOMAIN r : i \notin 1 .. Len(q) => i - Len(q) \in 1 .. Len(p) /\ r[i] = p[i - Len(q)]
  BY <1>1, <1>2
<1>6. IsInjective(r)
  <2> SUFFICES ASSUME NEW i \in DOMAIN r, NEW j \in DOMAIN r, r[i] = r[j] PROVE i = j
    BY DEF IsInjective
  <2>1. i \in Int /\ j \in Int
    BY <1>2
  <2>2. ASSUME NEW a \in 1 .. Len(q), NEW b \in 1 .. Len(p) PROVE q[a] # p[b]
    <3>1. q[a] \in S /\ p[b] \in R
      BY <1>3
    <3> QED BY <3>1
  <2>3. CASE i \in 1 .. Len(q) /\ j \in 1 .. Len(q)
    BY <2>3, <1>3, <1>4
  <2>4. CASE i \notin 1 .. Len(q) /\ j \notin 1 .. Len(q)
    <3>1. i - Len(q) = j - Len(q)
      BY <2>4, <1>3, <1>5
    <3> QED BY <3>1, <2>1, <1>2
  <2>5. CASE i \in 1 .. Len(q) /\ j \notin 1 .. Len(q)
    BY <2>2, <2>5, <1>4, <1>5
  <2>6. CASE i \notin 1 .. Len(q) /\ j \in 1 .. Len(q)
    BY <2>2, <2>6, <1>4, <1>5
  <2> QED BY <2>3, <2>4, <2>5, <2>6
<1>7. ToSet(r) = S \cup R
  <2>1. ASSUME NEW i \in DOMAIN r PROVE r[i] \in S \cup R
    BY <1>3, <1>4, <1>5
  <2>2. ASSUME NEW y \in S PROVE \E i \in DOMAIN r : r[i] = y
    BY <1>3, <1>4
  <2>3. ASSUME NEW y \in R PROVE \E i \in DOMAIN r : r[i] = y
    <3>1. PICK k \in 1 .. Len(p) : p[k] = y
      BY <1>3
    <3>2. k + Len(q) \in DOMAIN r /\ k + Len(q) \notin 1 .. Len(q) /\ k + Len(q) - Len(q) = k
      BY <1>2
    <3> QED BY <3>1, <3>2, <1>5
  <2> QED BY <2>1, <2>2, <2>3 DEF ToSet
<1> QED BY <1>1, <1>6, <1>7 DEF Lists, r

-----------------------------------------------------------------------------
(* What kind of stream each identifier stands for. *)

\* The live streams can be counted.
LEMMA LiveSetFinite ==
  ASSUME NEW t
  PROVE  IsFiniteSet(LiveSet(t)) /\ Cardinality(LiveSet(t)) \in Nat
<1>1. LiveSet(t) \in SUBSET StreamIds
  BY DEF LiveSet
<1> QED BY <1>1, StreamIdsAssumption, FS_Subset, FS_CardinalityType

\* No stream changes its kind between t and u
SameKind(t, u) ==
  \A x \in StreamIds :
    /\ u.strm[x].closed = t.strm[x].closed
    /\ u.strm[x].st = "ABSENT" <=> t.strm[x].st = "ABSENT"
    /\ u.strm[x].st = "IDLE" <=> t.strm[x].st = "IDLE"

\* A table in which no stream changed its kind is as consistent as before.
LEMMA SameKindOK ==
  ASSUME NEW t, TableOK(t), NEW u, u \in Table, SameKind(t, u),
         u.closedQ = t.closedQ, u.idleQ = t.idleQ, u.nIncoming = t.nIncoming
  PROVE  TableOK(u)
<1>1. ClosedSet(u) = ClosedSet(t) /\ IdleSet(u) = IdleSet(t) /\ LiveSet(u) = LiveSet(t)
  BY DEF SameKind, ClosedSet, IdleSet, LiveSet, Live
<1> QED BY <1>1 DEF TableOK, TableConsistent, SameKind

\* nghttp2_stream_init makes a well-typed stream.
LEMMA NewStreamType ==
  ASSUME NEW st \in States, NEW w \in Windows
  PROVE  /\ NewStream(st, w) \in Stream /\ NewStream(st, w).st = st
         /\ ~NewStream(st, w).closed /\ NewStream(st, w).win = w
         /\ ~NewStream(st, w).rd /\ ~NewStream(st, w).wr /\ NewStream(st, w).item = "none"
BY DEF NewStream, Stream

\* The entry that stands for no stream is well typed.
LEMMA NoStreamType ==
  /\ NoStream \in Stream /\ NoStream.st = "ABSENT" /\ ~NoStream.closed
  /\ NoStream.win = 0 /\ NoStream.item = "none"
<1>1. "ABSENT" \in States /\ 0 \in Windows
  BY MaxWindowAssumption DEF States, Windows
<1> QED BY <1>1, NewStreamType DEF NoStream

\* session_new makes a consistent table with no stream.
LEMMA EmptyTableOK == TableOK(EmptyTable) /\ LiveSet(EmptyTable) = {} /\ EmptyTable.nIncoming = 0
<1>1. EmptyTable \in Table
  BY NoStreamType, EmptySeq DEF EmptyTable, Table
<1>2. ClosedSet(EmptyTable) = {} /\ IdleSet(EmptyTable) = {} /\ LiveSet(EmptyTable) = {}
  BY NoStreamType DEF EmptyTable, ClosedSet, IdleSet, LiveSet, Live
<1>3. Lists(<< >>, {})
  BY DEF Lists, ToSet, IsInjective
<1> QED BY <1>1, <1>2, <1>3, NoStreamType, FS_EmptySet DEF TableOK, TableConsistent, EmptyTable

-----------------------------------------------------------------------------
(* Opening streams. *)

\* An idle anchor goes into the map and to the tail of the idle list.
LEMMA CreateIdleOK ==
  ASSUME NEW t, TableOK(t), NEW s \in StreamIds, ~Mapped(t, s), NEW w \in Windows
  PROVE  TableOK(CreateIdle(t, s, w)) /\ Keeps(t, CreateIdle(t, s, w), w)
<1> DEFINE u == CreateIdle(t, s, w)
           n == NewStream("IDLE", w)
<1>1. n \in Stream /\ n.st = "IDLE" /\ ~n.closed /\ n.win = w /\ n.item = "none"
  BY NewStreamType DEF States
<1>2. t.strm \in [StreamIds -> Stream] /\ t.idleQ \in Seq(StreamIds) /\ t.closedQ \in Seq(StreamIds)
  BY DEF TableOK, Table
<1>3. s \notin IdleSet(t) /\ s \notin ClosedSet(t) /\ s \notin LiveSet(t)
  BY DEF TableOK, TableConsistent, Mapped, IdleSet, ClosedSet, LiveSet, Live
<1>4. /\ Append(t.idleQ, s) \in Seq(StreamIds)
      /\ Lists(Append(t.idleQ, s), IdleSet(t) \cup {s})
  <2>1. IdleSet(t) \in SUBSET StreamIds /\ Lists(t.idleQ, IdleSet(t))
    BY DEF TableOK, TableConsistent, IdleSet
  <2> QED BY <2>1, <1>2, <1>3, ListsAppend
<1> HIDE DEF n
<1>5. /\ u \in Table /\ u.strm = [t.strm EXCEPT ![s] = n] /\ u.idleQ = Append(t.idleQ, s)
      /\ u.closedQ = t.closedQ /\ u.nIncoming = t.nIncoming
  BY <1>1, <1>2, <1>4 DEF CreateIdle, TableOK, Table, n
<1> HIDE DEF u
<1>6. u.strm[s] = n /\ \A x \in StreamIds \ {s} : u.strm[x] = t.strm[x]
  BY <1>2, <1>5
<1>7. ~Live(u, s)
  BY <1>1, <1>6 DEF Live
<1>8. ClosedSet(u) = ClosedSet(t) /\ IdleSet(u) = IdleSet(t) \cup {s} /\ LiveSet(u) = LiveSet(t)
  <2>1. /\ ClosedSet(u) = ClosedSet(t) \ {s} /\ IdleSet(u) = IdleSet(t) \cup {s}
        /\ LiveSet(u) = LiveSet(t) \ {s}
    <3>1. /\ \A x \in StreamIds \ {s} : u.strm[x] = t.strm[x]
          /\ u.strm[s].st = "IDLE" /\ ~u.strm[s].closed
      BY <1>1, <1>6
    <3>2. ClosedSet(u) = ClosedSet(t) \ {s}
      BY <3>1 DEF ClosedSet
    <3>3. IdleSet(u) = IdleSet(t) \cup {s}
      BY <3>1 DEF IdleSet
    <3>4. LiveSet(u) = LiveSet(t) \ {s}
      BY <3>1, <1>7 DEF LiveSet, Live
    <3> QED BY <3>2, <3>3, <3>4
  <2> QED BY <2>1, <1>3
<1>9. TableConsistent(u)
  BY <1>1, <1>4, <1>5, <1>6, <1>8 DEF TableOK, TableConsistent
<1>10. Keeps(t, u, w)
  <2>1. u.nIncoming <= t.nIncoming
    BY <1>5 DEF TableOK, Table
  <2> QED BY <2>1, <1>1, <1>6 DEF Keeps, OpensNone, Mapped
<1> QED BY <1>5, <1>9, <1>10 DEF TableOK, u

\* A table that is left alone keeps everything.
LEMMA KeepsReflexive ==
  ASSUME NEW t, TableOK(t), NEW w
  PROVE  Keeps(t, t, w)
BY DEF Keeps, OpensNone, TableOK, Table

\* Two operations that each keep everything keep it together.
LEMMA KeepsTransitive ==
  ASSUME NEW t, NEW u, NEW v, NEW w, TableOK(t), TableOK(u), TableOK(v),
         Keeps(t, u, w), Keeps(u, v, w)
  PROVE  Keeps(t, v, w)
<1>1. v.nIncoming <= t.nIncoming
  BY DEF Keeps, OpensNone, TableOK, Table
<1> QED BY <1>1 DEF Keeps, OpensNone

\* A dependency on an unmapped stream creates an idle anchor at most.
LEMMA AnchorDependencyOK ==
  ASSUME NEW t, TableOK(t), NEW d \in StreamIds \cup {0}, NEW w \in Windows, NEW l
  PROVE  /\ TableOK(AnchorDependency(t, d, w, l))
         /\ Keeps(t, AnchorDependency(t, d, w, l), w)
<1>1. CASE d # 0 /\ ~Mapped(t, d) /\ DetectIdle(d, l)
  BY <1>1, CreateIdleOK DEF AnchorDependency
<1>2. CASE ~(d # 0 /\ ~Mapped(t, d) /\ DetectIdle(d, l))
  BY <1>2, KeepsReflexive DEF AnchorDependency
<1> QED BY <1>1, <1>2

\* Anchoring a dependency maps no stream but the dependency.
LEMMA AnchorDependencyOthers ==
  ASSUME NEW t, TableOK(t), NEW d, NEW w, NEW l, NEW s \in StreamIds, s # d
  PROVE  AnchorDependency(t, d, w, l).strm[s] = t.strm[s]
<1>1. t.strm \in [StreamIds -> Stream]
  BY DEF TableOK, Table
<1>2. CreateIdle(t, d, w).strm[s] = t.strm[s]
  <2>1. t = [strm |-> t.strm, closedQ |-> t.closedQ, idleQ |-> t.idleQ,
             nIncoming |-> t.nIncoming]
    BY DEF TableOK, Table
  <2>2. CreateIdle(t, d, w).strm = [t.strm EXCEPT ![d] = NewStream("IDLE", w)]
    BY <2>1 DEF CreateIdle
  <2> QED BY <1>1, <2>2
<1> QED BY <1>2 DEF AnchorDependency

\* The one operation that opens a stream adds one to the counter.
LEMMA OpenIncomingOK ==
  ASSUME NEW t, TableOK(t), NEW s \in StreamIds, t.strm[s].st \in {"ABSENT", "IDLE"},
         NEW w \in Windows
  PROVE  LET u == OpenIncoming(t, s, w)
         IN  /\ TableOK(u) /\ u.nIncoming = t.nIncoming + 1
             /\ \A x \in StreamIds \ {s} : u.strm[x] = t.strm[x]
             /\ \/ /\ Mapped(t, s) /\ u.strm[s].win = t.strm[s].win
                   /\ u.strm[s].item = t.strm[s].item
                \/ u.strm[s].win = w /\ u.strm[s].item = "none"
<1> DEFINE idle == t.strm[s].st = "IDLE"
           n == IF idle THEN [t.strm[s] EXCEPT !.st = "OPENING"] ELSE NewStream("OPENING", w)
           q == IF idle THEN RemoveAt(t.idleQ, CHOOSE i \in 1 .. Len(t.idleQ) : t.idleQ[i] = s)
                        ELSE t.idleQ
           u == OpenIncoming(t, s, w)
<1>1. /\ t.strm \in [StreamIds -> Stream] /\ t.idleQ \in Seq(StreamIds)
      /\ t.closedQ \in Seq(StreamIds) /\ t.nIncoming \in Int /\ t.strm[s] \in Stream
  BY DEF TableOK, Table
<1>2. ~t.strm[s].closed /\ s \notin ClosedSet(t) /\ s \notin LiveSet(t)
  BY DEF TableOK, TableConsistent, ClosedSet, LiveSet, Live
<1>3. n \in Stream /\ n.st = "OPENING" /\ ~n.closed
  <2>1. CASE idle
    BY <2>1, <1>1, <1>2 DEF Stream, States
  <2>2. CASE ~idle
    BY <2>2, NewStreamType DEF States
  <2> QED BY <2>1, <2>2
<1>4. \/ n.win = t.strm[s].win /\ n.item = t.strm[s].item /\ Mapped(t, s)
      \/ n.win = w /\ n.item = "none"
  <2>1. CASE idle
    BY <2>1, <1>1 DEF Stream, Mapped
  <2>2. CASE ~idle
    BY <2>2, NewStreamType DEF States
  <2> QED BY <2>1, <2>2
<1>5. q \in Seq(StreamIds) /\ Lists(q, IdleSet(t) \ {s})
  <2>1. IdleSet(t) \in SUBSET StreamIds /\ Lists(t.idleQ, IdleSet(t))
    BY DEF TableOK, TableConsistent, IdleSet
  <2>2. CASE idle
    <3>1. s \in IdleSet(t)
      BY <2>2 DEF IdleSet
    <3> QED BY <3>1, <2>1, <2>2, <1>1, ListsRemove
  <2>3. CASE ~idle
    <3>1. IdleSet(t) \ {s} = IdleSet(t)
      BY <2>3 DEF IdleSet
    <3> QED BY <3>1, <2>1, <2>3, <1>1
  <2> QED BY <2>2, <2>3
<1>6. /\ u.strm = [t.strm EXCEPT ![s] = n] /\ u.idleQ = q
      /\ u.closedQ = t.closedQ /\ u.nIncoming = t.nIncoming + 1
      /\ u \in Table
  <2>1. u = [strm |-> [t.strm EXCEPT ![s] = n], closedQ |-> t.closedQ, idleQ |-> q,
             nIncoming |-> t.nIncoming + 1]
    <3>1. t = [strm |-> t.strm, closedQ |-> t.closedQ, idleQ |-> t.idleQ,
               nIncoming |-> t.nIncoming]
      BY DEF TableOK, Table
    <3>2. CASE idle
      <4> DEFINE r == [strm |-> t.strm, closedQ |-> t.closedQ, idleQ |-> q,
                       nIncoming |-> t.nIncoming]
      <4>1. DetachIdle(t, s) = r
        BY <3>1, <3>2 DEF DetachIdle
      <4>2. u = [r EXCEPT !.strm[s] = n, !.nIncoming = @ + 1]
        BY <3>2, <4>1 DEF OpenIncoming
      <4> HIDE DEF n, q, u
      <4> QED BY <4>2
    <3>3. CASE ~idle
      <4>1. u = [t EXCEPT !.strm[s] = n, !.nIncoming = @ + 1] /\ q = t.idleQ
        BY <3>3 DEF OpenIncoming
      <4> HIDE DEF n, q, u
      <4> QED BY <4>1, <3>1
    <3> QED BY <3>2, <3>3
  <2> HIDE DEF n, q, u
  <2>2. [t.strm EXCEPT ![s] = n] \in [StreamIds -> Stream]
    BY <1>1, <1>3
  <2> QED BY <2>1, <2>2, <1>1, <1>5 DEF Table
<1> HIDE DEF idle, n, q, u
<1>7. u.strm[s] = n /\ \A x \in StreamIds \ {s} : u.strm[x] = t.strm[x]
  BY <1>1, <1>6
<1>8. /\ ClosedSet(u) = ClosedSet(t) /\ IdleSet(u) = IdleSet(t) \ {s}
      /\ LiveSet(u) = LiveSet(t) \cup {s}
  <2>1. /\ ClosedSet(u) = IF u.strm[s].closed THEN ClosedSet(t) \cup {s} ELSE ClosedSet(t) \ {s}
        /\ IdleSet(u) = IF u.strm[s].st = "IDLE" THEN IdleSet(t) \cup {s} ELSE IdleSet(t) \ {s}
        /\ LiveSet(u) = IF Live(u, s) THEN LiveSet(t) \cup {s} ELSE LiveSet(t) \ {s}
    <3>1. \A x \in StreamIds \ {s} : u.strm[x] = t.strm[x]
      BY <1>7
    <3> QED BY <3>1 DEF ClosedSet, IdleSet, LiveSet, Live
  <2>2. Live(u, s)
    BY <1>3, <1>7 DEF Live
  <2> QED BY <2>1, <2>2, <1>2, <1>3, <1>7
<1>9. u.nIncoming = Cardinality(LiveSet(u))
  <2>1. IsFiniteSet(LiveSet(t)) /\ t.nIncoming = Cardinality(LiveSet(t))
    BY LiveSetFinite DEF TableOK, TableConsistent
  <2>2. Cardinality(LiveSet(t) \cup {s}) = Cardinality(LiveSet(t)) + 1
    BY <2>1, <1>2, FS_AddElement
  <2> QED BY <2>1, <2>2, <1>6, <1>8
<1>10. \A x \in StreamIds : u.strm[x].closed => u.strm[x].st \notin {"ABSENT", "IDLE"}
  BY <1>3, <1>7 DEF TableOK, TableConsistent
<1>11. TableOK(u)
  BY <1>5, <1>6, <1>8, <1>9, <1>10 DEF TableOK, TableConsistent
<1> QED BY <1>4, <1>6, <1>7, <1>11 DEF u

-----------------------------------------------------------------------------
(* Operations on one stream of the table. *)

\* Stream s changes, but neither its kind nor its window.
LEMMA PointKeeps ==
  ASSUME NEW t, TableOK(t), NEW s \in StreamIds, NEW r \in Stream,
         r.closed = t.strm[s].closed, r.win = t.strm[s].win,
         r.st = "ABSENT" <=> t.strm[s].st = "ABSENT",
         r.st = "IDLE" <=> t.strm[s].st = "IDLE",
         r.item = "deferred" => t.strm[s].item = "deferred",
         NEW u, u = [t EXCEPT !.strm[s] = r], NEW w
  PROVE  TableOK(u) /\ Keeps(t, u, w)
<1>1. /\ t = [strm |-> t.strm, closedQ |-> t.closedQ, idleQ |-> t.idleQ,
              nIncoming |-> t.nIncoming]
      /\ t.strm \in [StreamIds -> Stream] /\ t.nIncoming \in Int
      /\ t.closedQ \in Seq(StreamIds) /\ t.idleQ \in Seq(StreamIds)
  BY DEF TableOK, Table
<1>2. /\ u.strm = [t.strm EXCEPT ![s] = r] /\ u.closedQ = t.closedQ
      /\ u.idleQ = t.idleQ /\ u.nIncoming = t.nIncoming
      /\ u = [strm |-> u.strm, closedQ |-> u.closedQ, idleQ |-> u.idleQ,
              nIncoming |-> u.nIncoming]
  BY <1>1
<1>3. u.strm \in [StreamIds -> Stream] /\ u.strm[s] = r
  BY <1>1, <1>2
<1>4. \A x \in StreamIds \ {s} : u.strm[x] = t.strm[x]
  BY <1>1, <1>2
<1>5. u \in Table
  BY <1>1, <1>2, <1>3 DEF Table
<1>6. TableOK(u)
  <2>1. SameKind(t, u)
    BY <1>3, <1>4 DEF SameKind
  <2> QED BY <2>1, <1>2, <1>5, SameKindOK
<1>7. u.nIncoming <= t.nIncoming
  BY <1>1, <1>2
<1> QED BY <1>3, <1>4, <1>6, <1>7 DEF Keeps, OpensNone, Mapped

\* nghttp2_stream_shutdown for reading.
LEMMA ShutRdOK ==
  ASSUME NEW t, TableOK(t), NEW s \in StreamIds, NEW w
  PROVE  TableOK(ShutRd(t, s)) /\ Keeps(t, ShutRd(t, s), w)
<1> DEFINE r == [t.strm[s] EXCEPT !.rd = TRUE]
<1>1. t.strm[s] \in Stream
  BY DEF TableOK, Table
<1>2. /\ r \in Stream /\ r.closed = t.strm[s].closed /\ r.win = t.strm[s].win
      /\ r.st = t.strm[s].st /\ r.item = t.strm[s].item
  BY <1>1 DEF Stream
<1>3. ShutRd(t, s) = [t EXCEPT !.strm[s] = r]
  BY DEF ShutRd
<1> HIDE DEF r
<1> QED BY <1>2, <1>3, PointKeeps

\* nghttp2_stream_shutdown for writing.
LEMMA ShutWrOK ==
  ASSUME NEW t, TableOK(t), NEW s \in StreamIds, NEW w
  PROVE  TableOK(ShutWr(t, s)) /\ Keeps(t, ShutWr(t, s), w)
<1> DEFINE r == [t.strm[s] EXCEPT !.wr = TRUE]
<1>1. t.strm[s] \in Stream
  BY DEF TableOK, Table
<1>2. /\ r \in Stream /\ r.closed = t.strm[s].closed /\ r.win = t.strm[s].win
      /\ r.st = t.strm[s].st /\ r.item = t.strm[s].item
  BY <1>1 DEF Stream
<1>3. ShutWr(t, s) = [t EXCEPT !.strm[s] = r]
  BY DEF ShutWr
<1> HIDE DEF r
<1> QED BY <1>2, <1>3, PointKeeps

\* A stream is marked for reset.
LEMMA MarkClosingOK ==
  ASSUME NEW t, TableOK(t), NEW s \in StreamIds, NEW w
  PROVE  TableOK(MarkClosing(t, s)) /\ Keeps(t, MarkClosing(t, s), w)
<1>1. CASE ~Live(t, s)
  BY <1>1, KeepsReflexive DEF MarkClosing
<1>2. CASE Live(t, s)
  <2> DEFINE r == [t.strm[s] EXCEPT !.st = "CLOSING"]
  <2>1. t.strm[s] \in Stream /\ t.strm[s].st \notin {"ABSENT", "IDLE"}
    BY <1>2 DEF TableOK, Table, Live
  <2>2. /\ r \in Stream /\ r.closed = t.strm[s].closed /\ r.win = t.strm[s].win
        /\ r.st = "CLOSING" /\ r.item = t.strm[s].item
    BY <2>1 DEF Stream, States
  <2>3. MarkClosing(t, s) = [t EXCEPT !.strm[s] = r]
    BY <1>2 DEF MarkClosing
  <2> HIDE DEF r
  <2> QED BY <2>1, <2>2, <2>3, PointKeeps
<1> QED BY <1>1, <1>2

\* An item that is dropped, or queued again.
LEMMA SetItemOK ==
  ASSUME NEW t, TableOK(t), NEW s \in StreamIds, NEW i \in {"none", "active"}, NEW w
  PROVE  TableOK(SetItem(t, s, i)) /\ Keeps(t, SetItem(t, s, i), w)
<1> DEFINE r == [t.strm[s] EXCEPT !.item = i]
<1>1. t.strm[s] \in Stream
  BY DEF TableOK, Table
<1>2. /\ r \in Stream /\ r.closed = t.strm[s].closed /\ r.win = t.strm[s].win
      /\ r.st = t.strm[s].st /\ r.item = i
  BY <1>1 DEF Stream
<1>3. SetItem(t, s, i) = [t EXCEPT !.strm[s] = r]
  BY DEF SetItem
<1> HIDE DEF r
<1> QED BY <1>2, <1>3, PointKeeps

\* A closed stream moves from the count of live streams to the closed list.
LEMMA CloseStreamOK ==
  ASSUME NEW t, TableOK(t), NEW s \in StreamIds, NEW w
  PROVE  TableOK(CloseStream(t, s)) /\ Keeps(t, CloseStream(t, s), w)
<1>1. CASE ~Live(t, s)
  BY <1>1, KeepsReflexive DEF CloseStream
<1>2. CASE Live(t, s)
  <2> DEFINE r == [t.strm[s] EXCEPT !.closed = TRUE, !.item = "none"]
             u == CloseStream(t, s)
  <2>1. /\ t = [strm |-> t.strm, closedQ |-> t.closedQ, idleQ |-> t.idleQ,
                nIncoming |-> t.nIncoming]
        /\ t.strm \in [StreamIds -> Stream] /\ t.nIncoming \in Int
        /\ t.closedQ \in Seq(StreamIds) /\ t.idleQ \in Seq(StreamIds)
        /\ t.strm[s] \in Stream /\ t.strm[s].st \notin {"ABSENT", "IDLE"}
    BY <1>2 DEF TableOK, Table, Live
  <2>2. /\ r \in Stream /\ r.closed /\ r.win = t.strm[s].win
        /\ r.st = t.strm[s].st /\ r.item = "none"
    BY <2>1 DEF Stream
  <2>3. s \in LiveSet(t) /\ s \notin ClosedSet(t) /\ s \notin IdleSet(t)
    BY <1>2 DEF LiveSet, Live, ClosedSet, IdleSet
  <2>4. /\ Append(t.closedQ, s) \in Seq(StreamIds)
        /\ Lists(Append(t.closedQ, s), ClosedSet(t) \cup {s})
    <3>1. ClosedSet(t) \in SUBSET StreamIds /\ Lists(t.closedQ, ClosedSet(t))
      BY DEF TableOK, TableConsistent, ClosedSet
    <3> QED BY <3>1, <2>1, <2>3, ListsAppend
  <2>5. u = [t EXCEPT !.strm[s] = r, !.nIncoming = @ - 1, !.closedQ = Append(@, s)]
    BY <1>2, <2>1 DEF CloseStream
  <2> HIDE DEF r, u
  <2>6. u = [strm |-> [t.strm EXCEPT ![s] = r], closedQ |-> Append(t.closedQ, s),
             idleQ |-> t.idleQ, nIncoming |-> t.nIncoming - 1]
    BY <2>1, <2>5
  <2>7. u \in Table /\ u.strm[s] = r /\ \A x \in StreamIds \ {s} : u.strm[x] = t.strm[x]
    BY <2>1, <2>2, <2>4, <2>6 DEF Table
  <2>8. /\ ClosedSet(u) = ClosedSet(t) \cup {s} /\ IdleSet(u) = IdleSet(t)
        /\ LiveSet(u) = LiveSet(t) \ {s}
    <3>1. u.strm[s].closed /\ u.strm[s].st # "IDLE"
      BY <2>1, <2>2, <2>7
    <3>2. \A x \in StreamIds \ {s} : u.strm[x] = t.strm[x]
      BY <2>7
    <3> QED BY <3>1, <3>2, <2>3 DEF ClosedSet, IdleSet, LiveSet, Live
  <2>9. u.nIncoming = Cardinality(LiveSet(u))
    <3>1. IsFiniteSet(LiveSet(t)) /\ t.nIncoming = Cardinality(LiveSet(t))
      BY LiveSetFinite DEF TableOK, TableConsistent
    <3>2. Cardinality(LiveSet(t) \ {s}) = Cardinality(LiveSet(t)) - 1
      BY <3>1, <2>3, FS_RemoveElement
    <3> QED BY <3>1, <3>2, <2>6, <2>8
  <2>10. TableOK(u)
    <3>1. \A x \in StreamIds : u.strm[x].closed => u.strm[x].st \notin {"ABSENT", "IDLE"}
      BY <2>1, <2>2, <2>7 DEF TableOK, TableConsistent
    <3> QED BY <3>1, <2>4, <2>6, <2>7, <2>8, <2>9 DEF TableOK, TableConsistent
  <2>11. u.nIncoming <= t.nIncoming
    BY <2>1, <2>6
  <2>12. Keeps(t, u, w)
    BY <2>1, <2>2, <2>7, <2>11 DEF Keeps, OpensNone, Mapped
  <2> QED BY <2>10, <2>12 DEF u
<1> QED BY <1>1, <1>2

\* nghttp2_session_close_stream_if_shut_rdwr.
LEMMA CloseIfShutOK ==
  ASSUME NEW t, TableOK(t), NEW s \in StreamIds, NEW w
  PROVE  TableOK(CloseIfShut(t, s)) /\ Keeps(t, CloseIfShut(t, s), w)
BY CloseStreamOK, KeepsReflexive DEF CloseIfShut

-----------------------------------------------------------------------------
(* Operations on the lists. *)

\* Destroying the oldest streams of a list unmaps exactly those.
LEMMA DestroyOldestType ==
  ASSUME NEW strm \in [StreamIds -> Stream], NEW q \in Seq(StreamIds), NEW k \in 0 .. Len(q)
  PROVE  /\ DestroyOldest(strm, q, k) \in [StreamIds -> Stream]
         /\ \A x \in StreamIds :
              DestroyOldest(strm, q, k)[x] = IF x \in Oldest(q, k) THEN NoStream ELSE strm[x]
BY NoStreamType DEF DestroyOldest, Oldest

\* nghttp2_session_adjust_closed_stream destroys closed streams only.
LEMMA AdjustClosedOK ==
  ASSUME NEW t, TableOK(t), NEW max \in Int, NEW w
  PROVE  TableOK(AdjustClosed(t, max)) /\ Keeps(t, AdjustClosed(t, max), w)
<1> DEFINE q == t.closedQ
           k == SmallerOf(Len(q), LargerOf(0, Len(q) + t.nIncoming - max))
           D == Oldest(q, k)
           u == AdjustClosed(t, max)
<1>1. /\ t = [strm |-> t.strm, closedQ |-> t.closedQ, idleQ |-> t.idleQ,
              nIncoming |-> t.nIncoming]
      /\ t.strm \in [StreamIds -> Stream] /\ t.nIncoming \in Int
      /\ q \in Seq(StreamIds) /\ t.idleQ \in Seq(StreamIds)
  BY DEF TableOK, Table
<1>2. k \in 0 .. Len(q)
  <2>1. Len(q) \in Nat
    BY <1>1, LenProperties
  <2> HIDE DEF q
  <2> QED BY <2>1, <1>1 DEF SmallerOf, LargerOf
<1>3. u = [t EXCEPT !.strm = DestroyOldest(@, q, k), !.closedQ = SubSeq(@, k + 1, Len(@))]
  BY DEF AdjustClosed
<1>4. /\ ClosedSet(t) \in SUBSET StreamIds /\ Lists(q, ClosedSet(t))
      /\ \A x \in ClosedSet(t) : x \notin IdleSet(t) /\ x \notin LiveSet(t)
  BY DEF TableOK, TableConsistent, ClosedSet, IdleSet, LiveSet, Live
<1> HIDE DEF k, u
<1>5. /\ SubSeq(q, k + 1, Len(q)) \in Seq(StreamIds)
      /\ Lists(SubSeq(q, k + 1, Len(q)), ClosedSet(t) \ D)
  BY <1>1, <1>2, <1>4, ListsDrop
<1>6. D \subseteq ClosedSet(t)
  <2>1. \A i \in 1 .. k : i \in DOMAIN q
    BY <1>1, <1>2, LenProperties
  <2> QED BY <2>1, <1>4 DEF Lists, ToSet, Oldest
<1> HIDE DEF D
<1>7. /\ u.strm \in [StreamIds -> Stream]
      /\ \A x \in StreamIds : u.strm[x] = IF x \in D THEN NoStream ELSE t.strm[x]
      /\ u = [strm |-> u.strm, closedQ |-> SubSeq(q, k + 1, Len(q)), idleQ |-> t.idleQ,
              nIncoming |-> t.nIncoming]
  <2>1. u = [strm |-> DestroyOldest(t.strm, q, k), closedQ |-> SubSeq(q, k + 1, Len(q)),
             idleQ |-> t.idleQ, nIncoming |-> t.nIncoming]
    BY <1>1, <1>3
  <2> QED BY <2>1, <1>1, <1>2, DestroyOldestType DEF D
<1>8. u \in Table
  <2> DEFINE r == SubSeq(q, k + 1, Len(q))
  <2>1. r \in Seq(StreamIds)
    BY <1>5
  <2>2. u = [strm |-> u.strm, closedQ |-> r, idleQ |-> t.idleQ, nIncoming |-> t.nIncoming]
    BY <1>7
  <2>3. u.strm \in [StreamIds -> Stream]
    BY <1>7
  <2> HIDE DEF r
  <2> QED BY <2>1, <2>2, <2>3, <1>1 DEF Table
<1>9. /\ ClosedSet(u) = ClosedSet(t) \ D /\ IdleSet(u) = IdleSet(t)
      /\ LiveSet(u) = LiveSet(t)
  BY <1>4, <1>6, <1>7, NoStreamType DEF ClosedSet, IdleSet, LiveSet, Live
<1>10. TableOK(u)
  <2>1. \A x \in StreamIds : u.strm[x].closed => u.strm[x].st \notin {"ABSENT", "IDLE"}
    BY <1>7, NoStreamType DEF TableOK, TableConsistent
  <2>2. u.closedQ = SubSeq(q, k + 1, Len(q)) /\ u.idleQ = t.idleQ /\ u.nIncoming = t.nIncoming
    BY <1>7
  <2> QED BY <2>1, <2>2, <1>5, <1>8, <1>9 DEF TableOK, TableConsistent
<1>11. u.nIncoming <= t.nIncoming
  BY <1>1, <1>7
<1>12. Keeps(t, u, w)
  BY <1>7, <1>11, NoStreamType DEF Keeps, OpensNone, Mapped
<1> QED BY <1>10, <1>12 DEF u

\* nghttp2_session_adjust_idle_stream destroys idle streams only.
LEMMA AdjustIdleOK ==
  ASSUME NEW t, TableOK(t), NEW max \in Nat, NEW w
  PROVE  TableOK(AdjustIdle(t, max)) /\ Keeps(t, AdjustIdle(t, max), w)
<1> DEFINE q == t.idleQ
           k == LargerOf(0, Len(q) - max)
           D == Oldest(q, k)
           u == AdjustIdle(t, max)
<1>1. /\ t = [strm |-> t.strm, closedQ |-> t.closedQ, idleQ |-> t.idleQ,
              nIncoming |-> t.nIncoming]
      /\ t.strm \in [StreamIds -> Stream] /\ t.nIncoming \in Int
      /\ q \in Seq(StreamIds) /\ t.closedQ \in Seq(StreamIds)
  BY DEF TableOK, Table
<1>2. k \in 0 .. Len(q)
  <2>1. Len(q) \in Nat
    BY <1>1, LenProperties
  <2> HIDE DEF q
  <2> QED BY <2>1 DEF LargerOf
<1>3. u = [t EXCEPT !.strm = DestroyOldest(@, q, k), !.idleQ = SubSeq(@, k + 1, Len(@))]
  BY DEF AdjustIdle
<1>4. /\ IdleSet(t) \in SUBSET StreamIds /\ Lists(q, IdleSet(t))
      /\ \A x \in IdleSet(t) : x \notin ClosedSet(t) /\ x \notin LiveSet(t)
  BY DEF TableOK, TableConsistent, ClosedSet, IdleSet, LiveSet, Live
<1> HIDE DEF k, u
<1>5. /\ SubSeq(q, k + 1, Len(q)) \in Seq(StreamIds)
      /\ Lists(SubSeq(q, k + 1, Len(q)), IdleSet(t) \ D)
  BY <1>1, <1>2, <1>4, ListsDrop
<1>6. D \subseteq IdleSet(t)
  <2>1. \A i \in 1 .. k : i \in DOMAIN q
    BY <1>1, <1>2, LenProperties
  <2> QED BY <2>1, <1>4 DEF Lists, ToSet, Oldest
<1> HIDE DEF D
<1>7. /\ u.strm \in [StreamIds -> Stream]
      /\ \A x \in StreamIds : u.strm[x] = IF x \in D THEN NoStream ELSE t.strm[x]
      /\ u = [strm |-> u.strm, closedQ |-> t.closedQ, idleQ |-> SubSeq(q, k + 1, Len(q)),
              nIncoming |-> t.nIncoming]
  <2>1. u = [strm |-> DestroyOldest(t.strm, q, k), closedQ |-> t.closedQ,
             idleQ |-> SubSeq(q, k + 1, Len(q)), nIncoming |-> t.nIncoming]
    BY <1>1, <1>3
  <2> QED BY <2>1, <1>1, <1>2, DestroyOldestType DEF D
<1>8. u \in Table
  <2> DEFINE r == SubSeq(q, k + 1, Len(q))
  <2>1. r \in Seq(StreamIds)
    BY <1>5
  <2>2. u = [strm |-> u.strm, closedQ |-> t.closedQ, idleQ |-> r, nIncoming |-> t.nIncoming]
    BY <1>7
  <2>3. u.strm \in [StreamIds -> Stream]
    BY <1>7
  <2> HIDE DEF r
  <2> QED BY <2>1, <2>2, <2>3, <1>1 DEF Table
<1>9. /\ ClosedSet(u) = ClosedSet(t) /\ IdleSet(u) = IdleSet(t) \ D
      /\ LiveSet(u) = LiveSet(t)
  BY <1>4, <1>6, <1>7, NoStreamType DEF ClosedSet, IdleSet, LiveSet, Live
<1>10. TableOK(u)
  <2>1. \A x \in StreamIds : u.strm[x].closed => u.strm[x].st \notin {"ABSENT", "IDLE"}
    BY <1>7, NoStreamType DEF TableOK, TableConsistent
  <2>2. u.idleQ = SubSeq(q, k + 1, Len(q)) /\ u.closedQ = t.closedQ /\ u.nIncoming = t.nIncoming
    BY <1>7
  <2> QED BY <2>1, <2>2, <1>5, <1>8, <1>9 DEF TableOK, TableConsistent
<1>11. u.nIncoming <= t.nIncoming
  BY <1>1, <1>7
<1>12. Keeps(t, u, w)
  BY <1>7, <1>11, NoStreamType DEF Keeps, OpensNone, Mapped
<1> QED BY <1>10, <1>12 DEF u

\* An order of a set lists it.
LEMMA OrdersList ==
  ASSUME NEW R \in SUBSET StreamIds, NEW q \in Orders(R)
  PROVE  q \in Seq(StreamIds) /\ q \in Seq(R) /\ Len(q) = Cardinality(R) /\ Lists(q, R)
<1>1. IsFiniteSet(R) /\ Cardinality(R) \in Nat
  BY StreamIdsAssumption, FS_Subset, FS_CardinalityType
<1>2. q \in [1 .. Cardinality(R) -> R] /\ IsInjective(q)
  BY DEF Orders
<1>3. q \in Seq(StreamIds) /\ q \in Seq(R) /\ Len(q) = Cardinality(R)
  BY <1>1, <1>2
<1>4. q \in Surjection(1 .. Cardinality(R), R)
  <2>1. q \in Injection(1 .. Cardinality(R), R)
    BY <1>2 DEF Injection
  <2>2. Cardinality(1 .. Cardinality(R)) = Cardinality(R)
    <3>1. Cardinality(1 .. Cardinality(R)) =
            IF 1 > Cardinality(R) THEN 0 ELSE Cardinality(R) - 1 + 1
      BY <1>1, FS_Interval
    <3> QED BY <3>1, <1>1
  <2> QED BY <2>1, <2>2, <1>1, FS_Injection
<1>5. ToSet(q) = R
  BY <1>2, <1>4 DEF ToSet, Surjection
<1> QED BY <1>2, <1>3, <1>5 DEF Lists

\* session_close_stream_on_goaway closes a set of live streams in any order.
LEMMA CloseAllOK ==
  ASSUME NEW t, TableOK(t), NEW R \in SUBSET LiveSet(t), NEW q \in Orders(R), NEW w
  PROVE  TableOK(CloseAll(t, q)) /\ Keeps(t, CloseAll(t, q), w)
<1> DEFINE u == CloseAll(t, q)
           c(x) == [t.strm[x] EXCEPT !.closed = TRUE, !.item = "none"]
<1>1. /\ t = [strm |-> t.strm, closedQ |-> t.closedQ, idleQ |-> t.idleQ,
              nIncoming |-> t.nIncoming]
      /\ t.strm \in [StreamIds -> Stream] /\ t.nIncoming \in Int
      /\ t.closedQ \in Seq(StreamIds) /\ t.idleQ \in Seq(StreamIds)
  BY DEF TableOK, Table
<1>2. /\ q \in Seq(StreamIds) /\ Len(q) = Cardinality(R) /\ Lists(q, R)
      /\ R \subseteq StreamIds /\ \A x \in R : Live(t, x)
  <2>1. R \in SUBSET StreamIds /\ \A x \in R : Live(t, x)
    BY DEF LiveSet
  <2> QED BY <2>1, OrdersList
<1>3. ASSUME NEW x \in R
      PROVE  /\ CloseStream(t, x).strm[x] = c(x) /\ c(x) \in Stream /\ c(x).closed
             /\ c(x).st = t.strm[x].st /\ c(x).win = t.strm[x].win /\ c(x).item = "none"
             /\ t.strm[x].st \notin {"ABSENT", "IDLE"} /\ ~t.strm[x].closed
  <2>1. t.strm[x] \in Stream /\ Live(t, x) /\ x \in StreamIds
    BY <1>1, <1>2
  <2>2. CloseStream(t, x).strm = [t.strm EXCEPT ![x] = c(x)]
    <3>1. CloseStream(t, x) = [t EXCEPT !.strm[x] = c(x), !.nIncoming = @ - 1,
                                        !.closedQ = Append(@, x)]
      BY <2>1, <1>1 DEF CloseStream
    <3> HIDE DEF c
    <3> QED BY <3>1, <1>1
  <2> QED BY <2>1, <2>2, <1>1 DEF Stream, Live
<1>4. u = [t EXCEPT !.strm = [x \in StreamIds |-> IF x \in R THEN c(x) ELSE t.strm[x]],
                    !.nIncoming = @ - Len(q), !.closedQ = @ \o q]
  <2>1. \A x \in StreamIds :
          (IF x \in ToSet(q) THEN CloseStream(t, x).strm[x] ELSE t.strm[x])
            = (IF x \in R THEN c(x) ELSE t.strm[x])
    BY <1>2, <1>3 DEF Lists
  <2> HIDE DEF c
  <2> QED BY <2>1, <1>1 DEF CloseAll
<1> HIDE DEF c, u
<1>5. /\ u.strm \in [StreamIds -> Stream]
      /\ \A x \in StreamIds : u.strm[x] = IF x \in R THEN c(x) ELSE t.strm[x]
      /\ u.closedQ = t.closedQ \o q /\ u.idleQ = t.idleQ
      /\ u.nIncoming = t.nIncoming - Len(q)
      /\ u = [strm |-> u.strm, closedQ |-> u.closedQ, idleQ |-> u.idleQ,
              nIncoming |-> u.nIncoming]
  <2>1. u = [strm |-> [x \in StreamIds |-> IF x \in R THEN c(x) ELSE t.strm[x]],
             closedQ |-> t.closedQ \o q, idleQ |-> t.idleQ, nIncoming |-> t.nIncoming - Len(q)]
    BY <1>1, <1>4
  <2> QED BY <2>1, <1>1, <1>3
<1>6. /\ ClosedSet(u) = ClosedSet(t) \cup R /\ IdleSet(u) = IdleSet(t)
      /\ LiveSet(u) = LiveSet(t) \ R
  BY <1>2, <1>3, <1>5 DEF ClosedSet, IdleSet, LiveSet, Live
<1>7. u.closedQ \in Seq(StreamIds) /\ Lists(u.closedQ, ClosedSet(u))
  <2>1. /\ ClosedSet(t) \in SUBSET StreamIds /\ Lists(t.closedQ, ClosedSet(t))
        /\ ClosedSet(t) \cap R = {} /\ R \in SUBSET StreamIds
    <3>1. \A x \in ClosedSet(t) : t.strm[x].closed /\ x \in StreamIds
      BY DEF ClosedSet
    <3>2. \A x \in R : ~t.strm[x].closed
      BY <1>3
    <3> QED BY <3>1, <3>2, <1>2 DEF TableOK, TableConsistent
  <2>2. t.closedQ \o q \in Seq(StreamIds) /\ Lists(t.closedQ \o q, ClosedSet(t) \cup R)
    BY <2>1, <1>1, <1>2, ListsConcat
  <2> QED BY <2>2, <1>5, <1>6
<1>8. u.nIncoming = Cardinality(LiveSet(u)) /\ u.nIncoming \in Int /\ u.nIncoming <= t.nIncoming
  <2>1. IsFiniteSet(LiveSet(t)) /\ t.nIncoming = Cardinality(LiveSet(t))
    BY LiveSetFinite DEF TableOK, TableConsistent
  <2>2. LiveSet(t) \cap R = R
    OBVIOUS
  <2>3. Cardinality(LiveSet(t) \ R) = Cardinality(LiveSet(t)) - Cardinality(R)
    <3>1. Cardinality(LiveSet(t) \ R) = Cardinality(LiveSet(t)) - Cardinality(LiveSet(t) \cap R)
      BY <2>1, FS_Difference
    <3> QED BY <3>1, <2>2
  <2>4. Cardinality(R) \in Nat
    BY <2>1, FS_Subset, FS_CardinalityType
  <2>5. u.nIncoming = t.nIncoming - Cardinality(R)
    BY <1>2, <1>5
  <2> QED BY <2>1, <2>3, <2>4, <2>5, <1>1, <1>6
<1>9. TableOK(u)
  <2>1. u \in Table
    BY <1>1, <1>5, <1>7, <1>8 DEF Table
  <2>2. \A x \in StreamIds : u.strm[x].closed => u.strm[x].st \notin {"ABSENT", "IDLE"}
    BY <1>3, <1>5 DEF TableOK, TableConsistent
  <2>3. Lists(u.idleQ, IdleSet(u))
    BY <1>5, <1>6 DEF TableOK, TableConsistent
  <2> QED BY <2>1, <2>2, <2>3, <1>7, <1>8 DEF TableOK, TableConsistent
<1>10. Keeps(t, u, w)
  BY <1>3, <1>5, <1>8 DEF Keeps, OpensNone, Mapped
<1> QED BY <1>9, <1>10 DEF u

-----------------------------------------------------------------------------
(* Windows. *)

\* Every stream can be charged for all the bytes it may have in flight when the peer
\* shrinks the initial window iw
WindowsOK(t, iw) == \A x \in StreamIds : Mapped(t, x) => t.strm[x].win - iw >= -MaxWindow

\* No item sleeps while its window is open
DeferredOK(t) == \A x \in StreamIds : t.strm[x].item = "deferred" => t.strm[x].win <= 0

\* An operation that keeps everything keeps what is said of windows.
LEMMA KeepsWindows ==
  ASSUME NEW iw \in 0 .. MaxWindow, NEW t, TableOK(t), WindowsOK(t, iw), DeferredOK(t),
         NEW u, TableOK(u), Keeps(t, u, iw)
  PROVE  WindowsOK(u, iw) /\ DeferredOK(u)
<1>1. WindowsOK(u, iw)
  <2> SUFFICES ASSUME NEW x \in StreamIds, Mapped(u, x)
               PROVE  u.strm[x].win - iw >= -MaxWindow
    BY DEF WindowsOK
  <2>1. CASE Mapped(t, x) /\ u.strm[x].win = t.strm[x].win
    BY <2>1 DEF WindowsOK
  <2>2. CASE u.strm[x].win = iw
    BY <2>2, MaxWindowAssumption
  <2> QED BY <2>1, <2>2 DEF Keeps
<1>2. DeferredOK(u)
  BY DEF Keeps, DeferredOK
<1> QED BY <1>1, <1>2

\* Waking an item changes nothing else, and leaves none asleep beside an open window.
LEMMA ResumeIfOpenType ==
  ASSUME NEW r \in Stream
  PROVE  /\ ResumeIfOpen(r) \in Stream
         /\ ResumeIfOpen(r).st = r.st /\ ResumeIfOpen(r).closed = r.closed
         /\ ResumeIfOpen(r).win = r.win
         /\ ResumeIfOpen(r).item = "deferred" => r.win <= 0
<1>1. r.win \in Int /\ r.item \in {"none", "active", "deferred"}
  BY MaxWindowAssumption DEF Stream, Windows
<1>2. CASE r.win > 0 /\ r.item = "deferred"
  BY <1>2 DEF ResumeIfOpen, Stream
<1>3. CASE ~(r.win > 0 /\ r.item = "deferred")
  BY <1>1, <1>3 DEF ResumeIfOpen
<1> QED BY <1>2, <1>3

\* SETTINGS_INITIAL_WINDOW_SIZE moves every window, and resets the streams whose
\* window would overflow.
LEMMA UpdateInitialWindowOK ==
  ASSUME NEW t, TableOK(t), NEW new \in 0 .. MaxWindow, NEW old \in 0 .. MaxWindow,
         WindowsOK(t, old), DeferredOK(t)
  PROVE  LET u == UpdateInitialWindow(t, new, old)
         IN  /\ TableOK(u) /\ u.nIncoming = t.nIncoming /\ OpensNone(t, u)
             /\ WindowsOK(u, new) /\ DeferredOK(u)
<1> DEFINE u == UpdateInitialWindow(t, new, old)
           g(x) == [t.strm[x] EXCEPT !.win = @ + new - old]
           v(x) == IF ~Mapped(t, x) THEN t.strm[x]
                   ELSE IF Overflows(t, x, new, old) THEN MarkClosing(t, x).strm[x]
                   ELSE ResumeIfOpen(g(x))
<1>1. /\ t = [strm |-> t.strm, closedQ |-> t.closedQ, idleQ |-> t.idleQ,
              nIncoming |-> t.nIncoming]
      /\ t.strm \in [StreamIds -> Stream] /\ t.nIncoming \in Int
      /\ t.closedQ \in Seq(StreamIds) /\ t.idleQ \in Seq(StreamIds)
  BY DEF TableOK, Table
<1>2. u = [t EXCEPT !.strm = [x \in StreamIds |-> v(x)]]
  BY DEF UpdateInitialWindow
<1>3. ASSUME NEW x \in StreamIds
      PROVE  /\ v(x) \in Stream
             /\ v(x).closed = t.strm[x].closed
             /\ v(x).st = "ABSENT" <=> t.strm[x].st = "ABSENT"
             /\ v(x).st = "IDLE" <=> t.strm[x].st = "IDLE"
             /\ v(x).item = "deferred" => v(x).win <= 0
             /\ v(x).st # "ABSENT" => v(x).win - new >= -MaxWindow
  <2>1. t.strm[x] \in Stream /\ t.strm[x].win \in Windows
    BY <1>1 DEF Stream
  <2>2. t.strm[x].win \in Int /\ new \in Nat /\ old \in Nat /\ MaxWindow \in Nat
    BY <2>1, MaxWindowAssumption DEF Windows
  <2>3. CASE ~Mapped(t, x)
    <3>1. v(x) = t.strm[x]
      BY <2>3
    <3> HIDE DEF v
    <3> QED BY <3>1, <2>1, <2>3 DEF Mapped, DeferredOK
  <2>4. CASE Mapped(t, x) /\ Overflows(t, x, new, old)
    <3>1. v(x) = MarkClosing(t, x).strm[x]
      BY <2>4
    <3> HIDE DEF v
    <3>2. v(x) = IF Live(t, x) THEN [t.strm[x] EXCEPT !.st = "CLOSING"] ELSE t.strm[x]
      BY <3>1, <1>1 DEF MarkClosing
    <3>3. /\ v(x) \in Stream /\ v(x).closed = t.strm[x].closed
          /\ v(x).st = "ABSENT" <=> t.strm[x].st = "ABSENT"
          /\ v(x).st = "IDLE" <=> t.strm[x].st = "IDLE"
          /\ v(x).item = t.strm[x].item /\ v(x).win = t.strm[x].win
      <4>1. CASE Live(t, x)
        BY <4>1, <3>2, <2>1 DEF Live, Stream, States
      <4>2. CASE ~Live(t, x)
        BY <4>2, <3>2, <2>1
      <4> QED BY <4>1, <4>2
    <3>4. t.strm[x].win - old >= -MaxWindow /\ t.strm[x].win + new - old \notin Windows
      BY <2>4 DEF Overflows, WindowsOK
    <3>5. t.strm[x].win - new >= -MaxWindow
      BY <3>4, <2>2 DEF Windows
    <3> QED BY <3>3, <3>5 DEF DeferredOK
  <2>5. CASE Mapped(t, x) /\ ~Overflows(t, x, new, old)
    <3>1. v(x) = ResumeIfOpen(g(x))
      BY <2>5
    <3> HIDE DEF v
    <3>2. /\ g(x) \in Stream /\ g(x).st = t.strm[x].st /\ g(x).closed = t.strm[x].closed
          /\ g(x).win = t.strm[x].win + new - old
      BY <2>1, <2>5 DEF Stream, Overflows
    <3> HIDE DEF g
    <3>3. t.strm[x].win - old >= -MaxWindow
      BY <2>5 DEF WindowsOK
    <3>4. g(x).win - new >= -MaxWindow
      BY <3>2, <3>3, <2>2
    <3> QED BY <3>1, <3>2, <3>4, ResumeIfOpenType
  <2> QED BY <2>3, <2>4, <2>5
<1> HIDE DEF v, u
<1>4. /\ u.strm \in [StreamIds -> Stream] /\ \A x \in StreamIds : u.strm[x] = v(x)
      /\ u.closedQ = t.closedQ /\ u.idleQ = t.idleQ /\ u.nIncoming = t.nIncoming
      /\ u = [strm |-> u.strm, closedQ |-> t.closedQ, idleQ |-> t.idleQ,
              nIncoming |-> t.nIncoming]
  <2>1. u = [strm |-> [x \in StreamIds |-> v(x)], closedQ |-> t.closedQ, idleQ |-> t.idleQ,
             nIncoming |-> t.nIncoming]
    BY <1>1, <1>2
  <2> QED BY <2>1, <1>3
<1>5. TableOK(u)
  <2>1. u \in Table
    BY <1>1, <1>4 DEF Table
  <2>2. SameKind(t, u)
    BY <1>3, <1>4 DEF SameKind
  <2> QED BY <2>1, <2>2, <1>4, SameKindOK
<1> QED BY <1>3, <1>4, <1>5 DEF u, OpensNone, WindowsOK, DeferredOK, Mapped

\* WINDOW_UPDATE opens the window of one stream, and DATA shuts it.
LEMMA GrowWindowOK ==
  ASSUME NEW t, TableOK(t), NEW iw \in 0 .. MaxWindow, WindowsOK(t, iw), DeferredOK(t),
         NEW s \in StreamIds, NEW n \in Nat, t.strm[s].win + n <= MaxWindow
  PROVE  LET u == GrowWindow(t, s, n)
         IN  /\ TableOK(u) /\ u.nIncoming = t.nIncoming /\ OpensNone(t, u)
             /\ WindowsOK(u, iw) /\ DeferredOK(u)
<1> DEFINE u == GrowWindow(t, s, n)
           g == [t.strm[s] EXCEPT !.win = @ + n]
           r == ResumeIfOpen(g)
<1>1. /\ t = [strm |-> t.strm, closedQ |-> t.closedQ, idleQ |-> t.idleQ,
              nIncoming |-> t.nIncoming]
      /\ t.strm \in [StreamIds -> Stream] /\ t.nIncoming \in Int
      /\ t.closedQ \in Seq(StreamIds) /\ t.idleQ \in Seq(StreamIds)
      /\ t.strm[s] \in Stream
  BY DEF TableOK, Table
<1>2. /\ g \in Stream /\ g.st = t.strm[s].st /\ g.closed = t.strm[s].closed
      /\ g.win = t.strm[s].win + n
  <2>1. t.strm[s].win \in Windows
    BY <1>1 DEF Stream
  <2>2. t.strm[s].win + n \in Windows
    BY <2>1, MaxWindowAssumption DEF Windows
  <2> QED BY <1>1, <2>2 DEF Stream
<1>3. u = [t EXCEPT !.strm[s] = r]
  BY DEF GrowWindow
<1> HIDE DEF g, u
<1>4. /\ r \in Stream /\ r.st = t.strm[s].st /\ r.closed = t.strm[s].closed
      /\ r.win = t.strm[s].win + n
      /\ r.item = "deferred" => r.win <= 0
  BY <1>2, ResumeIfOpenType
<1> HIDE DEF r
<1>5. /\ u = [strm |-> [t.strm EXCEPT ![s] = r], closedQ |-> t.closedQ, idleQ |-> t.idleQ,
              nIncoming |-> t.nIncoming]
      /\ u.strm[s] = r /\ \A x \in StreamIds \ {s} : u.strm[x] = t.strm[x]
      /\ u.closedQ = t.closedQ /\ u.idleQ = t.idleQ /\ u.nIncoming = t.nIncoming
  BY <1>1, <1>3
<1>6. TableOK(u)
  <2>1. u \in Table
    BY <1>1, <1>4, <1>5 DEF Table
  <2>2. SameKind(t, u)
    BY <1>4, <1>5 DEF SameKind
  <2> QED BY <2>1, <2>2, <1>5, SameKindOK
<1>7. WindowsOK(u, iw)
  <2> SUFFICES ASSUME NEW x \in StreamIds, Mapped(u, x)
               PROVE  u.strm[x].win - iw >= -MaxWindow
    BY DEF WindowsOK
  <2>1. CASE x # s
    BY <2>1, <1>5 DEF WindowsOK, Mapped
  <2>2. CASE x = s
    <3>1. t.strm[s].win - iw >= -MaxWindow
      BY <2>2, <1>4, <1>5 DEF WindowsOK, Mapped
    <3>2. t.strm[s].win \in Int
      BY <1>1, MaxWindowAssumption DEF Stream, Windows
    <3>3. t.strm[s].win + n - iw >= -MaxWindow
      BY <3>1, <3>2, MaxWindowAssumption
    <3>4. u.strm[x].win = t.strm[s].win + n
      BY <2>2, <1>4, <1>5
    <3> QED BY <3>2, <3>3, <3>4
  <2> QED BY <2>1, <2>2
<1> QED BY <1>4, <1>5, <1>6, <1>7 DEF u, OpensNone, DeferredOK

\* DATA is paid from the window of its stream.
LEMMA SpendWindowOK ==
  ASSUME NEW t, TableOK(t), NEW iw \in 0 .. MaxWindow, WindowsOK(t, iw), DeferredOK(t),
         NEW s \in StreamIds, NEW n \in Nat, n <= t.strm[s].win, t.strm[s].item = "active"
  PROVE  LET u == [t EXCEPT !.strm[s].win = @ - n]
         IN  /\ TableOK(u) /\ u.nIncoming = t.nIncoming /\ OpensNone(t, u)
             /\ WindowsOK(u, iw) /\ DeferredOK(u)
<1> DEFINE u == [t EXCEPT !.strm[s].win = @ - n]
           r == [t.strm[s] EXCEPT !.win = @ - n]
<1>1. /\ t = [strm |-> t.strm, closedQ |-> t.closedQ, idleQ |-> t.idleQ,
              nIncoming |-> t.nIncoming]
      /\ t.strm \in [StreamIds -> Stream] /\ t.nIncoming \in Int
      /\ t.closedQ \in Seq(StreamIds) /\ t.idleQ \in Seq(StreamIds)
      /\ t.strm[s] \in Stream
  BY DEF TableOK, Table
<1>2. /\ r \in Stream /\ r.st = t.strm[s].st /\ r.closed = t.strm[s].closed
      /\ r.win - iw >= -MaxWindow /\ r.item = "active"
  <2>1. t.strm[s].win \in Windows
    BY <1>1 DEF Stream
  <2>2. t.strm[s].win - n \in Windows /\ t.strm[s].win - n - iw >= -MaxWindow
    BY <2>1, MaxWindowAssumption DEF Windows
  <2> QED BY <1>1, <2>2 DEF Stream
<1>3. u = [t EXCEPT !.strm[s] = r]
  OBVIOUS
<1> HIDE DEF r, u
<1>4. /\ u = [strm |-> [t.strm EXCEPT ![s] = r], closedQ |-> t.closedQ, idleQ |-> t.idleQ,
              nIncoming |-> t.nIncoming]
      /\ u.strm[s] = r /\ \A x \in StreamIds \ {s} : u.strm[x] = t.strm[x]
      /\ u.closedQ = t.closedQ /\ u.idleQ = t.idleQ /\ u.nIncoming = t.nIncoming
  BY <1>1, <1>3
<1>5. TableOK(u)
  <2>1. u \in Table
    BY <1>1, <1>2, <1>4 DEF Table
  <2>2. SameKind(t, u)
    BY <1>2, <1>4 DEF SameKind
  <2> QED BY <2>1, <2>2, <1>4, SameKindOK
<1>6. OpensNone(t, u)
  BY <1>2, <1>4 DEF OpensNone
<1>7. WindowsOK(u, iw)
  BY <1>2, <1>4 DEF WindowsOK, Mapped
<1>8. DeferredOK(u)
  BY <1>2, <1>4 DEF DeferredOK
<1> QED BY <1>4, <1>5, <1>6, <1>7, <1>8 DEF u

\* An item is put to sleep beside a window that is shut.
LEMMA DeferItemOK ==
  ASSUME NEW t, TableOK(t), NEW iw, WindowsOK(t, iw), DeferredOK(t),
         NEW s \in StreamIds, t.strm[s].win <= 0
  PROVE  LET u == SetItem(t, s, "deferred")
         IN  /\ TableOK(u) /\ u.nIncoming = t.nIncoming /\ OpensNone(t, u)
             /\ WindowsOK(u, iw) /\ DeferredOK(u)
<1> DEFINE u == SetItem(t, s, "deferred")
           r == [t.strm[s] EXCEPT !.item = "deferred"]
<1>1. /\ t = [strm |-> t.strm, closedQ |-> t.closedQ, idleQ |-> t.idleQ,
              nIncoming |-> t.nIncoming]
      /\ t.strm \in [StreamIds -> Stream] /\ t.nIncoming \in Int
      /\ t.closedQ \in Seq(StreamIds) /\ t.idleQ \in Seq(StreamIds)
      /\ t.strm[s] \in Stream
  BY DEF TableOK, Table
<1>2. /\ r \in Stream /\ r.st = t.strm[s].st /\ r.closed = t.strm[s].closed
      /\ r.win = t.strm[s].win
  BY <1>1 DEF Stream
<1>3. u = [t EXCEPT !.strm[s] = r]
  BY DEF SetItem
<1> HIDE DEF r, u
<1>4. /\ u = [strm |-> [t.strm EXCEPT ![s] = r], closedQ |-> t.closedQ, idleQ |-> t.idleQ,
              nIncoming |-> t.nIncoming]
      /\ u.strm[s] = r /\ \A x \in StreamIds \ {s} : u.strm[x] = t.strm[x]
      /\ u.closedQ = t.closedQ /\ u.idleQ = t.idleQ /\ u.nIncoming = t.nIncoming
  BY <1>1, <1>3
<1>5. TableOK(u)
  <2>1. u \in Table
    BY <1>1, <1>2, <1>4 DEF Table
  <2>2. SameKind(t, u)
    BY <1>2, <1>4 DEF SameKind
  <2> QED BY <2>1, <2>2, <1>4, SameKindOK
<1> QED BY <1>2, <1>4, <1>5 DEF u, OpensNone, WindowsOK, DeferredOK, Mapped

-----------------------------------------------------------------------------
(* The life of a stream.                                                    *)

\* What every entry r of the table is, under the identifier x, when iw is the initial
\* window: nothing has happened on a stream that was not opened; a live one is the
\* peer's, and has a direction open; and only a stream that has begun to send, and is not
\* closed, has a DATA item
EntryOK(x, r, iw) ==
  /\ r.st \in {"ABSENT", "IDLE"} => ~r.rd /\ ~r.wr /\ r.item = "none" /\ ~r.closed
  /\ r.st = "IDLE" => r.win = iw
  /\ r.st \notin {"ABSENT", "IDLE"} /\ ~r.closed => ~IsMine(x) /\ ~(r.rd /\ r.wr)
  /\ r.item # "none" => ~r.closed /\ r.st \in {"OPENED", "CLOSING"}

EntriesOK(t, iw) == \A x \in StreamIds : EntryOK(x, t.strm[x], iw)

\* Between t and u no stream comes to life, and what was reset or shut for reading on a
\* live stream stays so
Ages(t, u) ==
  \A x \in StreamIds :
    /\ Live(u, x) => /\ Live(t, x)
                     /\ t.strm[x].st = "CLOSING" => u.strm[x].st = "CLOSING"
                     /\ t.strm[x].rd => u.strm[x].rd
    /\ t.strm[x].st \in {"ABSENT", "IDLE"} => u.strm[x].st \in {"ABSENT", "IDLE"}

\* No stream is reset or shut for reading either
Calm(t, u) ==
  \A x \in StreamIds :
    /\ u.strm[x].rd => t.strm[x].rd
    /\ u.strm[x].st = "CLOSING" => t.strm[x].st = "CLOSING"

\* No response begins or comes to its end
Waits(t, u) ==
  \A x \in StreamIds :
    /\ u.strm[x].wr => t.strm[x].wr
    /\ u.strm[x].item # "none" => t.strm[x].item # "none"
    /\ Live(u, x) /\ t.strm[x].item # "none" => u.strm[x].item # "none"

\* No stream dies
Spares(t, u) == \A x \in StreamIds : Live(t, x) => Live(u, x)

\* The streams that a request for a new stream finds room among
Room(t) == Len(t.closedQ) + t.nIncoming

-----------------------------------------------------------------------------
(* Streams that die, and anchors that are invented. *)

\* An entry is the same in u as in t, or it went from the table, was closed, or is a
\* new anchor
Fades(t, u, w) ==
  \A x \in StreamIds :
    \/ u.strm[x] = t.strm[x]
    \/ ~Live(t, x) /\ u.strm[x] = NoStream
    \/ Live(t, x) /\ u.strm[x] = [t.strm[x] EXCEPT !.closed = TRUE, !.item = "none"]
    \/ ~Mapped(t, x) /\ u.strm[x] = NewStream("IDLE", w)

\* What is not in the table, or idle, has no past.
LEMMA BlankEntries ==
  ASSUME NEW w \in Windows
  PROVE  /\ NoStream.st = "ABSENT" /\ ~NoStream.rd /\ ~NoStream.wr /\ ~NoStream.closed
         /\ NoStream.item = "none"
         /\ NewStream("IDLE", w).st = "IDLE" /\ ~NewStream("IDLE", w).rd
         /\ ~NewStream("IDLE", w).wr /\ ~NewStream("IDLE", w).closed
         /\ NewStream("IDLE", w).item = "none" /\ NewStream("IDLE", w).win = w
BY DEF NoStream, NewStream

\* Fading changes nothing else.
LEMMA FadesOK ==
  ASSUME NEW t, TableOK(t), NEW u, NEW w \in Windows, EntriesOK(t, w), Fades(t, u, w)
  PROVE  EntriesOK(u, w) /\ Ages(t, u) /\ Calm(t, u) /\ Waits(t, u)
<1> SUFFICES ASSUME NEW x \in StreamIds
             PROVE  /\ EntryOK(x, u.strm[x], w)
                    /\ Live(u, x) => /\ Live(t, x)
                                     /\ t.strm[x].st = "CLOSING" => u.strm[x].st = "CLOSING"
                                     /\ t.strm[x].rd => u.strm[x].rd
                    /\ t.strm[x].st \in {"ABSENT", "IDLE"} => u.strm[x].st \in {"ABSENT", "IDLE"}
                    /\ u.strm[x].item # "none" => t.strm[x].item # "none"
                    /\ u.strm[x].rd => t.strm[x].rd
                    /\ u.strm[x].st = "CLOSING" => t.strm[x].st = "CLOSING"
                    /\ u.strm[x].wr => t.strm[x].wr
                    /\ Live(u, x) /\ t.strm[x].item # "none" => u.strm[x].item # "none"
  BY DEF EntriesOK, Ages, Calm, Waits
<1>1. t.strm[x] \in Stream /\ EntryOK(x, t.strm[x], w)
  BY DEF TableOK, Table, EntriesOK
<1>2. CASE u.strm[x] = t.strm[x]
  BY <1>1, <1>2 DEF Live
<1>3. CASE ~Live(t, x) /\ u.strm[x] = NoStream
  BY <1>3, <1>1, BlankEntries DEF Live, EntryOK
<1>4. CASE Live(t, x) /\ u.strm[x] = [t.strm[x] EXCEPT !.closed = TRUE, !.item = "none"]
  <2>1. /\ u.strm[x].closed /\ u.strm[x].item = "none" /\ u.strm[x].st = t.strm[x].st
        /\ u.strm[x].rd = t.strm[x].rd /\ u.strm[x].wr = t.strm[x].wr
    BY <1>1, <1>4 DEF Stream
  <2> QED BY <2>1, <1>4 DEF Live, EntryOK
<1>5. CASE ~Mapped(t, x) /\ u.strm[x] = NewStream("IDLE", w)
  BY <1>5, <1>1, BlankEntries DEF Mapped, Live, EntryOK
<1> QED BY <1>2, <1>3, <1>4, <1>5 DEF Fades

\* PRIORITY invents an anchor.
LEMMA CreateIdleFades ==
  ASSUME NEW t, TableOK(t), NEW s \in StreamIds, ~Mapped(t, s), NEW w \in Windows
  PROVE  LET u == CreateIdle(t, s, w)
         IN  Fades(t, u, w) /\ Spares(t, u) /\ Room(u) = Room(t)
<1> DEFINE u == CreateIdle(t, s, w)
           n == NewStream("IDLE", w)
<1>1. t.strm \in [StreamIds -> Stream]
  BY DEF TableOK, Table
<1> HIDE DEF n
<1>2. /\ u.strm = [t.strm EXCEPT ![s] = n] /\ u.closedQ = t.closedQ
      /\ u.nIncoming = t.nIncoming
  BY DEF CreateIdle, TableOK, Table, n
<1> HIDE DEF u
<1>3. u.strm[s] = n /\ \A x \in StreamIds \ {s} : u.strm[x] = t.strm[x]
  BY <1>1, <1>2
<1>4. Fades(t, u, w)
  BY <1>3 DEF Fades, n
<1>5. Spares(t, u)
  BY <1>3 DEF Spares, Live, Mapped
<1> QED BY <1>2, <1>4, <1>5 DEF u, Room

\* A dependency may invent one.
LEMMA AnchorFades ==
  ASSUME NEW t, TableOK(t), NEW d \in StreamIds \cup {0}, NEW w \in Windows, NEW l
  PROVE  LET u == AnchorDependency(t, d, w, l)
         IN  Fades(t, u, w) /\ Spares(t, u) /\ Room(u) = Room(t)
<1>1. CASE d # 0 /\ ~Mapped(t, d) /\ DetectIdle(d, l)
  BY <1>1, CreateIdleFades DEF AnchorDependency
<1>2. CASE ~(d # 0 /\ ~Mapped(t, d) /\ DetectIdle(d, l))
  BY <1>2 DEF AnchorDependency, Fades, Spares
<1> QED BY <1>1, <1>2

\* Trimming the idle list brings it under the cap.
LEMMA AdjustIdleFades ==
  ASSUME NEW t, TableOK(t), NEW max \in Nat, NEW w
  PROVE  LET u == AdjustIdle(t, max)
         IN  /\ Fades(t, u, w) /\ Spares(t, u) /\ Room(u) = Room(t)
             /\ Len(u.idleQ) \in Nat /\ Len(u.idleQ) <= max
<1> DEFINE q == t.idleQ
           k == LargerOf(0, Len(q) - max)
           D == Oldest(q, k)
           u == AdjustIdle(t, max)
<1>1. /\ t = [strm |-> t.strm, closedQ |-> t.closedQ, idleQ |-> t.idleQ,
              nIncoming |-> t.nIncoming]
      /\ t.strm \in [StreamIds -> Stream] /\ q \in Seq(StreamIds) /\ Len(q) \in Nat
  BY LenProperties DEF TableOK, Table
<1>2. k \in 0 .. Len(q) /\ Len(q) - k <= max
  <2> HIDE DEF q
  <2> QED BY <1>1 DEF LargerOf
<1>3. u = [t EXCEPT !.strm = DestroyOldest(@, q, k), !.idleQ = SubSeq(@, k + 1, Len(@))]
  BY DEF AdjustIdle
<1>4. IdleSet(t) \in SUBSET StreamIds /\ Lists(q, IdleSet(t))
  BY DEF TableOK, TableConsistent, IdleSet
<1> HIDE DEF k, u
<1>5. Len(SubSeq(q, k + 1, Len(q))) = Len(q) - k
  BY <1>1, <1>2, <1>4, ListsDrop
<1>6. \A x \in D : t.strm[x].st = "IDLE"
  <2>1. \A i \in 1 .. k : i \in DOMAIN q
    BY <1>1, <1>2, LenProperties
  <2>2. D \subseteq IdleSet(t)
    BY <2>1, <1>4 DEF Lists, ToSet, Oldest
  <2> QED BY <2>2 DEF IdleSet
<1>7. /\ u.strm = DestroyOldest(t.strm, q, k) /\ u.closedQ = t.closedQ
      /\ u.nIncoming = t.nIncoming /\ u.idleQ = SubSeq(q, k + 1, Len(q))
  BY <1>1, <1>3
<1>8. \A x \in StreamIds : u.strm[x] = IF x \in D THEN NoStream ELSE t.strm[x]
  BY <1>1, <1>2, <1>7, DestroyOldestType
<1> HIDE DEF D
<1>9. Fades(t, u, w) /\ Spares(t, u)
  BY <1>6, <1>8 DEF Fades, Spares, Live
<1>10. Len(u.idleQ) \in Nat /\ Len(u.idleQ) <= max
  BY <1>1, <1>2, <1>5, <1>7
<1> QED BY <1>7, <1>9, <1>10 DEF u, Room

\* Trimming the closed list makes room under the limit, if the live streams leave any.
LEMMA AdjustClosedFades ==
  ASSUME NEW t, TableOK(t), NEW max \in Int, t.nIncoming <= max, NEW w
  PROVE  LET u == AdjustClosed(t, max)
         IN  /\ Fades(t, u, w) /\ Spares(t, u) /\ Room(u) <= max
             /\ u.idleQ = t.idleQ
<1> DEFINE q == t.closedQ
           k == SmallerOf(Len(q), LargerOf(0, Len(q) + t.nIncoming - max))
           D == Oldest(q, k)
           u == AdjustClosed(t, max)
<1>1. /\ t = [strm |-> t.strm, closedQ |-> t.closedQ, idleQ |-> t.idleQ,
              nIncoming |-> t.nIncoming]
      /\ t.strm \in [StreamIds -> Stream] /\ t.nIncoming \in Int
      /\ q \in Seq(StreamIds) /\ Len(q) \in Nat
  BY LenProperties DEF TableOK, Table
<1>2. k \in 0 .. Len(q) /\ Len(q) - k + t.nIncoming <= max
  <2> DEFINE n == t.nIncoming
             l == Len(q)
  <2>1. n \in Int /\ l \in Nat /\ max \in Int /\ n <= max
    BY <1>1
  <2>2. k = SmallerOf(l, LargerOf(0, l + n - max))
    OBVIOUS
  <2> HIDE DEF n, l, k
  <2>3. k \in 0 .. l /\ l - k + n <= max
    BY <2>1, <2>2 DEF SmallerOf, LargerOf
  <2> QED BY <2>3 DEF n, l
<1>3. u = [t EXCEPT !.strm = DestroyOldest(@, q, k), !.closedQ = SubSeq(@, k + 1, Len(@))]
  BY DEF AdjustClosed
<1>4. ClosedSet(t) \in SUBSET StreamIds /\ Lists(q, ClosedSet(t))
  BY DEF TableOK, TableConsistent, ClosedSet
<1> HIDE DEF k, u
<1>5. Len(SubSeq(q, k + 1, Len(q))) = Len(q) - k
  BY <1>1, <1>2, <1>4, ListsDrop
<1>6. \A x \in D : t.strm[x].closed
  <2>1. \A i \in 1 .. k : i \in DOMAIN q
    BY <1>1, <1>2, LenProperties
  <2>2. D \subseteq ClosedSet(t)
    BY <2>1, <1>4 DEF Lists, ToSet, Oldest
  <2> QED BY <2>2 DEF ClosedSet
<1>7. /\ u.strm = DestroyOldest(t.strm, q, k) /\ u.idleQ = t.idleQ
      /\ u.nIncoming = t.nIncoming /\ u.closedQ = SubSeq(q, k + 1, Len(q))
  BY <1>1, <1>3
<1>8. \A x \in StreamIds : u.strm[x] = IF x \in D THEN NoStream ELSE t.strm[x]
  BY <1>1, <1>2, <1>7, DestroyOldestType
<1> HIDE DEF D
<1>9. Fades(t, u, w) /\ Spares(t, u)
  BY <1>6, <1>8 DEF Fades, Spares, Live
<1>10. Room(u) <= max
  BY <1>2, <1>5, <1>7 DEF Room
<1> QED BY <1>7, <1>9, <1>10 DEF u

\* A stream is closed: it takes a place in the closed list for the one it had.
LEMMA CloseStreamFades ==
  ASSUME NEW t, TableOK(t), NEW s \in StreamIds, NEW w
  PROVE  LET u == CloseStream(t, s)
         IN  /\ Fades(t, u, w) /\ Room(u) = Room(t) /\ u.idleQ = t.idleQ
             /\ ~Live(u, s) /\ \A x \in StreamIds \ {s} : u.strm[x] = t.strm[x]
<1>1. CASE ~Live(t, s)
  BY <1>1 DEF CloseStream, Fades
<1>2. CASE Live(t, s)
  <2> DEFINE r == [t.strm[s] EXCEPT !.closed = TRUE, !.item = "none"]
             u == CloseStream(t, s)
  <2>1. /\ t = [strm |-> t.strm, closedQ |-> t.closedQ, idleQ |-> t.idleQ,
                nIncoming |-> t.nIncoming]
        /\ t.strm \in [StreamIds -> Stream] /\ t.nIncoming \in Int
        /\ t.closedQ \in Seq(StreamIds) /\ t.strm[s] \in Stream
    BY DEF TableOK, Table
  <2>2. u = [t EXCEPT !.strm[s] = r, !.nIncoming = @ - 1, !.closedQ = Append(@, s)]
    BY <1>2, <2>1 DEF CloseStream
  <2>3. r.closed
    BY <2>1 DEF Stream
  <2> HIDE DEF r, u
  <2>4. u = [strm |-> [t.strm EXCEPT ![s] = r], closedQ |-> Append(t.closedQ, s),
             idleQ |-> t.idleQ, nIncoming |-> t.nIncoming - 1]
    BY <2>1, <2>2
  <2>5. u.strm[s] = r /\ \A x \in StreamIds \ {s} : u.strm[x] = t.strm[x]
    BY <2>1, <2>4
  <2>6. Fades(t, u, w)
    BY <1>2, <2>5 DEF Fades, r
  <2>7. Room(u) = Room(t)
    <3>1. Len(Append(t.closedQ, s)) = Len(t.closedQ) + 1 /\ Len(t.closedQ) \in Nat
      BY <2>1, AppendProperties, LenProperties
    <3> QED BY <3>1, <2>1, <2>4 DEF Room
  <2> QED BY <2>3, <2>4, <2>5, <2>6, <2>7 DEF u, Live
<1> QED BY <1>1, <1>2

\* GOAWAY closes a set of streams.
LEMMA CloseAllFades ==
  ASSUME NEW t, TableOK(t), NEW R \in SUBSET LiveSet(t), NEW q \in Orders(R), NEW w
  PROVE  LET u == CloseAll(t, q)
         IN  /\ Fades(t, u, w) /\ Room(u) = Room(t) /\ u.idleQ = t.idleQ
             /\ \A x \in StreamIds : IF x \in R THEN ~Live(u, x) ELSE u.strm[x] = t.strm[x]
<1> DEFINE u == CloseAll(t, q)
           c(x) == [t.strm[x] EXCEPT !.closed = TRUE, !.item = "none"]
<1>1. /\ t = [strm |-> t.strm, closedQ |-> t.closedQ, idleQ |-> t.idleQ,
              nIncoming |-> t.nIncoming]
      /\ t.strm \in [StreamIds -> Stream] /\ t.nIncoming \in Int
      /\ t.closedQ \in Seq(StreamIds)
  BY DEF TableOK, Table
<1>2. /\ q \in Seq(StreamIds) /\ ToSet(q) = R
      /\ R \subseteq StreamIds /\ \A x \in R : Live(t, x)
  <2>1. R \in SUBSET StreamIds /\ \A x \in R : Live(t, x)
    BY DEF LiveSet
  <2> QED BY <2>1, OrdersList DEF Lists
<1>3. ASSUME NEW x \in R
      PROVE  CloseStream(t, x).strm[x] = c(x) /\ c(x).closed
  <2>1. t.strm[x] \in Stream /\ Live(t, x) /\ x \in StreamIds
    BY <1>1, <1>2
  <2>2. CloseStream(t, x).strm = [t.strm EXCEPT ![x] = c(x)]
    <3>1. CloseStream(t, x) = [t EXCEPT !.strm[x] = c(x), !.nIncoming = @ - 1,
                                        !.closedQ = Append(@, x)]
      BY <2>1, <1>1 DEF CloseStream
    <3> HIDE DEF c
    <3> QED BY <3>1, <1>1
  <2> QED BY <2>1, <2>2, <1>1 DEF Stream
<1> HIDE DEF c
<1>4. /\ u.strm = [x \in StreamIds |-> IF x \in ToSet(q) THEN CloseStream(t, x).strm[x]
                                                         ELSE t.strm[x]]
      /\ u.nIncoming = t.nIncoming - Len(q) /\ u.closedQ = t.closedQ \o q
      /\ u.idleQ = t.idleQ
  BY <1>1 DEF CloseAll
<1> HIDE DEF u
<1>5. \A x \in StreamIds : u.strm[x] = IF x \in R THEN c(x) ELSE t.strm[x]
  BY <1>2, <1>3, <1>4
<1>6. Fades(t, u, w)
  BY <1>2, <1>5 DEF Fades, c
<1>7. \A x \in StreamIds : IF x \in R THEN ~Live(u, x) ELSE u.strm[x] = t.strm[x]
  BY <1>3, <1>5 DEF Live
<1>8. Room(u) = Room(t)
  <2>1. /\ Len(t.closedQ \o q) = Len(t.closedQ) + Len(q)
        /\ Len(t.closedQ) \in Nat /\ Len(q) \in Nat
    BY <1>1, <1>2, ConcatProperties, LenProperties
  <2> QED BY <2>1, <1>1, <1>4 DEF Room
<1> QED BY <1>4, <1>6, <1>7, <1>8 DEF u

-----------------------------------------------------------------------------
(* Operations on one stream. *)

\* Stream s changes and nothing else does.
Point(t, u, s, r) ==
  /\ u.strm[s] = r /\ \A x \in StreamIds \ {s} : u.strm[x] = t.strm[x]
  /\ Room(u) = Room(t) /\ u.idleQ = t.idleQ

\* One entry is replaced.
LEMMA PointEffect ==
  ASSUME NEW t, TableOK(t), NEW s \in StreamIds, NEW r, NEW u, u = [t EXCEPT !.strm[s] = r]
  PROVE  Point(t, u, s, r)
<1>1. /\ t = [strm |-> t.strm, closedQ |-> t.closedQ, idleQ |-> t.idleQ,
              nIncoming |-> t.nIncoming]
      /\ t.strm \in [StreamIds -> Stream]
  BY DEF TableOK, Table
<1>2. /\ u.strm = [t.strm EXCEPT ![s] = r] /\ u.closedQ = t.closedQ
      /\ u.idleQ = t.idleQ /\ u.nIncoming = t.nIncoming
  BY <1>1
<1> QED BY <1>1, <1>2 DEF Room, Point

\* What the new entry must be for the rest to hold.
LEMMA PointAges ==
  ASSUME NEW t, TableOK(t), NEW s \in StreamIds, NEW r \in Stream, NEW u,
         Point(t, u, s, r), NEW iw, EntriesOK(t, iw), EntryOK(s, r, iw),
         r.st \notin {"ABSENT", "IDLE"} /\ ~r.closed => Live(t, s),
         t.strm[s].st = "CLOSING" => r.st = "CLOSING",
         t.strm[s].rd => r.rd,
         t.strm[s].st \in {"ABSENT", "IDLE"} => r.st \in {"ABSENT", "IDLE"}
  PROVE  EntriesOK(u, iw) /\ Ages(t, u)
<1>1. EntriesOK(u, iw)
  BY DEF Point, EntriesOK
<1>2. Ages(t, u)
  BY DEF Point, Ages, Live
<1> QED BY <1>1, <1>2

\* nghttp2_session_add_rst_stream marks a live stream, and any other not at all.
LEMMA MarkClosingAges ==
  ASSUME NEW t, TableOK(t), NEW s \in StreamIds, NEW iw, EntriesOK(t, iw)
  PROVE  LET u == MarkClosing(t, s)
         IN  /\ EntriesOK(u, iw) /\ Ages(t, u) /\ Waits(t, u) /\ Spares(t, u)
             /\ Room(u) = Room(t)
             /\ \A x \in StreamIds : u.strm[x].rd = t.strm[x].rd
             /\ \A x \in StreamIds \ {s} : u.strm[x] = t.strm[x]
             /\ Live(u, s) => u.strm[s].st = "CLOSING"
<1> DEFINE u == MarkClosing(t, s)
           r == [t.strm[s] EXCEPT !.st = "CLOSING"]
<1>1. t.strm[s] \in Stream /\ EntryOK(s, t.strm[s], iw)
  BY DEF TableOK, Table, EntriesOK
<1>2. CASE ~Live(t, s)
  <2>1. u = t
    BY <1>2 DEF MarkClosing
  <2> HIDE DEF u
  <2> QED BY <2>1, <1>2 DEF u, Ages, Waits, Spares, EntriesOK
<1>3. CASE Live(t, s)
  <2>1. u = [t EXCEPT !.strm[s] = r]
    BY <1>3 DEF MarkClosing, TableOK, Table
  <2>2. /\ r \in Stream /\ r.st = "CLOSING" /\ r.closed = t.strm[s].closed
        /\ r.rd = t.strm[s].rd /\ r.wr = t.strm[s].wr /\ r.item = t.strm[s].item
        /\ t.strm[s].st \notin {"ABSENT", "IDLE"}
    BY <1>1, <1>3 DEF Stream, States, Live
  <2> HIDE DEF u, r
  <2>3. Point(t, u, s, r)
    BY <2>1, PointEffect
  <2>4. EntryOK(s, r, iw)
    BY <1>1, <1>3, <2>2 DEF EntryOK, Live
  <2>5. EntriesOK(u, iw) /\ Ages(t, u)
    BY <2>2, <2>3, <2>4, <1>3, PointAges
  <2>6. Waits(t, u) /\ Spares(t, u)
    BY <2>2, <2>3, <1>3 DEF Point, Waits, Spares, Live
  <2> QED BY <2>2, <2>3, <2>5, <2>6, <1>3 DEF u, Point, Live
<1> QED BY <1>2, <1>3

\* Closing a stream that has just changed.
LEMMA CloseChanged ==
  ASSUME NEW t, NEW s \in StreamIds, NEW v, TableOK(v), Point(t, v, s, v.strm[s])
  PROVE  LET u == CloseStream(v, s)
         IN  /\ Point(t, u, s, u.strm[s])
             /\ IF Live(v, s) THEN u.strm[s] = [v.strm[s] EXCEPT !.closed = TRUE, !.item = "none"]
                ELSE u = v
<1> DEFINE u == CloseStream(v, s)
<1>1. Room(u) = Room(v) /\ u.idleQ = v.idleQ /\ \A x \in StreamIds \ {s} : u.strm[x] = v.strm[x]
  BY CloseStreamFades
<1>2. CASE Live(v, s)
  <2>1. u.strm[s] = [v.strm[s] EXCEPT !.closed = TRUE, !.item = "none"]
    <3> DEFINE r == [v.strm[s] EXCEPT !.closed = TRUE, !.item = "none"]
    <3>1. u = [v EXCEPT !.strm[s] = r, !.nIncoming = @ - 1, !.closedQ = Append(@, s)]
      BY <1>2 DEF CloseStream, TableOK, Table
    <3> HIDE DEF r
    <3>2. u.strm = [v.strm EXCEPT ![s] = r] /\ v.strm \in [StreamIds -> Stream]
      BY <3>1 DEF TableOK, Table
    <3> HIDE DEF u
    <3> QED BY <3>2 DEF r
  <2> HIDE DEF u
  <2> QED BY <2>1, <1>1, <1>2 DEF Point, u
<1>3. CASE ~Live(v, s)
  BY <1>3 DEF CloseStream
<1> QED BY <1>2, <1>3

\* A direction of a live stream is shut, which closes the stream if it was the second.
LEMMA ShutAges ==
  ASSUME NEW t, TableOK(t), NEW s \in StreamIds, NEW iw, EntriesOK(t, iw), Live(t, s),
         NEW v, TableOK(v), Point(t, v, s, v.strm[s]), v.strm[s] \in Stream,
         v.strm[s].st = t.strm[s].st, ~v.strm[s].closed,
         t.strm[s].rd => v.strm[s].rd,
         v.strm[s].item # "none" => t.strm[s].item # "none"
  PROVE  LET u == CloseIfShut(v, s)
         IN  /\ EntriesOK(u, iw) /\ Ages(t, u) /\ Point(t, u, s, u.strm[s])
             /\ Live(u, s) <=> ~(v.strm[s].rd /\ v.strm[s].wr)
             /\ Live(u, s) => u = v
             /\ u.strm[s].item # "none" => u = v
             /\ u.strm[s].rd = v.strm[s].rd /\ u.strm[s].wr = v.strm[s].wr
             /\ u.strm[s].st = t.strm[s].st
<1> DEFINE u == CloseIfShut(v, s)
           r == v.strm[s]
           c == [r EXCEPT !.closed = TRUE, !.item = "none"]
<1>1. t.strm[s] \in Stream /\ EntryOK(s, t.strm[s], iw) /\ Live(v, s)
  BY DEF TableOK, Table, EntriesOK, Live
<1>2. /\ c \in Stream /\ c.st = t.strm[s].st /\ c.closed /\ c.item = "none"
      /\ c.rd = r.rd /\ c.wr = r.wr
  BY DEF Stream
<1>3. CASE r.rd /\ r.wr
  <2>1. Point(t, u, s, c) /\ u.strm[s] = c
    BY <1>1, <1>3, CloseChanged DEF CloseIfShut, Point
  <2> HIDE DEF u, c
  <2>2. EntryOK(s, c, iw)
    BY <1>1, <1>2 DEF EntryOK, Live
  <2>3. EntriesOK(u, iw) /\ Ages(t, u)
    BY <2>1, <2>2, <1>1, <1>2, PointAges
  <2> QED BY <2>1, <2>3, <1>2, <1>3 DEF u, Live
<1>4. CASE ~(r.rd /\ r.wr)
  <2>1. u = v
    BY <1>4 DEF CloseIfShut
  <2>2. EntryOK(s, r, iw)
    BY <1>1, <1>4 DEF EntryOK, Live
  <2> HIDE DEF u
  <2>3. EntriesOK(u, iw) /\ Ages(t, u)
    BY <2>1, <2>2, <1>1, PointAges
  <2> QED BY <2>1, <2>3, <1>1, <1>4 DEF u
<1> QED BY <1>3, <1>4

\* END_STREAM shuts its stream for reading, and closes it if it was shut for writing.
LEMMA EndOfStream ==
  ASSUME NEW t, TableOK(t), NEW s \in StreamIds, NEW iw, EntriesOK(t, iw), Live(t, s)
  PROVE  LET u == CloseIfShut(ShutRd(t, s), s)
         IN  /\ EntriesOK(u, iw) /\ Ages(t, u) /\ Waits(t, u)
             /\ Point(t, u, s, u.strm[s]) /\ u.strm[s].st = t.strm[s].st
             /\ u.strm[s].rd
<1> DEFINE v == ShutRd(t, s)
           r == [t.strm[s] EXCEPT !.rd = TRUE]
           u == CloseIfShut(v, s)
<1>1. t.strm[s] \in Stream
  BY DEF TableOK, Table
<1>2. /\ r \in Stream /\ r.st = t.strm[s].st /\ r.closed = t.strm[s].closed /\ r.rd
      /\ r.item = t.strm[s].item /\ r.wr = t.strm[s].wr
  BY <1>1 DEF Stream
<1> HIDE DEF r
<1>3. TableOK(v) /\ Point(t, v, s, r)
  <2>1. v = [t EXCEPT !.strm[s] = r]
    BY DEF ShutRd, TableOK, Table, r
  <2> QED BY <2>1, PointEffect, ShutRdOK
<1> HIDE DEF v
<1>4. v.strm[s] = r
  BY <1>3 DEF Point
<1>5. ~r.closed
  BY <1>2 DEF Live
<1>6. /\ EntriesOK(u, iw) /\ Ages(t, u) /\ Point(t, u, s, u.strm[s])
      /\ Live(u, s) => u = v
      /\ u.strm[s].item # "none" => u = v
      /\ u.strm[s].rd = v.strm[s].rd /\ u.strm[s].wr = t.strm[s].wr
      /\ u.strm[s].st = t.strm[s].st
  BY <1>2, <1>3, <1>4, <1>5, ShutAges
<1> HIDE DEF u
<1>7. Waits(t, u)
  BY <1>2, <1>4, <1>6 DEF Waits, Point, Live
<1>8. u.strm[s].rd
  BY <1>2, <1>4, <1>6
<1> QED BY <1>6, <1>7, <1>8 DEF u, v

\* RST_STREAM shuts its stream for reading and closes it.
LEMMA ResetStream ==
  ASSUME NEW t, TableOK(t), NEW s \in StreamIds, NEW iw, EntriesOK(t, iw), Live(t, s)
  PROVE  LET u == CloseStream(ShutRd(t, s), s)
         IN  /\ EntriesOK(u, iw) /\ Ages(t, u) /\ Waits(t, u) /\ ~Live(u, s)
             /\ Point(t, u, s, u.strm[s]) /\ u.strm[s].st = t.strm[s].st
<1> DEFINE v == ShutRd(t, s)
           r == [t.strm[s] EXCEPT !.rd = TRUE]
           c == [r EXCEPT !.closed = TRUE, !.item = "none"]
           u == CloseStream(v, s)
<1>1. t.strm[s] \in Stream /\ EntryOK(s, t.strm[s], iw)
  BY DEF TableOK, Table, EntriesOK
<1>2. /\ c \in Stream /\ c.st = t.strm[s].st /\ c.closed /\ c.rd
      /\ c.item = "none" /\ c.wr = t.strm[s].wr
      /\ r.st = t.strm[s].st /\ r.closed = t.strm[s].closed
  BY <1>1 DEF Stream
<1>3. TableOK(v) /\ Point(t, v, s, r)
  <2>1. v = [t EXCEPT !.strm[s] = r]
    BY DEF ShutRd, TableOK, Table
  <2> HIDE DEF r
  <2> QED BY <2>1, PointEffect, ShutRdOK
<1> HIDE DEF v
<1>4. v.strm[s] = r /\ Live(v, s)
  BY <1>2, <1>3 DEF Point, Live
<1>5. Point(t, u, s, c) /\ u.strm[s] = c
  <2>1. Point(t, v, s, v.strm[s])
    BY <1>3, <1>4
  <2>2. Point(t, u, s, u.strm[s]) /\ u.strm[s] = [v.strm[s] EXCEPT !.closed = TRUE, !.item = "none"]
    BY <2>1, <1>3, <1>4, CloseChanged
  <2>3. u.strm[s] = c
    BY <2>2, <1>4
  <2> HIDE DEF c, u
  <2> QED BY <2>2, <2>3
<1> HIDE DEF u, c
<1>6. EntryOK(s, c, iw)
  BY <1>1, <1>2 DEF EntryOK, Live
<1>7. EntriesOK(u, iw) /\ Ages(t, u)
  BY <1>1, <1>2, <1>5, <1>6, PointAges DEF Live
<1>8. Waits(t, u) /\ ~Live(u, s)
  BY <1>2, <1>5 DEF Waits, Point, Live
<1> QED BY <1>2, <1>5, <1>7, <1>8 DEF u, v

-----------------------------------------------------------------------------
(* Windows and DATA items. *)

\* Nothing changes on one entry but its window and whether its DATA item waits for it
SameLife(r, q) ==
  /\ q.st = r.st /\ q.closed = r.closed /\ q.rd = r.rd /\ q.wr = r.wr
  /\ q.item = "none" <=> r.item = "none"

\* Waking an item does not touch the life of its stream.
LEMMA ResumeSameLife ==
  ASSUME NEW r \in Stream, NEW w
  PROVE  LET g == [r EXCEPT !.win = w]
         IN  SameLife(r, ResumeIfOpen(g)) /\ ResumeIfOpen(g).win = w
<1> DEFINE g == [r EXCEPT !.win = w]
<1>1. SameLife(r, g) /\ g.win = w
  BY DEF Stream, SameLife
<1>2. /\ g = [st |-> g.st, closed |-> g.closed, rd |-> g.rd, wr |-> g.wr, win |-> g.win,
              item |-> g.item]
  BY DEF Stream
<1> HIDE DEF g
<1>3. SameLife(r, ResumeIfOpen(g)) /\ ResumeIfOpen(g).win = w
  <2>1. CASE g.win > 0 /\ g.item = "deferred"
    <3> DEFINE e == [g EXCEPT !.item = "active"]
    <3>1. ResumeIfOpen(g) = e
      BY <2>1 DEF ResumeIfOpen
    <3>2. /\ e.st = g.st /\ e.closed = g.closed /\ e.rd = g.rd /\ e.wr = g.wr
          /\ e.win = g.win /\ e.item = "active"
      BY <1>2
    <3> HIDE DEF e
    <3> QED BY <3>1, <3>2, <1>1, <2>1 DEF SameLife
  <2>2. CASE ~(g.win > 0 /\ g.item = "deferred")
    BY <1>1, <2>2 DEF ResumeIfOpen
  <2> QED BY <2>1, <2>2
<1> QED BY <1>3 DEF g

\* WINDOW_UPDATE does not touch the life of any stream.
LEMMA GrowWindowAges ==
  ASSUME NEW t, TableOK(t), NEW s \in StreamIds, NEW iw, EntriesOK(t, iw), Live(t, s), NEW n
  PROVE  LET u == GrowWindow(t, s, n)
         IN  /\ EntriesOK(u, iw) /\ Ages(t, u) /\ Calm(t, u) /\ Waits(t, u) /\ Spares(t, u)
             /\ Room(u) = Room(t)
<1> DEFINE u == GrowWindow(t, s, n)
           w == t.strm[s].win + n
           g == [t.strm[s] EXCEPT !.win = w]
           r == ResumeIfOpen(g)
<1>1. t.strm[s] \in Stream /\ EntryOK(s, t.strm[s], iw)
  BY DEF TableOK, Table, EntriesOK
<1>2. SameLife(t.strm[s], r)
  <2> HIDE DEF w
  <2> QED BY <1>1, ResumeSameLife
<1>3. u = [t EXCEPT !.strm[s] = r]
  BY DEF GrowWindow, TableOK, Table
<1> HIDE DEF r, u
<1>4. Point(t, u, s, r)
  BY <1>3, PointEffect
<1>5. EntryOK(s, r, iw)
  BY <1>1, <1>2 DEF EntryOK, SameLife, Live
<1>6. EntriesOK(u, iw) /\ Ages(t, u) /\ Calm(t, u) /\ Waits(t, u) /\ Spares(t, u)
  BY <1>2, <1>4, <1>5 DEF Point, SameLife, EntriesOK, Ages, Calm, Waits, Spares, Live
<1> QED BY <1>4, <1>6 DEF u, Point

\* An item is dropped, or deferred; the life of its stream goes on.
LEMMA SetItemAges ==
  ASSUME NEW t, TableOK(t), NEW s \in StreamIds, NEW iw, EntriesOK(t, iw),
         t.strm[s].item # "none", NEW i \in {"none", "deferred"}
  PROVE  LET u == SetItem(t, s, i)
         IN  /\ EntriesOK(u, iw) /\ Ages(t, u) /\ Calm(t, u) /\ Spares(t, u)
             /\ Room(u) = Room(t) /\ u.idleQ = t.idleQ
             /\ \A x \in StreamIds : u.strm[x].wr = t.strm[x].wr /\ u.strm[x].st = t.strm[x].st
             /\ \A x \in StreamIds : u.strm[x].item = IF x = s THEN i ELSE t.strm[x].item
<1> DEFINE u == SetItem(t, s, i)
           r == [t.strm[s] EXCEPT !.item = i]
<1>1. t.strm[s] \in Stream /\ EntryOK(s, t.strm[s], iw)
  BY DEF TableOK, Table, EntriesOK
<1>2. /\ r \in Stream /\ r.st = t.strm[s].st /\ r.closed = t.strm[s].closed
      /\ r.rd = t.strm[s].rd /\ r.wr = t.strm[s].wr /\ r.item = i /\ r.win = t.strm[s].win
  BY <1>1 DEF Stream
<1>3. u = [t EXCEPT !.strm[s] = r]
  BY DEF SetItem, TableOK, Table
<1> HIDE DEF r, u
<1>4. Point(t, u, s, r)
  BY <1>3, PointEffect
<1>5. EntryOK(s, r, iw)
  BY <1>1, <1>2 DEF EntryOK
<1>6. EntriesOK(u, iw) /\ Ages(t, u) /\ Calm(t, u) /\ Spares(t, u)
  BY <1>2, <1>4, <1>5 DEF Point, EntriesOK, Ages, Calm, Spares, Live
<1> QED BY <1>2, <1>4, <1>6 DEF u, Point

\* What the response HEADERS do to the entry of their stream
Attach(t, s) ==
  [t EXCEPT !.strm[s] =
     [t.strm[s] EXCEPT !.st = "OPENED", !.item = IF @ = "none" THEN "active" ELSE @]]

\* The response HEADERS open a stream for writing and attach its DATA item.
LEMMA AttachAges ==
  ASSUME NEW t, TableOK(t), NEW s \in StreamIds, NEW iw, EntriesOK(t, iw), Live(t, s),
         t.strm[s].st # "CLOSING", NEW u, u = Attach(t, s)
  PROVE  /\ EntriesOK(u, iw) /\ Ages(t, u) /\ Calm(t, u) /\ Spares(t, u)
         /\ Room(u) = Room(t) /\ u.idleQ = t.idleQ
         /\ \A x \in StreamIds : u.strm[x].wr = t.strm[x].wr
         /\ u.strm[s].item # "none" /\ u.strm[s].st = "OPENED"
         /\ \A x \in StreamIds \ {s} : u.strm[x] = t.strm[x]
<1> DEFINE r == [t.strm[s] EXCEPT !.st = "OPENED", !.item = IF @ = "none" THEN "active" ELSE @]
<1>1. t.strm[s] \in Stream /\ EntryOK(s, t.strm[s], iw)
  BY DEF TableOK, Table, EntriesOK
<1>2. /\ r \in Stream /\ r.st = "OPENED" /\ r.closed = t.strm[s].closed
      /\ r.rd = t.strm[s].rd /\ r.wr = t.strm[s].wr /\ r.item # "none" /\ r.win = t.strm[s].win
  BY <1>1 DEF Stream, States
<1>3. u = [t EXCEPT !.strm[s] = r]
  BY DEF Attach
<1> HIDE DEF r
<1>4. Point(t, u, s, r) /\ EntryOK(s, r, iw)
  BY <1>1, <1>2, <1>3, PointEffect DEF EntryOK, Live
<1>5. EntriesOK(u, iw) /\ Ages(t, u) /\ Calm(t, u) /\ Spares(t, u)
  BY <1>2, <1>4 DEF Point, EntriesOK, Ages, Calm, Spares, Live
<1> QED BY <1>2, <1>4, <1>5 DEF Point

\* What a DATA frame of n bytes does to the entry of its stream
Pay(t, s, n) == [t EXCEPT !.strm[s].win = @ - n]

\* DATA is paid from a window; the frame that ends the response shuts its stream for
\* writing, and closes it if it was shut for reading.
LEMMA PayAges ==
  ASSUME NEW t, TableOK(t), NEW s \in StreamIds, NEW iw, EntriesOK(t, iw), Live(t, s),
         NEW n, NEW v, v = Pay(t, s, n), TableOK(v)
  PROVE  /\ EntriesOK(v, iw) /\ Ages(t, v) /\ Calm(t, v) /\ Waits(t, v) /\ Spares(t, v)
         /\ Room(v) = Room(t) /\ v.idleQ = t.idleQ
         /\ Point(t, v, s, v.strm[s]) /\ SameLife(t.strm[s], v.strm[s])
<1> DEFINE w == t.strm[s].win - n
           r == [t.strm[s] EXCEPT !.win = w]
<1>1. t.strm[s] \in Stream /\ EntryOK(s, t.strm[s], iw)
  BY DEF TableOK, Table, EntriesOK
<1>2. SameLife(t.strm[s], r)
  <2> HIDE DEF w
  <2> QED BY <1>1 DEF Stream, SameLife
<1>3. v = [t EXCEPT !.strm[s] = r]
  BY DEF TableOK, Table, Pay
<1> HIDE DEF r
<1>4. Point(t, v, s, r) /\ v.strm[s] = r
  <2>1. Point(t, v, s, r)
    BY <1>3, PointEffect
  <2> QED BY <2>1 DEF Point
<1>5. EntryOK(s, r, iw)
  BY <1>1, <1>2 DEF EntryOK, SameLife, Live
<1>6. EntriesOK(v, iw) /\ Ages(t, v) /\ Calm(t, v) /\ Waits(t, v) /\ Spares(t, v)
  BY <1>2, <1>4, <1>5 DEF Point, SameLife, EntriesOK, Ages, Calm, Waits, Spares, Live
<1> QED BY <1>2, <1>4, <1>6 DEF Point

\* The end of a response.
LEMMA EndOfResponse ==
  ASSUME NEW t, TableOK(t), NEW s \in StreamIds, NEW iw, EntriesOK(t, iw), Live(t, s)
  PROVE  LET u == CloseIfShut(ShutWr(SetItem(t, s, "none"), s), s)
         IN  /\ EntriesOK(u, iw) /\ Ages(t, u) /\ Calm(t, u)
             /\ Point(t, u, s, u.strm[s]) /\ u.strm[s].item = "none"
             /\ ~t.strm[s].rd => Live(u, s)
<1> DEFINE d == SetItem(t, s, "none")
           v == ShutWr(d, s)
           u == CloseIfShut(v, s)
           r == [[t.strm[s] EXCEPT !.item = "none"] EXCEPT !.wr = TRUE]
<1>1. t.strm[s] \in Stream
  BY DEF TableOK, Table
<1>2. /\ r \in Stream /\ r.st = t.strm[s].st /\ r.closed = t.strm[s].closed
      /\ r.rd = t.strm[s].rd /\ r.wr /\ r.item = "none"
  BY <1>1 DEF Stream
<1>3. TableOK(d) /\ d = [t EXCEPT !.strm[s] = [t.strm[s] EXCEPT !.item = "none"]]
  BY SetItemOK DEF SetItem, TableOK, Table
<1>4. TableOK(v) /\ v.strm[s] = r /\ Point(t, v, s, r)
  <2>1. d.strm[s] = [t.strm[s] EXCEPT !.item = "none"]
    BY <1>3 DEF TableOK, Table
  <2> DEFINE c == [t.strm[s] EXCEPT !.item = "none"]
  <2>2. Point(t, d, s, c)
    <3> HIDE DEF c
    <3> QED BY <1>3, PointEffect DEF c
  <2> HIDE DEF d
  <2>3. v = [d EXCEPT !.strm[s] = r]
    BY <1>3, <2>1 DEF ShutWr, TableOK, Table
  <2> HIDE DEF r, c, v
  <2>4. Point(d, v, s, r)
    BY <1>3, <2>3, PointEffect
  <2>5. TableOK(v)
    BY <1>3, ShutWrOK DEF v
  <2> QED BY <2>2, <2>4, <2>5 DEF Point
<1> HIDE DEF r, v
<1>5. ~r.closed
  BY <1>2 DEF Live
<1>6. /\ EntriesOK(u, iw) /\ Ages(t, u) /\ Point(t, u, s, u.strm[s])
      /\ Live(u, s) <=> ~(r.rd /\ r.wr)
      /\ u.strm[s].item # "none" => u = v
      /\ u.strm[s].rd = r.rd /\ u.strm[s].st = t.strm[s].st
  BY <1>2, <1>4, <1>5, ShutAges
<1> HIDE DEF u
<1>7. u.strm[s].item = "none"
  BY <1>2, <1>4, <1>6
<1>8. Calm(t, u)
  BY <1>2, <1>6 DEF Calm, Point
<1> QED BY <1>2, <1>6, <1>7, <1>8 DEF u, v, d

\* SETTINGS moves the window of every stream, and resets the live ones whose window
\* would overflow; an idle stream has the initial window and follows it.
LEMMA UpdateInitialWindowAges ==
  ASSUME NEW t, TableOK(t), NEW new \in 0 .. MaxWindow, NEW old \in 0 .. MaxWindow,
         EntriesOK(t, old)
  PROVE  LET u == UpdateInitialWindow(t, new, old)
         IN  /\ EntriesOK(u, new) /\ Ages(t, u) /\ Waits(t, u) /\ Spares(t, u)
             /\ Room(u) = Room(t)
             /\ \A x \in StreamIds :
                  /\ u.strm[x].rd = t.strm[x].rd
                  /\ x \in WindowOverflows(t, new, old) =>
                       /\ t.strm[x].st \notin {"ABSENT", "IDLE"}
                       /\ Live(u, x) => u.strm[x].st = "CLOSING"
                  /\ x \notin WindowOverflows(t, new, old) => u.strm[x].st = t.strm[x].st
<1> DEFINE u == UpdateInitialWindow(t, new, old)
           g(x) == [t.strm[x] EXCEPT !.win = @ + new - old]
           v(x) == IF ~Mapped(t, x) THEN t.strm[x]
                   ELSE IF Overflows(t, x, new, old) THEN MarkClosing(t, x).strm[x]
                   ELSE ResumeIfOpen(g(x))
<1>1. u.strm = [x \in StreamIds |-> v(x)] /\ Room(u) = Room(t)
  BY DEF UpdateInitialWindow, TableOK, Table, Room
<1> HIDE DEF u
<1>2. ASSUME NEW x \in StreamIds
      PROVE  LET r == t.strm[x]
                 q == u.strm[x]
             IN  \/ /\ ~Mapped(t, x) \/ Overflows(t, x, new, old)
                    /\ ~Live(t, x) /\ q = r
                 \/ Live(t, x) /\ Overflows(t, x, new, old) /\ q = [r EXCEPT !.st = "CLOSING"]
                 \/ /\ Mapped(t, x) /\ ~Overflows(t, x, new, old) /\ SameLife(r, q)
                    /\ q.win = r.win + new - old
  <2>1. u.strm[x] = v(x) /\ t.strm[x] \in Stream
    BY <1>1 DEF TableOK, Table
  <2>2. CASE ~Mapped(t, x)
    BY <2>1, <2>2 DEF Mapped, Live
  <2>3. CASE Mapped(t, x) /\ Overflows(t, x, new, old)
    <3>1. u.strm[x] = MarkClosing(t, x).strm[x]
      BY <2>1, <2>3
    <3>2. u.strm[x] = IF Live(t, x) THEN [t.strm[x] EXCEPT !.st = "CLOSING"] ELSE t.strm[x]
      BY <3>1 DEF MarkClosing, TableOK, Table
    <3> QED BY <3>2, <2>3
  <2>4. CASE Mapped(t, x) /\ ~Overflows(t, x, new, old)
    <3> DEFINE w == t.strm[x].win + new - old
               h == [t.strm[x] EXCEPT !.win = w]
    <3>1. u.strm[x] = ResumeIfOpen(h)
      BY <2>1, <2>4
    <3> HIDE DEF w
    <3>2. SameLife(t.strm[x], ResumeIfOpen(h)) /\ ResumeIfOpen(h).win = w
      BY <2>1, ResumeSameLife
    <3> HIDE DEF h
    <3>3. SameLife(t.strm[x], u.strm[x]) /\ u.strm[x].win = t.strm[x].win + new - old
      BY <3>1, <3>2 DEF w
    <3> QED BY <3>3, <2>4
  <2> QED BY <2>2, <2>3, <2>4
<1> HIDE DEF v, g
<1>3. ASSUME NEW x \in StreamIds
      PROVE  /\ EntryOK(x, u.strm[x], new)
             /\ Live(t, x) <=> Live(u, x)
             /\ t.strm[x].st = "CLOSING" => u.strm[x].st = "CLOSING"
             /\ u.strm[x].rd = t.strm[x].rd /\ u.strm[x].wr = t.strm[x].wr
             /\ u.strm[x].item = "none" <=> t.strm[x].item = "none"
             /\ t.strm[x].st \in {"ABSENT", "IDLE"} => u.strm[x].st \in {"ABSENT", "IDLE"}
             /\ x \in WindowOverflows(t, new, old) =>
                  /\ t.strm[x].st \notin {"ABSENT", "IDLE"}
                  /\ Live(u, x) => u.strm[x].st = "CLOSING"
             /\ x \notin WindowOverflows(t, new, old) => u.strm[x].st = t.strm[x].st
  <2>1. EntryOK(x, t.strm[x], old) /\ t.strm[x] \in Stream
    BY DEF EntriesOK, TableOK, Table
  <2>2. x \in WindowOverflows(t, new, old) <=> Mapped(t, x) /\ Overflows(t, x, new, old)
    BY DEF WindowOverflows
  <2>3. t.strm[x].st = "IDLE" => ~Overflows(t, x, new, old) /\ t.strm[x].win + new - old = new
    <3>1. t.strm[x].st = "IDLE" => t.strm[x].win = old
      BY <2>1 DEF EntryOK
    <3>2. old + new - old = new /\ new \in Windows
      BY MaxWindowAssumption DEF Windows
    <3> QED BY <3>1, <3>2 DEF Overflows
  <2>4. CASE /\ ~Mapped(t, x) \/ Overflows(t, x, new, old)
             /\ ~Live(t, x) /\ u.strm[x] = t.strm[x]
    BY <2>1, <2>2, <2>3, <2>4 DEF EntryOK, Mapped, Live
  <2>5. CASE /\ Live(t, x) /\ Overflows(t, x, new, old)
             /\ u.strm[x] = [t.strm[x] EXCEPT !.st = "CLOSING"]
    <3>1. /\ u.strm[x].st = "CLOSING" /\ u.strm[x].closed = t.strm[x].closed
          /\ u.strm[x].rd = t.strm[x].rd /\ u.strm[x].wr = t.strm[x].wr
          /\ u.strm[x].item = t.strm[x].item
      BY <2>1, <2>5 DEF Stream
    <3> QED BY <3>1, <2>1, <2>2, <2>5 DEF EntryOK, Mapped, Live
  <2>6. CASE /\ Mapped(t, x) /\ ~Overflows(t, x, new, old) /\ SameLife(t.strm[x], u.strm[x])
             /\ u.strm[x].win = t.strm[x].win + new - old
    BY <2>1, <2>2, <2>3, <2>6 DEF EntryOK, SameLife, Mapped, Live
  <2> QED BY <1>2, <2>4, <2>5, <2>6
<1>4. EntriesOK(u, new) /\ Ages(t, u) /\ Waits(t, u) /\ Spares(t, u)
  BY <1>3 DEF EntriesOK, Ages, Waits, Spares
<1> QED BY <1>1, <1>3, <1>4 DEF u

-----------------------------------------------------------------------------
(* The request that opens a stream. *)

\* A stream that is opened begins its life.
LEMMA OpenIncomingLife ==
  ASSUME NEW t, TableOK(t), NEW s \in StreamIds, t.strm[s].st \in {"ABSENT", "IDLE"},
         NEW iw \in Windows, EntriesOK(t, iw), ~IsMine(s)
  PROVE  LET u == OpenIncoming(t, s, iw)
         IN  /\ EntriesOK(u, iw) /\ Room(u) = Room(t) + 1
             /\ \A x \in StreamIds \ {s} : u.strm[x] = t.strm[x]
             /\ u.strm[s].st = "OPENING" /\ ~u.strm[s].closed /\ ~u.strm[s].rd /\ ~u.strm[s].wr
             /\ u.strm[s].item = "none"
<1> DEFINE idle == t.strm[s].st = "IDLE"
           n == IF idle THEN [t.strm[s] EXCEPT !.st = "OPENING"] ELSE NewStream("OPENING", iw)
           b == IF idle THEN DetachIdle(t, s) ELSE t
           u == OpenIncoming(t, s, iw)
<1>1. t.strm[s] \in Stream /\ EntryOK(s, t.strm[s], iw) /\ t.strm \in [StreamIds -> Stream]
  BY DEF TableOK, Table, EntriesOK
<1>2. /\ n.st = "OPENING" /\ ~n.closed /\ ~n.rd /\ ~n.wr /\ n.item = "none"
  BY <1>1 DEF Stream, NewStream, EntryOK
<1>3. /\ b.strm = t.strm /\ b.closedQ = t.closedQ /\ b.nIncoming = t.nIncoming
      /\ u = [b EXCEPT !.strm[s] = n, !.nIncoming = @ + 1]
      /\ b = [strm |-> b.strm, closedQ |-> b.closedQ, idleQ |-> b.idleQ, nIncoming |-> b.nIncoming]
  BY DEF OpenIncoming, DetachIdle, TableOK, Table
<1> HIDE DEF n, b, u
<1>4. /\ u.strm = [t.strm EXCEPT ![s] = n] /\ u.closedQ = t.closedQ
      /\ u.nIncoming = t.nIncoming + 1
  BY <1>3
<1>5. u.strm[s] = n /\ \A x \in StreamIds \ {s} : u.strm[x] = t.strm[x]
  BY <1>1, <1>4
<1>6. Room(u) = Room(t) + 1
  BY <1>4, LenProperties DEF Room, TableOK, Table
<1>7. EntriesOK(u, iw)
  <2>1. EntryOK(s, n, iw)
    BY <1>2 DEF EntryOK
  <2> QED BY <2>1, <1>5 DEF EntriesOK
<1> QED BY <1>2, <1>5, <1>6, <1>7 DEF u
-----------------------------------------------------------------------------
(* Steps in a row, and what can be counted. *)

\* Nothing happens.
LEMMA LifeReflexive ==
  ASSUME NEW t PROVE Ages(t, t) /\ Calm(t, t) /\ Waits(t, t) /\ Spares(t, t)
BY DEF Ages, Calm, Waits, Spares

\* Two steps in a row.
LEMMA LifeTransitive ==
  ASSUME NEW t, NEW u, NEW v
  PROVE  /\ Ages(t, u) /\ Ages(u, v) => Ages(t, v)
         /\ Calm(t, u) /\ Calm(u, v) => Calm(t, v)
         /\ Ages(u, v) /\ Waits(t, u) /\ Waits(u, v) => Waits(t, v)
         /\ Spares(t, u) /\ Spares(u, v) => Spares(t, v)
<1>1. Ages(t, u) /\ Ages(u, v) => Ages(t, v)
  BY DEF Ages
<1>2. Calm(t, u) /\ Calm(u, v) => Calm(t, v)
  BY DEF Calm
<1>3. Ages(u, v) /\ Waits(t, u) /\ Waits(u, v) => Waits(t, v)
  BY DEF Ages, Waits
<1>4. Spares(t, u) /\ Spares(u, v) => Spares(t, v)
  BY DEF Spares
<1> QED BY <1>1, <1>2, <1>3, <1>4

\* A list is as long as the set it lists is large.
LEMMA ListsLength ==
  ASSUME NEW q \in Seq(StreamIds), NEW S \in SUBSET StreamIds, Lists(q, S)
  PROVE  Len(q) = Cardinality(S) /\ Len(q) \in Nat
<1>1. DOMAIN q = 1 .. Len(q) /\ Len(q) \in Nat
  BY LenProperties
<1>2. q \in Bijection(1 .. Len(q), S)
  <2>1. q \in [1 .. Len(q) -> S] /\ \A y \in S : \E i \in 1 .. Len(q) : q[i] = y
    <3>1. S = {q[i] : i \in 1 .. Len(q)}
      BY <1>1 DEF Lists, ToSet
    <3>2. q = [i \in 1 .. Len(q) |-> q[i]]
      BY <1>1
    <3> QED BY <3>1, <3>2
  <2>2. q \in Injection(1 .. Len(q), S)
    BY <1>1, <2>1 DEF Lists, IsInjective, Injection
  <2> QED BY <2>1, <2>2 DEF Bijection, Surjection
<1> QED BY <1>1, <1>2, FS_CountingElements DEF ExistsBijection

\* session_get_num_active_streams is the number of live streams, and the map holds these,
\* the closed and the idle ones.
LEMMA ActiveCount ==
  ASSUME NEW t, TableOK(t)
  PROVE  /\ NumActive(t) = Cardinality(LiveSet(t))
         /\ Cardinality({s \in StreamIds : Mapped(t, s)}) = Room(t) + Len(t.idleQ)
         /\ Len(t.idleQ) \in Nat /\ Room(t) \in Nat
<1> DEFINE M == {s \in StreamIds : Mapped(t, s)}
           A == LiveSet(t)
           C == ClosedSet(t)
           I == IdleSet(t)
<1>1. /\ t \in Table /\ TableConsistent(t)
      /\ t.closedQ \in Seq(StreamIds) /\ t.idleQ \in Seq(StreamIds)
  BY DEF TableOK, Table
<1>2. M = (A \cup C) \cup I /\ A \cap C = {} /\ (A \cup C) \cap I = {}
  BY <1>1 DEF TableConsistent, LiveSet, ClosedSet, IdleSet, Live, Mapped
<1>3. A \in SUBSET StreamIds /\ C \in SUBSET StreamIds /\ I \in SUBSET StreamIds
  BY DEF LiveSet, ClosedSet, IdleSet
<1>4. IsFiniteSet(A) /\ IsFiniteSet(C) /\ IsFiniteSet(I)
  BY <1>3, StreamIdsAssumption, FS_Subset
<1>5. /\ Len(t.closedQ) = Cardinality(C) /\ Len(t.idleQ) = Cardinality(I)
      /\ t.nIncoming = Cardinality(A)
  BY <1>1, <1>3, ListsLength DEF TableConsistent
<1> HIDE DEF A, C, I, M
<1>6. Cardinality(A) \in Nat /\ Cardinality(C) \in Nat /\ Cardinality(I) \in Nat
  BY <1>4, FS_CardinalityType
<1>7. IsFiniteSet(A \cup C) /\ Cardinality(A \cup C) = Cardinality(A) + Cardinality(C)
  <2>1. /\ IsFiniteSet(A \cup C)
        /\ Cardinality(A \cup C) = Cardinality(A) + Cardinality(C) - Cardinality(A \cap C)
    BY <1>4, FS_Union
  <2>2. Cardinality(A \cap C) = 0
    BY <1>2, FS_EmptySet
  <2> QED BY <2>1, <2>2, <1>6
<1>8. Cardinality(M) = Cardinality(A) + Cardinality(C) + Cardinality(I)
  <2>1. Cardinality((A \cup C) \cup I) =
          Cardinality(A \cup C) + Cardinality(I) - Cardinality((A \cup C) \cap I)
    BY <1>4, <1>7, FS_Union
  <2>2. Cardinality((A \cup C) \cap I) = 0
    BY <1>2, FS_EmptySet
  <2> QED BY <2>1, <2>2, <1>2, <1>6, <1>7
<1>9. NumActive(t) = Cardinality(M) - Len(t.closedQ) - Len(t.idleQ)
  BY DEF NumActive, M
<1>10. NumActive(t) = Cardinality(A) /\ Cardinality(M) = Room(t) + Len(t.idleQ)
  BY <1>5, <1>6, <1>8, <1>9 DEF Room
<1>11. Len(t.idleQ) \in Nat /\ Room(t) \in Nat
  BY <1>5, <1>6 DEF Room
<1> QED BY <1>10, <1>11 DEF M, A

\* A live stream counts.
LEMMA LiveCounts ==
  ASSUME NEW t, TableOK(t), NEW s \in StreamIds, Live(t, s)
  PROVE  NumActive(t) > 0
<1>1. s \in LiveSet(t) /\ IsFiniteSet(LiveSet(t)) /\ Cardinality(LiveSet(t)) \in Nat
  BY LiveSetFinite DEF LiveSet
<1>2. Cardinality(LiveSet(t)) # 0
  BY <1>1, FS_EmptySet
<1>3. NumActive(t) = Cardinality(LiveSet(t))
  BY ActiveCount
<1> QED BY <1>1, <1>2, <1>3

-----------------------------------------------------------------------------
(* The session. *)

\* The table, the windows and the identifiers that a request may still open
TableInv ==
  /\ TableOK(tbl) /\ tbl.nIncoming <= MaxConcurrent
  /\ connWin \in Nat /\ initWin \in 0 .. MaxWindow
  /\ WindowsOK(tbl, initWin) /\ DeferredOK(tbl)
  /\ lastRecv \in StreamOrNone
  /\ OpenAssertion

\* The frames that may be being read; HEADERS and DATA are those of a stream
InFrame ==
  {f \in [k : {"none", "first", "ignoreAll", "ignoredHeaders", "HEADERS", "DATA"},
          s : StreamOrNone, es : BOOLEAN, trailer : BOOLEAN] :
     f.k \in {"HEADERS", "DATA"} => f.s \in StreamIds}

\* What was sent on one stream, counted
OutRecord == [hdr : Nat, body : Nat, fin : Nat, rst : Nat]

\* Everything else.  A frame that is being read, and a callback that is running, are
\* those of a stream; the limit is announced before anything is received; and an
\* upgrade finds a new session.
ControlInv ==
  /\ lastProc \in StreamOrNone
  /\ goaway \subseteq {"TERM_ON_SEND", "TERM_SENT", "SENT", "RECV"}
  /\ localMax \in {MaxConcurrent, DefaultMax} /\ pendingMax \in {MaxConcurrent, DefaultMax}
  /\ inflight \in BOOLEAN
  /\ obUrgent \in Seq({"SETTINGS", "ACK", "PING"})
  /\ obReg \in Seq(OutFrame)
  /\ iframe \in InFrame
  /\ frames \in 0 .. MaxFrames
  /\ pc \in {"start", "idle", "recv", "callback", "send"}
  /\ ret \in {"idle", "callback"}
  /\ held \in [s : StreamOrNone, es : BOOLEAN]
  /\ pc = "callback" \/ (pc = "send" /\ ret = "callback") => held.s \in StreamIds
  /\ sendOK \in BOOLEAN
  /\ left \in [StreamIds -> Nat]
  /\ out \in [StreamIds -> OutRecord]
  /\ delivered \subseteq StreamIds /\ answered \subseteq StreamIds
  /\ refused \subseteq StreamIds
  /\ goneLast \in StreamOrNone \cup {-1}
  /\ pc # "start" => pendingMax = MaxConcurrent
  /\ pc = "start" /\ delivered = {} => tbl = EmptyTable /\ lastRecv = 0

IInv == TableInv /\ ControlInv

-----------------------------------------------------------------------------
(* What the invariant is for. *)

\* The invariant says all of the properties that the theorems at the end state.
LEMMA IInvImplies ==
  ASSUME IInv
  PROVE  /\ TypeOK /\ Consistent /\ OpenAssertion /\ ConcurrencyLimit
         /\ WindowsKept /\ DeferredHasNoWindow
<1> USE DEF IInv
<1>1. TypeOK
  BY DEF TableInv, ControlInv, TypeOK, TableOK, InFrame, OutRecord
<1>2. Consistent /\ OpenAssertion /\ DeferredHasNoWindow
  BY DEF TableInv, TableOK, DeferredOK, Consistent, DeferredHasNoWindow
<1>3. ConcurrencyLimit
  BY DEF TableInv, TableOK, TableConsistent, ConcurrencyLimit
<1>4. WindowsKept
  <2>1. connWin >= 0
    BY DEF TableInv
  <2>2. ASSUME NEW s \in StreamIds, Mapped(tbl, s)
        PROVE  tbl.strm[s].win >= -MaxWindow /\ tbl.strm[s].win - initWin >= -MaxWindow
    <3>1. tbl.strm[s].win - initWin >= -MaxWindow /\ initWin \in Nat
      BY <2>2 DEF TableInv, WindowsOK
    <3>2. tbl.strm[s].win \in Int
      BY MaxWindowAssumption DEF TableInv, TableOK, Table, Stream, Windows
    <3> QED BY <3>1, <3>2, MaxWindowAssumption
  <2> QED BY <2>1, <2>2 DEF WindowsKept
<1> QED BY <1>1, <1>2, <1>3, <1>4

\* nghttp2_session_server_new establishes the invariant.
LEMMA InitIInv ==
  ASSUME Init PROVE IInv
<1>1. TableInv
  <2>1. /\ tbl = EmptyTable /\ TableOK(tbl) /\ tbl.nIncoming = 0
        /\ connWin = InitialWindow /\ initWin = InitialWindow /\ lastRecv = 0
    BY EmptyTableOK DEF Init
  <2>2. /\ \A s \in StreamIds : tbl.strm[s] = NoStream
        /\ NoStream.st = "ABSENT" /\ NoStream.item = "none"
    BY <2>1, NoStreamType DEF EmptyTable
  <2>3. WindowsOK(tbl, initWin) /\ DeferredOK(tbl) /\ OpenAssertion
    BY <2>2 DEF WindowsOK, DeferredOK, OpenAssertion, Mapped
  <2>4. InitialWindow \in Nat /\ InitialWindow \in 0 .. MaxWindow
    BY WindowAssumption, MaxWindowAssumption
  <2> QED BY <2>1, <2>3, <2>4, MaxConcurrentAssumption DEF TableInv, StreamOrNone
<1>2. ControlInv
  <2>1. /\ iframe = [k |-> "first", s |-> 0, es |-> FALSE, trailer |-> FALSE]
        /\ held = [s |-> 0, es |-> FALSE]
    BY DEF Init, FirstSettings, NoFrame, NoHeld
  <2>2. 0 \in StreamOrNone /\ 0 \in 0 .. MaxFrames
    BY MaxFramesAssumption DEF StreamOrNone
  <2>3. /\ left \in [StreamIds -> Nat]
        /\ out \in [StreamIds -> OutRecord]
    BY DEF Init, OutRecord
  <2>4. obUrgent \in Seq({"SETTINGS", "ACK", "PING"}) /\ obReg \in Seq(OutFrame)
    BY DEF Init
  <2>5. iframe \in InFrame /\ held \in [s : StreamOrNone, es : BOOLEAN]
    BY <2>1, <2>2 DEF InFrame
  <2>6. /\ lastProc \in StreamOrNone /\ frames \in 0 .. MaxFrames
        /\ localMax = DefaultMax /\ pendingMax = DefaultMax /\ inflight = FALSE
        /\ pc = "start" /\ ret = "idle" /\ sendOK = TRUE /\ goaway = {}
    BY <2>2 DEF Init
  <2>7. /\ delivered = {} /\ answered = {} /\ refused = {} /\ goneLast = -1
        /\ tbl = EmptyTable /\ lastRecv = 0
    BY DEF Init
  <2> QED BY <2>3, <2>4, <2>5, <2>6, <2>7 DEF ControlInv
<1> QED BY <1>1, <1>2 DEF IInv

-----------------------------------------------------------------------------
(* What the shared steps do to either half. *)

\* No stream is opened and no window moves.
LEMMA TableStep ==
  ASSUME TableInv, TableOK(tbl'), Keeps(tbl, tbl', initWin),
         initWin' = initWin, connWin' = connWin, lastRecv' = lastRecv
  PROVE  TableInv'
<1>1. WindowsOK(tbl', initWin') /\ DeferredOK(tbl')
  BY KeepsWindows DEF TableInv
<1>2. tbl'.nIncoming <= MaxConcurrent
  BY MaxConcurrentAssumption DEF TableInv, Keeps, TableOK, Table
<1>3. OpenAssertion'
  BY DEF TableInv, Keeps, OpensNone, OpenAssertion
<1> QED BY <1>1, <1>2, <1>3 DEF TableInv

\* The table is left alone.
LEMMA TableSame ==
  ASSUME TableInv, UNCHANGED <<tbl, initWin, connWin, lastRecv>>
  PROVE  TableInv'
BY DEF TableInv, OpenAssertion

\* The cap of the idle list is a number (nghttp2_session.c:1344-1352).
LEMMA IdleMaxType ==
  ASSUME NEW l \in Nat, NEW p \in Nat
  PROVE  IdleMax(l, p) \in Nat
<1>1. SmallerOf(l, p) \in Nat
  BY DEF SmallerOf
<1>2. LargerOf(IdleFloor, SmallerOf(l, p)) \in Nat
  BY <1>1, IdleAssumption DEF LargerOf
<1> QED BY <1>2, IdleAssumption DEF IdleMax, SmallerOf

\* The limits on streams, announced and acknowledged, are numbers.
LEMMA LimitTypes ==
  ASSUME ControlInv
  PROVE  localMax \in Nat /\ pendingMax \in Nat /\ IdleMax(localMax, pendingMax) \in Nat
         /\ IdleMax(localMax, MaxConcurrent) \in Nat
<1>1. localMax \in Nat /\ pendingMax \in Nat /\ MaxConcurrent \in Nat
  BY MaxConcurrentAssumption, DefaultMaxAssumption DEF ControlInv
<1> QED BY <1>1, IdleMaxType

\* What the handlers append to ob_reg are frames.
LEMMA QueueTypes ==
  ASSUME NEW q \in Seq(OutFrame), NEW s \in StreamIds, NEW t
  PROVE  /\ Append(q, Rst(s)) \in Seq(OutFrame) /\ Append(q, Headers(s)) \in Seq(OutFrame)
         /\ q \o RstItem(t, s) \in Seq(OutFrame)
<1>1. Rst(s) \in OutFrame /\ Headers(s) \in OutFrame
  BY DEF Rst, Headers, OutFrame
<1>2. << Rst(s) >> \in Seq(OutFrame) /\ << >> \in Seq(OutFrame)
  BY <1>1
<1>3. RstItem(t, s) \in Seq(OutFrame)
  BY <1>2 DEF RstItem
<1> QED BY <1>1, <1>3

\* session_terminate_session queues a well-formed GOAWAY.
LEMMA TerminateOK ==
  ASSUME ControlInv, Terminate
  PROVE  /\ goaway' \subseteq {"TERM_ON_SEND", "TERM_SENT", "SENT", "RECV"}
         /\ obReg' \in Seq(OutFrame)
<1>1. Goaway(lastProc) \in OutFrame
  BY DEF ControlInv, Goaway, OutFrame
<1> QED BY <1>1 DEF ControlInv, Terminate

\* nghttp2_session_add_rst_stream marks a stream and queues a frame.
LEMMA AddRstOK ==
  ASSUME TableInv, ControlInv, NEW s \in StreamIds, AddRst(s)
  PROVE  TableOK(tbl') /\ Keeps(tbl, tbl', initWin) /\ obReg' \in Seq(OutFrame)
BY MarkClosingOK, QueueTypes DEF TableInv, ControlInv, AddRst

\* Entering nghttp2_session_send trims the idle list and does nothing else to the table.
LEMMA EnterSendOK ==
  ASSUME NEW t, TableOK(t), Keeps(tbl, t, initWin), TableOK(tbl), NEW r, NEW cap \in Nat,
         EnterSend(t, r, cap)
  PROVE  TableOK(tbl') /\ Keeps(tbl, tbl', initWin)
<1>1. TableOK(tbl') /\ Keeps(t, tbl', initWin)
  BY AdjustIdleOK DEF EnterSend
<1> QED BY <1>1, KeepsTransitive

-----------------------------------------------------------------------------
(* The connection preface and the ends of a buffer. *)

\* nghttp2_session_upgrade2 opens stream 1 in an empty table.
LEMMA UpgradeOK ==
  ASSUME IInv, NEW w \in WindowSizes, Upgrade(w)
  PROVE  IInv'
<1> DEFINE o == OpenIncoming(tbl, 1, initWin')
<1>1. /\ tbl = EmptyTable /\ lastRecv = 0 /\ 1 \in StreamIds /\ TableOK(tbl)
      /\ tbl.strm[1] = NoStream /\ tbl.nIncoming = 0
      /\ \A x \in StreamIds : tbl.strm[x] = NoStream
  BY EmptyTableOK DEF IInv, ControlInv, TableInv, Upgrade, EmptyTable
<1>2. initWin' \in 0 .. MaxWindow /\ initWin' \in Windows
  BY WindowAssumption, MaxWindowAssumption DEF IInv, TableInv, Upgrade, Windows
<1>3. /\ TableOK(o) /\ o.nIncoming = 1
      /\ \A x \in StreamIds \ {1} : o.strm[x] = NoStream
      /\ o.strm[1].item = "none" /\ o.strm[1].win = initWin'
  <2>1. ~Mapped(tbl, 1) /\ tbl.strm[1].st \in {"ABSENT", "IDLE"}
    BY <1>1, NoStreamType DEF Mapped
  <2>2. /\ TableOK(o) /\ o.nIncoming = tbl.nIncoming + 1
        /\ \A x \in StreamIds \ {1} : o.strm[x] = tbl.strm[x]
        /\ \/ /\ Mapped(tbl, 1) /\ o.strm[1].win = tbl.strm[1].win
              /\ o.strm[1].item = tbl.strm[1].item
           \/ o.strm[1].win = initWin' /\ o.strm[1].item = "none"
    BY <1>1, <1>2, <2>1, OpenIncomingOK
  <2> QED BY <2>1, <2>2, <1>1
<1> HIDE DEF o
<1>4. TableOK(tbl') /\ Keeps(o, tbl', initWin') /\ tbl' = ShutRd(o, 1)
  BY <1>1, <1>3, ShutRdOK DEF Upgrade, o
<1>5. WindowsOK(tbl', initWin') /\ DeferredOK(tbl')
  <2>1. WindowsOK(o, initWin') /\ DeferredOK(o)
    BY <1>2, <1>3, NoStreamType, MaxWindowAssumption DEF WindowsOK, DeferredOK, Mapped
  <2> QED BY <2>1, <1>2, <1>3, <1>4, KeepsWindows
<1>6. OpenAssertion'
  <2> SUFFICES ASSUME NEW x \in StreamIds, IsNewPeerStream(x, lastRecv')
               PROVE  tbl'.strm[x].st \in {"ABSENT", "IDLE"}
    BY DEF OpenAssertion
  <2>1. x # 1
    BY DEF Upgrade, IsNewPeerStream
  <2> QED BY <2>1, <1>3, <1>4, NoStreamType DEF Keeps, OpensNone
<1>7. TableInv'
  <2>1. tbl'.nIncoming <= MaxConcurrent
    BY <1>3, <1>4, MaxConcurrentAssumption DEF Keeps, TableOK, Table
  <2> QED BY <2>1, <1>1, <1>2, <1>4, <1>5, <1>6 DEF IInv, TableInv, Upgrade, StreamOrNone
<1>8. ControlInv'
  <2>1. obReg' \in Seq(OutFrame) /\ goaway' \subseteq {"TERM_ON_SEND", "TERM_SENT", "SENT", "RECV"}
    BY TerminateOK DEF IInv, ControlInv, Upgrade
  <2>2. delivered' = {1} /\ delivered' \subseteq StreamIds /\ lastProc' \in StreamOrNone
    BY <1>1 DEF Upgrade, StreamOrNone
  <2>3. /\ UNCHANGED <<localMax, pendingMax, inflight, obUrgent, iframe, frames, pc, ret, held>>
        /\ UNCHANGED <<sendOK, left, out, answered, refused, goneLast>>
    BY DEF Upgrade, limits, input, control, response
  <2> QED BY <2>1, <2>2, <2>3 DEF IInv, ControlInv
<1> QED BY <1>7, <1>8 DEF IInv

\* A rejected upgrade leaves the session as it was.
LEMMA UpgradeRejectedOK ==
  ASSUME IInv, UpgradeRejected PROVE IInv'
<1>1. TableInv'
  BY TableSame DEF IInv, UpgradeRejected, flow, ids
<1>2. ControlInv'
  BY DEF IInv, ControlInv, UpgradeRejected, ids, limits, queues, input, control, response
<1> QED BY <1>1, <1>2 DEF IInv

\* The server announces its limit and sends.
LEMMA ServerPrefaceOK ==
  ASSUME IInv, ServerPreface PROVE IInv'
<1>1. TableInv'
  <2>1. TableOK(tbl') /\ Keeps(tbl, tbl', initWin)
    BY EnterSendOK, KeepsReflexive, LimitTypes DEF IInv, TableInv, ServerPreface
  <2> QED BY <2>1, TableStep DEF IInv, ServerPreface, flow, ids
<1>2. ControlInv'
  BY DEF IInv, ControlInv, ServerPreface, EnterSend, ids, input, response, history
<1> QED BY <1>1, <1>2 DEF IInv

\* nghttp2_session_mem_recv is entered.
LEMMA StartRecvOK ==
  ASSUME IInv, StartRecv PROVE IInv'
<1> DEFINE cap == IdleMax(localMax, pendingMax)
           t == AdjustIdle(tbl, cap)
<1>1. cap \in Nat
  BY LimitTypes DEF IInv
<1> HIDE DEF cap
<1>2. TableOK(t) /\ Keeps(tbl, t, initWin)
  BY <1>1, AdjustIdleOK DEF IInv, TableInv
<1> HIDE DEF t
<1>3. tbl' = t \/ EnterSend(t, "idle", cap)
  BY DEF StartRecv, t, cap
<1>4. TableInv'
  <2>1. TableOK(tbl') /\ Keeps(tbl, tbl', initWin)
    BY <1>1, <1>2, <1>3, EnterSendOK DEF IInv, TableInv
  <2> QED BY <2>1, TableStep DEF IInv, StartRecv, flow, ids
<1>5. ControlInv'
  <2>1. \/ pc' = "recv" /\ UNCHANGED <<ret, sendOK>>
        \/ pc' = "send" /\ ret' = "idle" /\ sendOK' = TRUE
    BY DEF StartRecv, EnterSend
  <2>2. /\ UNCHANGED <<lastProc, goaway, localMax, pendingMax, inflight, obUrgent, obReg>>
        /\ UNCHANGED <<iframe, frames, held, left, out, answered, delivered, refused, goneLast>>
        /\ pc = "idle"
    BY DEF StartRecv, ids, limits, queues, input, response, history
  <2>3. CASE pc' = "recv" /\ UNCHANGED <<ret, sendOK>>
    BY <2>2, <2>3 DEF IInv, ControlInv
  <2>4. CASE pc' = "send" /\ ret' = "idle" /\ sendOK' = TRUE
    BY <2>2, <2>4 DEF IInv, ControlInv
  <2> QED BY <2>1, <2>3, <2>4
<1> QED BY <1>4, <1>5 DEF IInv

\* A buffer is used up and nghttp2_session_send entered.
LEMMA BufferEndOK ==
  ASSUME IInv, BufferEnd PROVE IInv'
<1>1. TableInv'
  <2>1. TableOK(tbl') /\ Keeps(tbl, tbl', initWin)
    BY EnterSendOK, KeepsReflexive, LimitTypes DEF IInv, TableInv, BufferEnd
  <2> QED BY <2>1, TableStep DEF IInv, BufferEnd, flow, ids
<1>2. ControlInv'
  BY DEF IInv, ControlInv, BufferEnd, EnterSend, ids, limits, queues, input, response, history
<1> QED BY <1>1, <1>2 DEF IInv

-----------------------------------------------------------------------------
(* The frames that are received. *)

\* Every value given to iframe is the state of a frame.
LEMMA InFrames ==
  /\ NoFrame \in InFrame /\ IgnoreAll \in InFrame /\ IgnoredHeaders \in InFrame
  /\ \A s \in StreamIds, es \in BOOLEAN, tr \in BOOLEAN : HeadersFrame(s, es, tr) \in InFrame
  /\ \A s \in StreamIds, es \in BOOLEAN : DataFrame(s, es) \in InFrame
BY DEF InFrame, NoFrame, IgnoreAll, IgnoredHeaders, HeadersFrame, DataFrame, StreamOrNone

\* A step in the middle of a buffer keeps the second half of the invariant if what it
\* writes is well typed.
LEMMA RecvStep ==
  ASSUME ControlInv, pc = "recv",
         UNCHANGED <<limits, control, response, goneLast>>,
         lastProc' \in StreamOrNone,
         goaway' \subseteq {"TERM_ON_SEND", "TERM_SENT", "SENT", "RECV"},
         obUrgent' \in Seq({"SETTINGS", "ACK", "PING"}), obReg' \in Seq(OutFrame),
         iframe' \in InFrame, frames' \in 0 .. MaxFrames,
         delivered' \subseteq StreamIds, refused' \subseteq StreamIds
  PROVE  ControlInv'
BY DEF ControlInv, limits, control, response

\* The count of frames stays within its bound.
LEMMA FramesBound ==
  ASSUME ControlInv, frames < MaxFrames, frames' = frames + 1
  PROVE  frames' \in 0 .. MaxFrames
BY MaxFramesAssumption DEF ControlInv

\* The first frame is not SETTINGS.
LEMMA RecvNoSettingsOK ==
  ASSUME IInv, RecvNoSettings PROVE IInv'
<1>1. TableInv'
  BY TableSame DEF IInv, RecvNoSettings, flow, ids
<1>2. ControlInv'
  <2>1. frames' \in 0 .. MaxFrames /\ iframe' \in InFrame
    BY FramesBound, InFrames DEF IInv, RecvNoSettings
  <2>2. goaway' \subseteq {"TERM_ON_SEND", "TERM_SENT", "SENT", "RECV"} /\ obReg' \in Seq(OutFrame)
    BY TerminateOK DEF IInv, RecvNoSettings
  <2> QED BY <2>1, <2>2, RecvStep DEF IInv, ControlInv, RecvNoSettings, ids, history
<1> QED BY <1>1, <1>2 DEF IInv

\* A malformed frame ends the session.
LEMMA RecvInvalidOK ==
  ASSUME IInv, RecvInvalid PROVE IInv'
<1>1. TableInv'
  BY TableSame DEF IInv, RecvInvalid, flow, ids
<1>2. ControlInv'
  <2>1. frames' \in 0 .. MaxFrames /\ iframe' \in InFrame
    BY FramesBound, InFrames DEF IInv, RecvInvalid, Single, Begins
  <2>2. goaway' \subseteq {"TERM_ON_SEND", "TERM_SENT", "SENT", "RECV"} /\ obReg' \in Seq(OutFrame)
    BY TerminateOK DEF IInv, RecvInvalid
  <2> QED BY <2>1, <2>2, RecvStep DEF IInv, ControlInv, RecvInvalid, Single, Begins, ids, history
<1> QED BY <1>1, <1>2 DEF IInv

\* PING is acknowledged.
LEMMA RecvPingOK ==
  ASSUME IInv, RecvPing PROVE IInv'
<1>1. TableInv'
  BY TableSame DEF IInv, RecvPing, flow, ids
<1>2. ControlInv'
  <2>1. frames' \in 0 .. MaxFrames /\ iframe' \in InFrame
    BY FramesBound, InFrames DEF IInv, RecvPing, Single, Begins
  <2>2. obUrgent' \in Seq({"SETTINGS", "ACK", "PING"})
    BY DEF IInv, ControlInv, RecvPing
  <2> QED BY <2>1, <2>2, RecvStep DEF IInv, ControlInv, RecvPing, Single, Begins, ids, history
<1> QED BY <1>1, <1>2 DEF IInv

\* GOAWAY of the peer is noted.
LEMMA RecvGoawayOK ==
  ASSUME IInv, RecvGoaway PROVE IInv'
<1>1. TableInv'
  BY TableSame DEF IInv, RecvGoaway, flow, ids
<1>2. ControlInv'
  <2>1. frames' \in 0 .. MaxFrames /\ iframe' \in InFrame
    BY FramesBound, InFrames DEF IInv, RecvGoaway, Single, Begins
  <2>2. goaway' \subseteq {"TERM_ON_SEND", "TERM_SENT", "SENT", "RECV"}
    BY DEF IInv, ControlInv, RecvGoaway
  <2> QED BY <2>1, <2>2, RecvStep
          DEF IInv, ControlInv, RecvGoaway, Single, Begins, ids, queues, history
<1> QED BY <1>1, <1>2 DEF IInv

\* The acknowledgement makes the announced limit the local one.
LEMMA RecvSettingsAckOK ==
  ASSUME IInv, RecvSettingsAck PROVE IInv'
<1>1. TableInv'
  BY TableSame DEF IInv, RecvSettingsAck, flow, ids
<1>2. ControlInv'
  <2>1. /\ frames' \in 0 .. MaxFrames /\ iframe' \in InFrame
        /\ pc = "recv" /\ UNCHANGED control
    BY FramesBound, InFrames DEF IInv, RecvSettingsAck, Single, Begins
  <2>2. goaway' \subseteq {"TERM_ON_SEND", "TERM_SENT", "SENT", "RECV"} /\ obReg' \in Seq(OutFrame)
    BY TerminateOK DEF IInv, ControlInv, RecvSettingsAck
  <2>3. localMax' \in {MaxConcurrent, DefaultMax} /\ inflight' \in BOOLEAN
    BY DEF IInv, ControlInv, RecvSettingsAck
  <2>4. UNCHANGED <<lastProc, pendingMax, obUrgent, left, out, answered, delivered, refused, goneLast>>
    BY DEF RecvSettingsAck, ids, response, history
  <2> QED BY <2>1, <2>2, <2>3, <2>4 DEF IInv, ControlInv, control
<1> QED BY <1>1, <1>2 DEF IInv

\* WINDOW_UPDATE of the connection keeps its window a number.
LEMMA RecvConnWindowUpdateOK ==
  ASSUME IInv, NEW n \in Increments, RecvConnWindowUpdate(n) PROVE IInv'
<1>1. TableInv'
  <2>1. connWin' \in Nat
    <3>1. n \in Nat /\ connWin \in Nat
      BY WindowAssumption, MaxWindowAssumption DEF IInv, TableInv
    <3>2. connWin' = connWin \/ connWin' = connWin + n
      BY DEF RecvConnWindowUpdate
    <3> QED BY <3>1, <3>2
  <2>2. UNCHANGED <<tbl, initWin, lastRecv>>
    BY DEF RecvConnWindowUpdate, ids
  <2> QED BY <2>1, <2>2 DEF IInv, TableInv, OpenAssertion
<1>2. ControlInv'
  <2>1. frames' \in 0 .. MaxFrames /\ iframe' \in InFrame
    BY FramesBound, InFrames DEF IInv, RecvConnWindowUpdate, Single, Begins
  <2>2. goaway' \subseteq {"TERM_ON_SEND", "TERM_SENT", "SENT", "RECV"} /\ obReg' \in Seq(OutFrame)
    BY TerminateOK DEF IInv, ControlInv, RecvConnWindowUpdate
  <2> QED BY <2>1, <2>2, RecvStep
          DEF IInv, ControlInv, RecvConnWindowUpdate, Single, Begins, ids, history
<1> QED BY <1>1, <1>2 DEF IInv

\* WINDOW_UPDATE of a stream opens its window, resets it or ends the session.
LEMMA RecvWindowUpdateOK ==
  ASSUME IInv, NEW s \in StreamIds, NEW n \in Increments, RecvWindowUpdate(s, n) PROVE IInv'
<1>1. UNCHANGED <<connWin, initWin, lastRecv, lastProc>>
  BY DEF RecvWindowUpdate, flow, ids
<1>2. n \in Nat /\ n <= MaxWindow
  BY WindowAssumption, MaxWindowAssumption
<1>3. \/ UNCHANGED tbl
      \/ AddRst(s)
      \/ ~(MaxWindow - n < tbl.strm[s].win) /\ tbl' = GrowWindow(tbl, s, n)
  BY DEF RecvWindowUpdate
<1>4. TableInv'
  <2>1. CASE UNCHANGED tbl
    BY <2>1, <1>1, TableSame DEF IInv
  <2>2. CASE AddRst(s)
    BY <2>2, <1>1, AddRstOK, TableStep DEF IInv
  <2>3. CASE ~(MaxWindow - n < tbl.strm[s].win) /\ tbl' = GrowWindow(tbl, s, n)
    <3>1. tbl.strm[s].win \in Int
      BY MaxWindowAssumption DEF IInv, TableInv, TableOK, Table, Stream, Windows
    <3>2. tbl.strm[s].win + n <= MaxWindow
      BY <2>3, <3>1, <1>2, MaxWindowAssumption
    <3>3. /\ TableOK(tbl') /\ tbl'.nIncoming = tbl.nIncoming /\ OpensNone(tbl, tbl')
          /\ WindowsOK(tbl', initWin) /\ DeferredOK(tbl')
      BY <2>3, <3>2, <1>2, GrowWindowOK DEF IInv, TableInv
    <3> QED BY <3>3, <1>1 DEF IInv, TableInv, OpenAssertion, OpensNone
  <2> QED BY <1>3, <2>1, <2>2, <2>3
<1>5. ControlInv'
  <2>1. frames' \in 0 .. MaxFrames /\ iframe' \in InFrame
    BY FramesBound, InFrames DEF IInv, RecvWindowUpdate, Single, Begins
  <2>2. goaway' \subseteq {"TERM_ON_SEND", "TERM_SENT", "SENT", "RECV"} /\ obReg' \in Seq(OutFrame)
    BY TerminateOK, AddRstOK DEF IInv, ControlInv, RecvWindowUpdate
  <2> QED BY <2>1, <2>2, <1>1, RecvStep
          DEF IInv, ControlInv, RecvWindowUpdate, Single, Begins, history
<1> QED BY <1>4, <1>5 DEF IInv

\* SETTINGS moves the window of every stream.
LEMMA RecvSettingsOK ==
  ASSUME IInv, NEW w \in WindowSizes, RecvSettings(w) PROVE IInv'
<1>1. /\ UNCHANGED <<connWin, lastRecv, lastProc, delivered, refused>>
      /\ UNCHANGED <<limits, control, response, goneLast>>
  BY DEF RecvSettings, ids, history
<1>2. w \in Nat
  BY WindowAssumption
<1>3. CASE w > MaxWindow
  <2>1. UNCHANGED <<tbl, initWin, obUrgent>> /\ Terminate
    BY <1>2, <1>3, MaxWindowAssumption DEF RecvSettings
  <2>2. TableInv'
    BY <2>1, <1>1, TableSame DEF IInv
  <2>3. frames' \in 0 .. MaxFrames /\ iframe' \in InFrame /\ pc = "recv"
    BY FramesBound, InFrames DEF IInv, RecvSettings
  <2>4. goaway' \subseteq {"TERM_ON_SEND", "TERM_SENT", "SENT", "RECV"} /\ obReg' \in Seq(OutFrame)
    BY <2>1, TerminateOK DEF IInv
  <2>5. ControlInv'
    BY <2>1, <2>3, <2>4, <1>1, RecvStep DEF IInv, ControlInv
  <2> QED BY <2>2, <2>5 DEF IInv
<1>4. CASE w <= MaxWindow
  <2>1. /\ tbl' = UpdateInitialWindow(tbl, w, initWin) /\ initWin' = w /\ UNCHANGED goaway
        /\ \E order \in Orders({s \in WindowOverflows(tbl, w, initWin) :
                                   RstItem(tbl, s) # << >>}) :
             obReg' = obReg \o [i \in DOMAIN order |-> Rst(order[i])]
        /\ obUrgent' = obUrgent \/ obUrgent' = Append(obUrgent, "ACK")
    <3>1. ~(w > MaxWindow)
      BY <1>2, <1>4, MaxWindowAssumption
    <3> QED BY <3>1, Zenon DEF RecvSettings
  <2>2. w \in 0 .. MaxWindow
    BY <1>2, <1>4
  <2>3. /\ TableOK(tbl') /\ tbl'.nIncoming = tbl.nIncoming /\ OpensNone(tbl, tbl')
        /\ WindowsOK(tbl', w) /\ DeferredOK(tbl')
    BY <2>1, <2>2, UpdateInitialWindowOK DEF IInv, TableInv
  <2>4. TableInv'
    BY <2>1, <2>2, <2>3, <1>1 DEF IInv, TableInv, OpenAssertion, OpensNone
  <2>5. frames' \in 0 .. MaxFrames /\ iframe' \in InFrame /\ pc = "recv"
    BY FramesBound, InFrames DEF IInv, RecvSettings
  <2>6. obReg' \in Seq(OutFrame)
    <3> DEFINE R == {s \in WindowOverflows(tbl, w, initWin) : RstItem(tbl, s) # << >>}
    <3>1. R \in SUBSET StreamIds
      BY DEF WindowOverflows
    <3>2. PICK order \in Orders(R) : obReg' = obReg \o [i \in DOMAIN order |-> Rst(order[i])]
      BY <2>1
    <3> HIDE DEF R
    <3>3. order \in Seq(StreamIds)
      BY <3>1, OrdersList
    <3> DEFINE resets == [i \in DOMAIN order |-> Rst(order[i])]
    <3>4. resets \in Seq(OutFrame)
      <4>1. DOMAIN order = 1 .. Len(order) /\ Len(order) \in Nat
            /\ \A i \in 1 .. Len(order) : order[i] \in StreamIds
        BY <3>3, LenProperties, ElementOfSeq
      <4>2. \A i \in 1 .. Len(order) : Rst(order[i]) \in OutFrame
        BY <4>1 DEF Rst, OutFrame
      <4>3. resets \in [1 .. Len(order) -> OutFrame]
        BY <4>1, <4>2
      <4> HIDE DEF resets
      <4> QED BY <4>1, <4>3
    <3>5. obReg' = obReg \o resets
      BY <3>2
    <3> HIDE DEF resets
    <3> QED BY <3>4, <3>5 DEF IInv, ControlInv
  <2>7. obUrgent' \in Seq({"SETTINGS", "ACK", "PING"})
    <3>1. obUrgent' = obUrgent \/ obUrgent' = Append(obUrgent, "ACK")
      BY <2>1, Zenon
    <3>2. obUrgent \in Seq({"SETTINGS", "ACK", "PING"})
      BY DEF IInv, ControlInv
    <3>3. Append(obUrgent, "ACK") \in Seq({"SETTINGS", "ACK", "PING"})
      BY <3>2
    <3> QED BY <3>1, <3>2, <3>3
  <2>8. ControlInv'
    BY <2>1, <2>5, <2>6, <2>7, <1>1, RecvStep DEF IInv, ControlInv
  <2> QED BY <2>4, <2>8 DEF IInv
<1> QED BY <1>2, <1>3, <1>4, MaxWindowAssumption

\* RST_STREAM closes the stream.
LEMMA RecvRstOK ==
  ASSUME IInv, NEW s \in StreamIds, RecvRst(s) PROVE IInv'
<1>1. TableInv'
  <2>1. UNCHANGED tbl \/ tbl' = CloseStream(ShutRd(tbl, s), s)
    BY DEF RecvRst
  <2>2. CASE tbl' = CloseStream(ShutRd(tbl, s), s)
    <3>1. TableOK(tbl) /\ TableOK(ShutRd(tbl, s)) /\ Keeps(tbl, ShutRd(tbl, s), initWin)
      BY ShutRdOK DEF IInv, TableInv
    <3>2. TableOK(tbl') /\ Keeps(ShutRd(tbl, s), tbl', initWin)
      BY <2>2, <3>1, CloseStreamOK
    <3>3. Keeps(tbl, tbl', initWin)
      BY <3>1, <3>2, KeepsTransitive
    <3> QED BY <3>2, <3>3, TableStep DEF IInv, RecvRst, flow, ids
  <2>3. CASE UNCHANGED tbl
    BY <2>3, TableSame DEF IInv, RecvRst, flow, ids
  <2> QED BY <2>1, <2>2, <2>3
<1>2. ControlInv'
  <2>1. frames' \in 0 .. MaxFrames /\ iframe' \in InFrame
    BY FramesBound, InFrames DEF IInv, RecvRst, Single, Begins
  <2>2. goaway' \subseteq {"TERM_ON_SEND", "TERM_SENT", "SENT", "RECV"} /\ obReg' \in Seq(OutFrame)
    BY TerminateOK DEF IInv, ControlInv, RecvRst
  <2> QED BY <2>1, <2>2, RecvStep DEF IInv, ControlInv, RecvRst, Single, Begins, ids, history
<1> QED BY <1>1, <1>2 DEF IInv

\* PRIORITY creates idle streams, and only where there is none.
LEMMA RecvPriorityOK ==
  ASSUME IInv, NEW s \in StreamIds, NEW d \in StreamOrNone, RecvPriority(s, d) PROVE IInv'
<1> DEFINE anchored == AnchorDependency(tbl, d, initWin, lastRecv)
           known == IF Mapped(tbl, s) THEN anchored ELSE CreateIdle(anchored, s, initWin)
           cap == IdleMax(localMax, pendingMax)
<1>1. initWin \in Windows /\ TableOK(tbl) /\ cap \in Nat
  BY LimitTypes, MaxWindowAssumption DEF IInv, TableInv, Windows
<1>2. UNCHANGED tbl \/ (d # s /\ tbl' = AdjustIdle(known, cap))
  BY DEF RecvPriority
<1> HIDE DEF cap
<1>3. TableOK(anchored) /\ Keeps(tbl, anchored, initWin)
  BY <1>1, AnchorDependencyOK DEF StreamOrNone
<1>4. ASSUME d # s PROVE anchored.strm[s] = tbl.strm[s]
  BY <1>1, <1>4, AnchorDependencyOthers
<1> HIDE DEF anchored
<1>5. ASSUME d # s PROVE TableOK(known) /\ Keeps(tbl, known, initWin)
  <2>1. CASE Mapped(tbl, s)
    BY <2>1, <1>3
  <2>2. CASE ~Mapped(tbl, s)
    <3>1. ~Mapped(anchored, s)
      BY <2>2, <1>4, <1>5 DEF Mapped
    <3>2. TableOK(known) /\ Keeps(anchored, known, initWin)
      BY <2>2, <3>1, <1>1, <1>3, CreateIdleOK
    <3> QED BY <3>2, <1>1, <1>3, KeepsTransitive
  <2> QED BY <2>1, <2>2
<1> HIDE DEF known
<1>6. TableInv'
  <2>1. CASE UNCHANGED tbl
    BY <2>1, TableSame DEF IInv, RecvPriority, flow, ids
  <2>2. CASE d # s /\ tbl' = AdjustIdle(known, cap)
    <3>1. TableOK(tbl') /\ Keeps(known, tbl', initWin)
      BY <2>2, <1>1, <1>5, AdjustIdleOK
    <3>2. Keeps(tbl, tbl', initWin)
      BY <2>2, <3>1, <1>1, <1>5, KeepsTransitive
    <3> QED BY <3>1, <3>2, TableStep DEF IInv, RecvPriority, flow, ids
  <2> QED BY <1>2, <2>1, <2>2
<1>7. ControlInv'
  <2>1. frames' \in 0 .. MaxFrames /\ iframe' \in InFrame
    BY FramesBound, InFrames DEF IInv, RecvPriority, Single, Begins
  <2>2. goaway' \subseteq {"TERM_ON_SEND", "TERM_SENT", "SENT", "RECV"} /\ obReg' \in Seq(OutFrame)
    BY TerminateOK DEF IInv, ControlInv, RecvPriority
  <2> QED BY <2>1, <2>2, RecvStep DEF IInv, ControlInv, RecvPriority, Single, Begins, ids, history
<1> QED BY <1>6, <1>7 DEF IInv

\* DATA begins, is ignored or ends the session.
LEMMA RecvDataOK ==
  ASSUME IInv, NEW s \in StreamIds, NEW es \in BOOLEAN, RecvData(s, es) PROVE IInv'
<1>1. TableInv'
  BY TableSame DEF IInv, RecvData, flow, ids
<1>2. ControlInv'
  <2>1. frames' \in 0 .. MaxFrames /\ iframe' \in InFrame
    BY FramesBound, InFrames DEF IInv, RecvData, Begins
  <2>2. goaway' \subseteq {"TERM_ON_SEND", "TERM_SENT", "SENT", "RECV"} /\ obReg' \in Seq(OutFrame)
    BY TerminateOK DEF IInv, ControlInv, RecvData
  <2> QED BY <2>1, <2>2, RecvStep DEF IInv, ControlInv, RecvData, Begins, ids, history
<1> QED BY <1>1, <1>2 DEF IInv

\* HEADERS on a live stream are trailers, ignored, or end the session.
LEMMA RecvTrailersOK ==
  ASSUME IInv, NEW s \in StreamIds, NEW es \in BOOLEAN, RecvTrailers(s, es) PROVE IInv'
<1>1. TableInv'
  BY TableSame DEF IInv, RecvTrailers, flow, ids
<1>2. ControlInv'
  <2>1. frames' \in 0 .. MaxFrames /\ iframe' \in InFrame
    BY FramesBound, InFrames DEF IInv, RecvTrailers, Begins
  <2>2. goaway' \subseteq {"TERM_ON_SEND", "TERM_SENT", "SENT", "RECV"} /\ obReg' \in Seq(OutFrame)
    BY TerminateOK DEF IInv, ControlInv, RecvTrailers
  <2> QED BY <2>1, <2>2, RecvStep DEF IInv, ControlInv, RecvTrailers, Begins, ids, history
<1> QED BY <1>1, <1>2 DEF IInv

\* What a verdict of "open" says of the session.
LEMMA OpenVerdict ==
  ASSUME NEW s, NEW d, RequestVerdict(s, d) = "open"
  PROVE  IsNewPeerStream(s, lastRecv) /\ d # s /\ ~IncomingFull(pendingMax)
BY DEF RequestVerdict

\* A request is opened: the only step that raises the counter, and it was below the
\* limit.
LEMMA OpenRequestOK ==
  ASSUME IInv, pc = "recv", NEW s \in StreamIds, NEW es, NEW d \in StreamOrNone,
         OpenRequest(s, es, d), RecordId(s), UNCHANGED <<connWin, initWin>>
  PROVE  TableInv'
<1> DEFINE anchored == AnchorDependency(tbl, d, initWin, s)
           opened == OpenIncoming(anchored, s, initWin)
           max == RetainMax(localMax, pendingMax)
<1>1. /\ initWin \in Windows /\ initWin \in 0 .. MaxWindow /\ TableOK(tbl)
      /\ WindowsOK(tbl, initWin) /\ DeferredOK(tbl) /\ OpenAssertion
      /\ pendingMax = MaxConcurrent /\ lastRecv \in StreamOrNone
  BY MaxWindowAssumption DEF IInv, TableInv, ControlInv, Windows
<1>2. /\ IsNewPeerStream(s, lastRecv) /\ d # s /\ ~IncomingFull(pendingMax)
      /\ tbl' = AdjustClosed(opened, max)
  BY OpenVerdict DEF OpenRequest
<1>3. lastRecv' = s /\ s \in StreamOrNone
  BY <1>2 DEF RecordId, StreamOrNone
<1>4. max \in Int
  BY LimitTypes DEF IInv, RetainMax
<1> HIDE DEF max
<1>5. TableOK(anchored) /\ Keeps(tbl, anchored, initWin) /\ anchored.strm[s] = tbl.strm[s]
  BY <1>1, <1>2, AnchorDependencyOK, AnchorDependencyOthers DEF StreamOrNone
<1> HIDE DEF anchored
<1>6. WindowsOK(anchored, initWin) /\ DeferredOK(anchored)
  BY <1>1, <1>5, KeepsWindows
<1>7. anchored.strm[s].st \in {"ABSENT", "IDLE"}
  BY <1>1, <1>2, <1>5 DEF OpenAssertion
<1>8. /\ TableOK(opened) /\ opened.nIncoming = anchored.nIncoming + 1
      /\ \A x \in StreamIds \ {s} : opened.strm[x] = anchored.strm[x]
      /\ \/ /\ Mapped(anchored, s) /\ opened.strm[s].win = anchored.strm[s].win
            /\ opened.strm[s].item = anchored.strm[s].item
         \/ opened.strm[s].win = initWin /\ opened.strm[s].item = "none"
  BY <1>1, <1>5, <1>7, OpenIncomingOK
<1> HIDE DEF opened
<1>9. WindowsOK(opened, initWin) /\ DeferredOK(opened)
  <2>1. ASSUME NEW x \in StreamIds, Mapped(opened, x)
        PROVE  opened.strm[x].win - initWin >= -MaxWindow
    <3>1. CASE x # s
      BY <2>1, <3>1, <1>6, <1>8 DEF WindowsOK, Mapped
    <3>2. CASE x = s /\ opened.strm[s].win = initWin
      BY <3>2, <1>1, MaxWindowAssumption
    <3>3. CASE x = s /\ Mapped(anchored, s) /\ opened.strm[s].win = anchored.strm[s].win
      BY <3>3, <1>6 DEF WindowsOK
    <3> QED BY <3>1, <3>2, <3>3, <1>8
  <2>2. ASSUME NEW x \in StreamIds, opened.strm[x].item = "deferred"
        PROVE  opened.strm[x].win <= 0
    <3>1. opened.strm[x].win = anchored.strm[x].win /\ anchored.strm[x].item = "deferred"
      BY <2>2, <1>8
    <3> QED BY <3>1, <1>6 DEF DeferredOK
  <2> QED BY <2>1, <2>2 DEF WindowsOK, DeferredOK
<1>10. TableOK(tbl') /\ Keeps(opened, tbl', initWin)
  BY <1>2, <1>4, <1>8, AdjustClosedOK
<1>11. WindowsOK(tbl', initWin) /\ DeferredOK(tbl')
  BY <1>1, <1>8, <1>9, <1>10, KeepsWindows
<1>12. tbl'.nIncoming <= MaxConcurrent
  <2>1. tbl.nIncoming \in Int /\ anchored.nIncoming \in Int /\ tbl'.nIncoming \in Int
    BY <1>1, <1>5, <1>10 DEF TableOK, Table
  <2>2. /\ anchored.nIncoming <= tbl.nIncoming /\ tbl'.nIncoming <= opened.nIncoming
        /\ ~(MaxConcurrent <= tbl.nIncoming) /\ opened.nIncoming = anchored.nIncoming + 1
    BY <1>1, <1>2, <1>5, <1>8, <1>10 DEF Keeps, IncomingFull
  <2> QED BY <2>1, <2>2, MaxConcurrentAssumption
<1>13. OpenAssertion'
  <2> SUFFICES ASSUME NEW x \in StreamIds, IsNewPeerStream(x, s)
               PROVE  tbl'.strm[x].st \in {"ABSENT", "IDLE"}
    BY <1>3 DEF OpenAssertion
  <2>1. x # s /\ IsNewPeerStream(x, lastRecv)
    BY <1>1, <1>2, StreamIdsAssumption DEF IsNewPeerStream, StreamOrNone
  <2>2. anchored.strm[x].st \in {"ABSENT", "IDLE"}
    BY <2>1, <1>1, <1>5 DEF OpenAssertion, Keeps, OpensNone
  <2>3. opened.strm[x].st \in {"ABSENT", "IDLE"}
    BY <2>1, <2>2, <1>8
  <2> QED BY <2>3, <1>10 DEF Keeps, OpensNone
<1> QED BY <1>1, <1>3, <1>10, <1>11, <1>12, <1>13 DEF IInv, TableInv

\* A request that is not opened: fewer identifiers may still be opened.
LEMMA RecordIdOK ==
  ASSUME TableInv, TableOK(tbl'), Keeps(tbl, tbl', initWin), NEW s \in StreamIds, RecordId(s),
         UNCHANGED <<connWin, initWin>>
  PROVE  TableInv'
<1>1. WindowsOK(tbl', initWin') /\ DeferredOK(tbl')
  BY KeepsWindows DEF TableInv
<1>2. tbl'.nIncoming <= MaxConcurrent
  BY MaxConcurrentAssumption DEF TableInv, Keeps, TableOK, Table
<1>3. lastRecv' = lastRecv \/ (lastRecv' = s /\ lastRecv < s)
  BY DEF RecordId, IsNewPeerStream
<1>4. lastRecv' \in StreamOrNone
  BY <1>3 DEF TableInv, StreamOrNone
<1>5. OpenAssertion'
  <2> SUFFICES ASSUME NEW x \in StreamIds, IsNewPeerStream(x, lastRecv')
               PROVE  tbl'.strm[x].st \in {"ABSENT", "IDLE"}
    BY DEF OpenAssertion
  <2>1. lastRecv \in Nat /\ s \in Nat /\ x \in Nat
    BY StreamIdsAssumption DEF TableInv, StreamOrNone
  <2>2. IsNewPeerStream(x, lastRecv)
    BY <2>1, <1>3 DEF IsNewPeerStream
  <2>3. tbl.strm[x].st \in {"ABSENT", "IDLE"}
    BY <2>2 DEF TableInv, OpenAssertion
  <2> QED BY <2>3 DEF Keeps, OpensNone
<1> QED BY <1>1, <1>2, <1>4, <1>5 DEF TableInv

\* A request is opened, refused, ignored, or ends the session.
LEMMA RecvRequestOK ==
  ASSUME IInv, NEW s \in StreamIds, NEW es \in BOOLEAN, NEW d \in StreamOrNone,
         RecvRequest(s, es, d)
  PROVE  IInv'
<1>1. /\ RecordId(s) /\ pc = "recv" /\ UNCHANGED <<connWin, initWin>>
      /\ UNCHANGED <<limits, control, response, goneLast, obUrgent, delivered>>
      /\ frames' \in 0 .. MaxFrames
  BY FramesBound DEF IInv, RecvRequest, Begins, flow
<1>2. IgnoredHeaders \in InFrame /\ HeadersFrame(s, es, FALSE) \in InFrame
  BY InFrames
<1>3. lastProc \in StreamOrNone /\ s \in StreamOrNone /\ refused \subseteq StreamIds
  BY DEF IInv, ControlInv, StreamOrNone
<1>4. goaway \subseteq {"TERM_ON_SEND", "TERM_SENT", "SENT", "RECV"} /\ obReg \in Seq(OutFrame)
  BY DEF IInv, ControlInv
<1>5. TableOK(tbl) /\ Keeps(tbl, tbl, initWin)
  BY KeepsReflexive DEF IInv, TableInv
<1>6. /\ TableInv'
      /\ lastProc' \in StreamOrNone /\ iframe' \in InFrame /\ refused' \subseteq StreamIds
      /\ goaway' \subseteq {"TERM_ON_SEND", "TERM_SENT", "SENT", "RECV"} /\ obReg' \in Seq(OutFrame)
  <2>1. CASE OpenRequest(s, es, d)
    <3>1. TableInv'
      BY <2>1, <1>1, OpenRequestOK
    <3> QED BY <2>1, <3>1, <1>2, <1>3, <1>4 DEF OpenRequest
  <2>2. CASE RefuseRequest(s, d)
    <3>1. TableOK(tbl') /\ Keeps(tbl, tbl', initWin) /\ obReg' \in Seq(OutFrame)
      BY <2>2, AddRstOK DEF IInv, RefuseRequest
    <3>2. TableInv'
      BY <3>1, <1>1, RecordIdOK DEF IInv
    <3> QED BY <2>2, <3>1, <3>2, <1>2, <1>3, <1>4 DEF RefuseRequest
  <2>3. CASE BadRequest(s, d)
    <3>1. TableInv'
      BY <2>3, <1>1, <1>5, RecordIdOK DEF IInv, BadRequest
    <3> QED BY <2>3, <3>1, <1>2, <1>3, TerminateOK DEF IInv, BadRequest
  <2>4. CASE IgnoreRequest(s, d)
    <3>1. TableInv'
      BY <2>4, <1>1, <1>5, RecordIdOK DEF IInv, IgnoreRequest
    <3> QED BY <2>4, <3>1, <1>2, <1>3, <1>4 DEF IgnoreRequest
  <2> QED BY <2>1, <2>2, <2>3, <2>4 DEF RecvRequest
<1>7. ControlInv'
  BY <1>1, <1>6, RecvStep DEF IInv, ControlInv
<1> QED BY <1>6, <1>7 DEF IInv

\* END_STREAM is applied.
LEMMA EndStreamOK ==
  ASSUME NEW t, TableOK(t), NEW s \in StreamIds, NEW es, NEW w
  PROVE  TableOK(EndStream(t, s, es)) /\ Keeps(t, EndStream(t, s, es), w)
<1>1. CASE es
  <2>1. TableOK(ShutRd(t, s)) /\ Keeps(t, ShutRd(t, s), w)
    BY ShutRdOK
  <2>2. /\ TableOK(CloseIfShut(ShutRd(t, s), s))
        /\ Keeps(ShutRd(t, s), CloseIfShut(ShutRd(t, s), s), w)
    BY <2>1, CloseIfShutOK
  <2>3. Keeps(t, CloseIfShut(ShutRd(t, s), s), w)
    BY <2>1, <2>2, KeepsTransitive
  <2> QED BY <1>1, <2>2, <2>3 DEF EndStream
<1>2. CASE ~es
  BY <1>2, KeepsReflexive DEF EndStream
<1> QED BY <1>1, <1>2

\* A frame is given to the application; it is that of a stream.
LEMMA FrameDeliveredOK ==
  ASSUME IInv, FrameDelivered PROVE IInv'
<1>1. TableInv'
  BY TableSame DEF IInv, FrameDelivered, flow, ids
<1>2. ControlInv'
  <2>1. /\ iframe.s \in StreamIds /\ iframe.es \in BOOLEAN
        /\ pc = "recv" /\ pc' = "callback" /\ iframe' = NoFrame
        /\ held' = [s |-> iframe.s, es |-> iframe.es]
    BY DEF IInv, ControlInv, InFrame, FrameDelivered
  <2>2. held' \in [s : StreamOrNone, es : BOOLEAN] /\ held'.s \in StreamIds
    BY <2>1 DEF StreamOrNone
  <2>3. iframe' \in InFrame /\ delivered' \subseteq StreamIds
    BY <2>1, InFrames DEF IInv, ControlInv, FrameDelivered
  <2>4. /\ UNCHANGED <<lastProc, goaway, localMax, pendingMax, inflight, obUrgent, obReg>>
        /\ UNCHANGED <<frames, ret, sendOK, left, out, answered, refused, goneLast>>
    BY DEF FrameDelivered, ids, limits, queues, response
  <2> QED BY <2>1, <2>2, <2>3, <2>4 DEF IInv, ControlInv
<1> QED BY <1>1, <1>2 DEF IInv

\* The callback returns, and END_STREAM is applied.
LEMMA CallbackReturnsOK ==
  ASSUME IInv, CallbackReturns PROVE IInv'
<1>1. TableInv'
  <2>1. held.s \in StreamIds /\ TableOK(tbl)
    BY DEF IInv, ControlInv, TableInv, CallbackReturns
  <2>2. TableOK(tbl') /\ Keeps(tbl, tbl', initWin)
    BY <2>1, EndStreamOK DEF CallbackReturns
  <2> QED BY <2>2, TableStep DEF IInv, CallbackReturns, flow, ids
<1>2. ControlInv'
  <2>1. held' \in [s : StreamOrNone, es : BOOLEAN]
    BY DEF CallbackReturns, NoHeld, StreamOrNone
  <2>2. /\ UNCHANGED <<lastProc, goaway, localMax, pendingMax, inflight, obUrgent, obReg, iframe>>
        /\ UNCHANGED <<frames, ret, sendOK, left, out, answered, delivered, refused, goneLast>>
        /\ pc = "callback" /\ pc' = "recv"
    BY DEF CallbackReturns, ids, limits, queues, input, response, history
  <2> QED BY <2>1, <2>2 DEF IInv, ControlInv
<1> QED BY <1>1, <1>2 DEF IInv

\* A malformed message resets its stream, and END_STREAM is applied.
LEMMA FrameViolatesMessagingOK ==
  ASSUME IInv, FrameViolatesMessaging PROVE IInv'
<1> DEFINE marked == MarkClosing(tbl, iframe.s)
<1>1. iframe.s \in StreamIds /\ TableOK(tbl)
  BY DEF IInv, ControlInv, InFrame, TableInv, FrameViolatesMessaging
<1>2. TableInv'
  <2>1. TableOK(marked) /\ Keeps(tbl, marked, initWin)
    BY <1>1, MarkClosingOK
  <2>2. TableOK(tbl') /\ Keeps(marked, tbl', initWin)
    BY <2>1, <1>1, EndStreamOK DEF FrameViolatesMessaging
  <2>3. Keeps(tbl, tbl', initWin)
    BY <2>1, <2>2, <1>1, KeepsTransitive
  <2> QED BY <2>2, <2>3, TableStep DEF IInv, FrameViolatesMessaging, flow, ids
<1>3. ControlInv'
  <2>1. obReg' \in Seq(OutFrame) /\ iframe' \in InFrame
    BY <1>1, QueueTypes, InFrames DEF IInv, ControlInv, FrameViolatesMessaging
  <2> QED BY <2>1, RecvStep DEF IInv, ControlInv, FrameViolatesMessaging, ids, history
<1> QED BY <1>2, <1>3 DEF IInv

\* A stream is reset in the middle of a frame.
LEMMA FrameAbortedOK ==
  ASSUME IInv, FrameAborted PROVE IInv'
<1>1. iframe.s \in StreamIds
  BY DEF IInv, ControlInv, InFrame, FrameAborted
<1>2. TableOK(tbl') /\ Keeps(tbl, tbl', initWin) /\ obReg' \in Seq(OutFrame)
  BY <1>1, AddRstOK DEF IInv, FrameAborted
<1>3. TableInv'
  BY <1>2, TableStep DEF IInv, FrameAborted, flow, ids
<1>4. ControlInv'
  <2>1. iframe' \in InFrame
    BY InFrames DEF FrameAborted
  <2> QED BY <2>1, <1>2, RecvStep DEF IInv, ControlInv, FrameAborted, ids, history
<1> QED BY <1>3, <1>4 DEF IInv

\* A frame ends without effect.
LEMMA FrameIgnoredOK ==
  ASSUME IInv, FrameIgnored PROVE IInv'
<1>1. TableInv'
  BY TableSame DEF IInv, FrameIgnored, flow, ids
<1>2. ControlInv'
  <2>1. iframe' \in InFrame
    BY InFrames DEF FrameIgnored
  <2> QED BY <2>1, RecvStep DEF IInv, ControlInv, FrameIgnored, ids, queues, history
<1> QED BY <1>1, <1>2 DEF IInv

\* A header block that does not decode ends the session.
LEMMA CompressionErrorOK ==
  ASSUME IInv, CompressionError PROVE IInv'
<1> DEFINE reset == iframe.k = "HEADERS" /\ FrameStreamOpen
           reg == IF reset THEN Append(obReg, Rst(iframe.s)) ELSE obReg
<1>1. reset => iframe.s \in StreamIds
  BY DEF IInv, ControlInv, InFrame
<1>2. TableInv'
  <2>1. CASE reset
    <3>1. TableOK(tbl') /\ Keeps(tbl, tbl', initWin)
      BY <2>1, <1>1, MarkClosingOK DEF IInv, TableInv, CompressionError
    <3> QED BY <3>1, TableStep DEF IInv, CompressionError, flow, ids
  <2>2. CASE ~reset
    BY <2>2, TableSame DEF IInv, CompressionError, flow, ids
  <2> QED BY <2>1, <2>2
<1>3. ControlInv'
  <2>1. reg \in Seq(OutFrame)
    BY <1>1, QueueTypes DEF IInv, ControlInv
  <2>2. obReg' = IF "TERM_ON_SEND" \in goaway THEN reg ELSE Append(reg, Goaway(lastProc))
    BY DEF CompressionError
  <2> HIDE DEF reg
  <2>3. Goaway(lastProc) \in OutFrame
    BY DEF IInv, ControlInv, Goaway, OutFrame
  <2>4. obReg' \in Seq(OutFrame)
    BY <2>1, <2>2, <2>3
  <2>5. /\ goaway' \subseteq {"TERM_ON_SEND", "TERM_SENT", "SENT", "RECV"}
        /\ iframe' \in InFrame
    BY InFrames DEF IInv, ControlInv, CompressionError
  <2> QED BY <2>4, <2>5, RecvStep DEF IInv, ControlInv, CompressionError, ids, history
<1> QED BY <1>2, <1>3 DEF IInv

-----------------------------------------------------------------------------
(* Responses and what is sent. *)

\* A response is queued and nghttp2_session_send entered.
LEMMA SubmitResponseOK ==
  ASSUME IInv, NEW s \in StreamIds, NEW n \in BodySizes, SubmitResponse(s, n) PROVE IInv'
<1>1. TableInv'
  <2>1. TableOK(tbl') /\ Keeps(tbl, tbl', initWin)
    BY EnterSendOK, KeepsReflexive, LimitTypes DEF IInv, TableInv, SubmitResponse
  <2> QED BY <2>1, TableStep DEF IInv, SubmitResponse, flow, ids
<1>2. ControlInv'
  <2>1. obReg' \in Seq(OutFrame) /\ answered' \subseteq StreamIds
    BY QueueTypes DEF IInv, ControlInv, SubmitResponse
  <2>2. left' \in [StreamIds -> Nat]
    BY ResponseAssumption DEF IInv, ControlInv, SubmitResponse
  <2>3. /\ pc \in {"idle", "callback"} /\ pc' = "send" /\ ret' = pc /\ sendOK' = TRUE
        /\ UNCHANGED <<lastProc, goaway, localMax, pendingMax, inflight, obUrgent, iframe>>
        /\ UNCHANGED <<frames, held, out, delivered, refused, goneLast>>
    BY DEF SubmitResponse, EnterSend, ids, limits, input, history
  <2> QED BY <2>1, <2>2, <2>3 DEF IInv, ControlInv
<1> QED BY <1>1, <1>2 DEF IInv

\* A step of nghttp2_session_send keeps the second half of the invariant if what it
\* writes is well typed; it goes on, or returns to where it was called.
LEMMA SendStep ==
  ASSUME ControlInv, Sending, pc' \in {pc, ret}, sendOK' \in BOOLEAN,
         goaway' \subseteq {"TERM_ON_SEND", "TERM_SENT", "SENT", "RECV"},
         obUrgent' \in Seq({"SETTINGS", "ACK", "PING"}), obReg' \in Seq(OutFrame),
         left' \in [StreamIds -> Nat],
         out' \in [StreamIds -> OutRecord],
         goneLast' \in StreamOrNone \cup {-1}
  PROVE  ControlInv'
<1>1. /\ UNCHANGED <<lastProc, localMax, pendingMax, inflight, iframe, frames, held, ret>>
      /\ UNCHANGED <<answered, delivered, refused>>
      /\ pc = "send"
  BY DEF Sending, ids, limits, input
<1>2. CASE pc' = pc
  BY <1>1, <1>2 DEF ControlInv
<1>3. CASE pc' = ret
  BY <1>1, <1>3 DEF ControlInv
<1> QED BY <1>2, <1>3

\* What is taken from ob_reg, and what remains there, are frames.
LEMMA PopsOK ==
  ASSUME ControlInv, NEW kind, Pops(kind)
  PROVE  obReg' \in Seq(OutFrame) /\ Head(obReg) \in OutFrame
<1>1. obReg \in Seq(OutFrame) /\ obReg # << >>
  BY DEF ControlInv, Pops
<1>2. Tail(obReg) \in Seq(OutFrame) /\ Head(obReg) \in OutFrame
  BY <1>1
<1> QED BY <1>2 DEF Pops

\* Counting a frame that was sent.
LEMMA OutFrames ==
  ASSUME NEW o \in [StreamIds -> OutRecord], NEW s \in StreamIds
  PROVE  /\ [o EXCEPT ![s].hdr = @ + 1] \in [StreamIds -> OutRecord]
         /\ [o EXCEPT ![s].rst = @ + 1] \in [StreamIds -> OutRecord]
<1>1. [o[s] EXCEPT !.hdr = @ + 1] \in OutRecord
  BY DEF OutRecord
<1>2. [o[s] EXCEPT !.rst = @ + 1] \in OutRecord
  BY DEF OutRecord
<1> QED BY <1>1, <1>2

\* Counting a DATA frame of n bytes, e of it being the end.
LEMMA OutData ==
  ASSUME NEW o \in [StreamIds -> OutRecord], NEW s \in StreamIds, NEW n \in Nat, NEW e \in Nat
  PROVE  [o EXCEPT ![s].body = @ + n, ![s].fin = @ + e] \in [StreamIds -> OutRecord]
<1> DEFINE b == [o EXCEPT ![s].body = @ + n]
<1>1. [o[s] EXCEPT !.body = @ + n] \in OutRecord
  BY DEF OutRecord
<1>2. b \in [StreamIds -> OutRecord]
  BY <1>1
<1>3. [o EXCEPT ![s].body = @ + n, ![s].fin = @ + e] = [b EXCEPT ![s].fin = @ + e]
  OBVIOUS
<1> HIDE DEF b
<1>4. [b[s] EXCEPT !.fin = @ + e] \in OutRecord
  BY <1>2 DEF OutRecord
<1>5. [b EXCEPT ![s].fin = @ + e] \in [StreamIds -> OutRecord]
  BY <1>2, <1>4
<1> QED BY <1>3, <1>5

\* A frame of ob_urgent is sent.
LEMMA SendUrgentOK ==
  ASSUME IInv, SendUrgent PROVE IInv'
<1>1. TableInv'
  BY TableSame DEF IInv, SendUrgent, Sending, flow, ids
<1>2. ControlInv'
  <2>1. obUrgent' \in Seq({"SETTINGS", "ACK", "PING"})
    BY DEF IInv, ControlInv, SendUrgent
  <2> QED BY <2>1, SendStep DEF IInv, ControlInv, SendUrgent
<1> QED BY <1>1, <1>2 DEF IInv

\* Response HEADERS attach the DATA item, or are dropped.
LEMMA SendHeadersOK ==
  ASSUME IInv, SendHeaders PROVE IInv'
<1> DEFINE s == Head(obReg).s
           r == [tbl.strm[s] EXCEPT !.st = "OPENED",
                                    !.item = IF @ = "none" THEN "active" ELSE @]
<1>1. s \in StreamIds /\ obReg' \in Seq(OutFrame)
  BY PopsOK DEF IInv, SendHeaders, Pops, OutFrame
<1>2. TableOK(tbl) /\ tbl.strm[s] \in Stream
  BY <1>1 DEF IInv, TableInv, TableOK, Table
<1>3. \/ UNCHANGED <<tbl, out>>
      \/ /\ Live(tbl, s) /\ tbl' = [tbl EXCEPT !.strm[s] = r]
         /\ out' = [out EXCEPT ![s].hdr = @ + 1]
  BY DEF SendHeaders, MaySendHeaders
<1>4. TableInv'
  <2>1. CASE UNCHANGED tbl
    BY <2>1, TableSame DEF IInv, SendHeaders, Pops, Sending, flow, ids
  <2>2. CASE Live(tbl, s) /\ tbl' = [tbl EXCEPT !.strm[s] = r]
    <3>1. /\ r \in Stream /\ r.closed = tbl.strm[s].closed /\ r.win = tbl.strm[s].win
          /\ r.st = "OPENED"
      BY <1>2 DEF Stream, States
    <3>2. r.item = "deferred" => tbl.strm[s].item = "deferred"
      BY <1>2 DEF Stream
    <3>3. tbl.strm[s].st \notin {"ABSENT", "IDLE"}
      BY <2>2 DEF Live
    <3> HIDE DEF r
    <3>4. TableOK(tbl') /\ Keeps(tbl, tbl', initWin)
      BY <2>2, <3>1, <3>2, <3>3, <1>1, <1>2, PointKeeps
    <3> QED BY <3>4, TableStep DEF IInv, SendHeaders, Pops, Sending, flow, ids
  <2> QED BY <1>3, <2>1, <2>2
<1>5. ControlInv'
  <2>1. out' \in [StreamIds -> OutRecord]
    <3>1. out \in [StreamIds -> OutRecord]
      BY DEF IInv, ControlInv
    <3> HIDE DEF s, r
    <3>2. [out EXCEPT ![s].hdr = @ + 1] \in [StreamIds -> OutRecord]
      BY <3>1, <1>1, OutFrames
    <3> QED BY <3>1, <3>2, <1>3
  <2> QED BY <2>1, <1>1, SendStep DEF IInv, ControlInv, SendHeaders, Pops
<1> QED BY <1>4, <1>5 DEF IInv

\* RST_STREAM closes its stream.
LEMMA SendRstOK ==
  ASSUME IInv, SendRst PROVE IInv'
<1> DEFINE s == Head(obReg).s
<1>1. s \in StreamIds /\ obReg' \in Seq(OutFrame)
  BY PopsOK DEF IInv, SendRst, Pops, OutFrame
<1>2. \/ UNCHANGED <<tbl, out>>
      \/ tbl' = CloseStream(tbl, s) /\ out' = [out EXCEPT ![s].rst = @ + 1]
  BY DEF SendRst
<1>3. TableInv'
  <2>1. CASE UNCHANGED tbl
    BY <2>1, TableSame DEF IInv, SendRst, Pops, Sending, flow, ids
  <2>2. CASE tbl' = CloseStream(tbl, s)
    <3>1. TableOK(tbl') /\ Keeps(tbl, tbl', initWin)
      BY <2>2, <1>1, CloseStreamOK DEF IInv, TableInv
    <3> QED BY <3>1, TableStep DEF IInv, SendRst, Pops, Sending, flow, ids
  <2> QED BY <1>2, <2>1, <2>2
<1>4. ControlInv'
  <2>1. out' \in [StreamIds -> OutRecord]
    <3>1. out \in [StreamIds -> OutRecord]
      BY DEF IInv, ControlInv
    <3> HIDE DEF s
    <3>2. [out EXCEPT ![s].rst = @ + 1] \in [StreamIds -> OutRecord]
      BY <3>1, <1>1, OutFrames
    <3> QED BY <3>1, <3>2, <1>2
  <2> QED BY <2>1, <1>1, SendStep DEF IInv, ControlInv, SendRst, Pops
<1> QED BY <1>3, <1>4 DEF IInv

\* GOAWAY closes the streams it does not cover.
LEMMA SendGoawayOK ==
  ASSUME IInv, SendGoaway PROVE IInv'
<1> DEFINE last == Head(obReg).s
           R == {s \in LiveSet(tbl) : s > last}
<1>1. last \in StreamOrNone /\ obReg' \in Seq(OutFrame)
  BY PopsOK DEF IInv, SendGoaway, Pops, OutFrame, StreamOrNone
<1>2. PICK q \in Orders(R) : tbl' = CloseAll(tbl, q)
  BY DEF SendGoaway
<1>3. R \in SUBSET LiveSet(tbl)
  OBVIOUS
<1> HIDE DEF R
<1>4. TableInv'
  <2>1. TableOK(tbl') /\ Keeps(tbl, tbl', initWin)
    BY <1>2, <1>3, CloseAllOK DEF IInv, TableInv
  <2> QED BY <2>1, TableStep DEF IInv, SendGoaway, Pops, Sending, flow, ids
<1>5. ControlInv'
  <2>1. /\ goneLast' = last /\ goaway' = goaway \cup {"TERM_SENT", "SENT"}
        /\ UNCHANGED <<obUrgent, pc, sendOK, left, out>> /\ Sending
    BY DEF SendGoaway, Pops
  <2> QED BY <2>1, <1>1, SendStep DEF IInv, ControlInv
<1> QED BY <1>4, <1>5 DEF IInv

\* A DATA item that may not be sent is dropped.
LEMMA DropDataOK ==
  ASSUME IInv, NEW s \in StreamIds, DropData(s) PROVE IInv'
<1>1. TableInv'
  <2>1. TableOK(tbl') /\ Keeps(tbl, tbl', initWin)
    BY SetItemOK DEF IInv, TableInv, DropData
  <2> QED BY <2>1, TableStep DEF IInv, DropData, PicksData, Sending, ids
<1>2. ControlInv'
  BY SendStep DEF IInv, ControlInv, DropData, PicksData, queues
<1> QED BY <1>1, <1>2 DEF IInv

\* A DATA item is deferred beside a window that is shut.
LEMMA DeferDataOK ==
  ASSUME IInv, NEW s \in StreamIds, DeferData(s) PROVE IInv'
<1>1. TableInv'
  <2>1. /\ TableOK(tbl') /\ tbl'.nIncoming = tbl.nIncoming /\ OpensNone(tbl, tbl')
        /\ WindowsOK(tbl', initWin) /\ DeferredOK(tbl')
    BY DeferItemOK DEF IInv, TableInv, DeferData
  <2>2. UNCHANGED <<connWin, initWin, lastRecv>>
    BY DEF DeferData, PicksData, Sending, ids
  <2> QED BY <2>1, <2>2 DEF IInv, TableInv, OpenAssertion, OpensNone
<1>2. ControlInv'
  BY SendStep DEF IInv, ControlInv, DeferData, PicksData, queues
<1> QED BY <1>1, <1>2 DEF IInv

\* What may be sent exceeds neither window.
LEMMA ChunkSizeBound ==
  ASSUME IInv, NEW s \in StreamIds, tbl.strm[s].win > 0, connWin > 0
  PROVE  /\ ChunkSize(s) \in Nat /\ ChunkSize(s) <= left[s]
         /\ ChunkSize(s) <= tbl.strm[s].win /\ ChunkSize(s) <= connWin
<1>1. left[s] \in Nat /\ MaxChunk \in Nat /\ connWin \in Nat /\ tbl.strm[s].win \in Int
  BY ResponseAssumption, MaxWindowAssumption
     DEF IInv, ControlInv, TableInv, TableOK, Table, Stream, Windows
<1>2. /\ SmallerOf(left[s], MaxChunk) \in Nat /\ SmallerOf(left[s], MaxChunk) <= left[s]
  BY <1>1 DEF SmallerOf
<1>3. /\ SmallerOf(tbl.strm[s].win, connWin) \in Nat
      /\ SmallerOf(tbl.strm[s].win, connWin) <= tbl.strm[s].win
      /\ SmallerOf(tbl.strm[s].win, connWin) <= connWin
  BY <1>1 DEF SmallerOf
<1> DEFINE a == SmallerOf(left[s], MaxChunk)
           b == SmallerOf(tbl.strm[s].win, connWin)
<1>4. ChunkSize(s) = IF a <= b THEN a ELSE b
  BY DEF ChunkSize, SmallerOf
<1>5. a \in Nat /\ a <= left[s] /\ b \in Nat /\ b <= tbl.strm[s].win /\ b <= connWin
  BY <1>2, <1>3
<1> HIDE DEF a, b
<1> QED BY <1>1, <1>4, <1>5

\* A DATA frame is paid from both windows, and may be the last of its stream.
LEMMA SendDataOK ==
  ASSUME IInv, NEW s \in StreamIds, SendData(s) PROVE IInv'
<1> DEFINE n == ChunkSize(s)
           paid == [tbl EXCEPT !.strm[s].win = @ - n]
           ended == CloseIfShut(ShutWr(SetItem(paid, s, "none"), s), s)
<1>1. connWin > 0 /\ tbl.strm[s].win > 0 /\ tbl.strm[s].item = "active"
  BY DEF SendData, PicksData
<1>2. n \in Nat /\ n <= left[s] /\ n <= tbl.strm[s].win /\ n <= connWin
  BY <1>1, ChunkSizeBound
<1>3. /\ connWin' = connWin - n /\ left' = [left EXCEPT ![s] = @ - n]
      /\ out' = [out EXCEPT ![s].body = @ + n, ![s].fin = @ + IF n = left[s] THEN 1 ELSE 0]
      /\ tbl' = paid \/ tbl' = ended
  BY DEF SendData
<1>4. UNCHANGED <<initWin, lastRecv>>
  BY DEF SendData, PicksData, Sending, ids
<1> HIDE DEF n
<1>5. /\ TableOK(paid) /\ paid.nIncoming = tbl.nIncoming /\ OpensNone(tbl, paid)
      /\ WindowsOK(paid, initWin) /\ DeferredOK(paid)
  BY <1>1, <1>2, SpendWindowOK DEF IInv, TableInv
<1> HIDE DEF paid
<1>6. connWin' \in Nat
  BY <1>2, <1>3 DEF IInv, TableInv
<1>7. ASSUME TableOK(tbl'), tbl'.nIncoming <= tbl.nIncoming, OpensNone(tbl, tbl'),
             WindowsOK(tbl', initWin), DeferredOK(tbl')
      PROVE  TableInv'
  <2>1. tbl'.nIncoming <= MaxConcurrent
    BY <1>7, MaxConcurrentAssumption DEF IInv, TableInv, TableOK, Table
  <2> QED BY <2>1, <1>4, <1>6, <1>7 DEF IInv, TableInv, OpenAssertion, OpensNone
<1>8. TableInv'
  <2>1. tbl.nIncoming \in Int
    BY DEF IInv, TableInv, TableOK, Table
  <2>2. CASE tbl' = paid
    BY <2>1, <2>2, <1>5, <1>7
  <2>3. CASE tbl' = ended
    <3> DEFINE dropped == SetItem(paid, s, "none")
               shut == ShutWr(dropped, s)
    <3>1. TableOK(dropped) /\ Keeps(paid, dropped, initWin)
      BY <1>5, SetItemOK
    <3> HIDE DEF dropped
    <3>2. TableOK(shut) /\ Keeps(dropped, shut, initWin)
      BY <3>1, ShutWrOK
    <3> HIDE DEF shut
    <3>3. TableOK(ended) /\ Keeps(shut, ended, initWin)
      BY <3>2, CloseIfShutOK DEF dropped, shut
    <3> HIDE DEF ended
    <3>4. Keeps(paid, shut, initWin)
      BY <1>5, <3>1, <3>2, KeepsTransitive
    <3>5. Keeps(paid, ended, initWin)
      BY <1>5, <3>2, <3>3, <3>4, KeepsTransitive
    <3>6. WindowsOK(ended, initWin) /\ DeferredOK(ended)
      BY <1>5, <3>3, <3>5, KeepsWindows DEF IInv, TableInv
    <3>7. ended.nIncoming <= tbl.nIncoming /\ OpensNone(tbl, ended)
      BY <1>5, <3>5 DEF Keeps, OpensNone
    <3> QED BY <2>3, <3>3, <3>6, <3>7, <1>7
  <2> QED BY <1>3, <2>2, <2>3
<1>9. ControlInv'
  <2>1. left' \in [StreamIds -> Nat]
    <3>1. left[s] - n \in Nat /\ left \in [StreamIds -> Nat]
      BY <1>2 DEF IInv, ControlInv
    <3> QED BY <3>1, <1>3
  <2>2. out' \in [StreamIds -> OutRecord]
    <3> DEFINE e == IF n = left[s] THEN 1 ELSE 0
    <3>1. e \in Nat /\ out' = [out EXCEPT ![s].body = @ + n, ![s].fin = @ + e]
      BY <1>3
    <3> HIDE DEF e
    <3> QED BY <3>1, <1>2, OutData DEF IInv, ControlInv
  <2> QED BY <2>1, <2>2, SendStep DEF IInv, ControlInv, SendData, PicksData, queues
<1> QED BY <1>8, <1>9 DEF IInv

\* A data provider that fails loses its item.
LEMMA ReadFailsOK ==
  ASSUME IInv, NEW s \in StreamIds, ReadFails(s) PROVE IInv'
<1>1. TableInv'
  <2>1. TableOK(tbl') /\ Keeps(tbl, tbl', initWin)
    BY SetItemOK DEF IInv, TableInv, ReadFails
  <2> QED BY <2>1, TableStep DEF IInv, ReadFails, PicksData, Sending, ids
<1>2. ControlInv'
  BY SendStep DEF IInv, ControlInv, ReadFails, PicksData, queues
<1> QED BY <1>1, <1>2 DEF IInv

\* nghttp2_session_send returns.
LEMMA SendDoneOK ==
  ASSUME IInv, SendDone PROVE IInv'
<1>1. TableInv'
  BY TableSame DEF IInv, SendDone, Sending, flow, ids
<1>2. ControlInv'
  BY SendStep DEF IInv, ControlInv, SendDone, queues
<1> QED BY <1>1, <1>2 DEF IInv

-----------------------------------------------------------------------------
(* The invariant, and the theorems that follow from it. *)

\* Every step of nghttp2_session_mem_recv keeps the invariant.
LEMMA ReceiveOK ==
  ASSUME IInv, Receive PROVE IInv'
BY StartRecvOK, BufferEndOK, RecvNoSettingsOK, RecvInvalidOK, RecvRequestOK, RecvTrailersOK,
   RecvDataOK, FrameDeliveredOK, CallbackReturnsOK, FrameViolatesMessagingOK, FrameAbortedOK,
   FrameIgnoredOK, CompressionErrorOK, RecvRstOK, RecvPriorityOK, RecvWindowUpdateOK,
   RecvSettingsOK, RecvSettingsAckOK, RecvGoawayOK, RecvPingOK, RecvConnWindowUpdateOK
   DEF Receive

\* Every step of nghttp2_session_send keeps the invariant.
LEMMA SendOK ==
  ASSUME IInv, Send PROVE IInv'
BY SendUrgentOK, SendHeadersOK, SendRstOK, SendGoawayOK, SendDoneOK, DropDataOK, DeferDataOK,
   SendDataOK, ReadFailsOK
   DEF Send

\* Every step keeps the invariant.
LEMMA NextIInv ==
  ASSUME IInv, [Next]_vars PROVE IInv'
<1>1. CASE \E w \in WindowSizes : Upgrade(w)
  BY <1>1, UpgradeOK
<1>2. CASE UpgradeRejected
  BY <1>2, UpgradeRejectedOK
<1>3. CASE ServerPreface
  BY <1>3, ServerPrefaceOK
<1>4. CASE Receive
  BY <1>4, ReceiveOK
<1>5. CASE \E s \in StreamIds, n \in BodySizes : SubmitResponse(s, n)
  BY <1>5, SubmitResponseOK
<1>6. CASE Send
  BY <1>6, SendOK
<1>7. CASE UNCHANGED vars
  <2>1. TableInv'
    BY <1>7, TableSame DEF IInv, vars, flow, ids
  <2>2. ControlInv'
    BY <1>7 DEF IInv, ControlInv, vars, ids, limits, queues, input, control, response, history
  <2> QED BY <2>1, <2>2 DEF IInv
<1> QED BY <1>1, <1>2, <1>3, <1>4, <1>5, <1>6, <1>7 DEF Next

\* IInv holds in every state of every behaviour of the session.
THEOREM Invariance == Spec => []IInv
<1>1. Init => IInv
  BY InitIInv
<1>2. IInv /\ [Next]_vars => IInv'
  BY NextIInv
<1> QED BY <1>1, <1>2, PTL DEF Spec

\* Every variable keeps to its type; in particular no window of a stream leaves the 32
\* bits of remote_window_size, whatever SETTINGS_INITIAL_WINDOW_SIZE and WINDOW_UPDATE
\* the peer sends (nghttp2_stream.c:530-557).
THEOREM TypeCorrect == Spec => []TypeOK
<1>1. IInv => TypeOK
  BY IInvImplies
<1> QED BY <1>1, Invariance, PTL

\* The streams map, the closed list, the idle list and num_incoming_streams always
\* agree: no list holds a stream that was destroyed, or one stream twice, and no live
\* stream goes uncounted (nghttp2_session.c:988-1386).
THEOREM TableStaysConsistent == Spec => []Consistent
<1>1. IInv => Consistent
  BY IInvImplies
<1> QED BY <1>1, Invariance, PTL

\* The peer never has more streams in progress than the server announced, whether or
\* not it has acknowledged the limit (nghttp2_session.c:3822-3843).
THEOREM LimitKept == Spec => []ConcurrencyLimit
<1>1. IInv => ConcurrencyLimit
  BY IInvImplies
<1> QED BY <1>1, Invariance, PTL

\* The assertion of nghttp2_session_open_stream never fails: no request reopens an
\* identifier that is in use or was used before (nghttp2_session.c:1005).
THEOREM AssertionHolds == Spec => []OpenAssertion
<1>1. IInv => OpenAssertion
  BY IInvImplies
<1> QED BY <1>1, Invariance, PTL

\* DATA never overdraws the window of the connection, and that of a stream only by what
\* the peer took back (nghttp2_session.c:1756, 2511).
THEOREM WindowsNotOverdrawn == Spec => []WindowsKept
<1>1. IInv => WindowsKept
  BY IInvImplies
<1> QED BY <1>1, Invariance, PTL

\* No response sleeps for flow control while its stream's window is open
\* (nghttp2_session.c:1993, 4146-4157, 4732).
THEOREM NoLostWakeup == Spec => []DeferredHasNoWindow
<1>1. IInv => DeferredHasNoWindow
  BY IInvImplies
<1> QED BY <1>1, Invariance, PTL

-----------------------------------------------------------------------------
(* The streams over their whole life.                                       *)

\* The entries of the table, and its size
LifeInv ==
  /\ EntriesOK(tbl, initWin)
  /\ Room(tbl) <= MaxConcurrent
  /\ pc \in {"idle", "send"} => Len(tbl.idleQ) <= IdleMax(localMax, pendingMax)

Reads(f) == f.k \in {"HEADERS", "DATA"}

\* The stream whose frame is being read has not ended; the stream whose callback is
\* running is open besides, and is not being reset
ReadInv ==
  /\ pc = "start" => iframe.k = "first"
  /\ Reads(iframe) => ~tbl.strm[iframe.s].rd
  /\ held.s # 0 =>
       /\ Live(tbl, held.s) /\ tbl.strm[held.s].st # "CLOSING" /\ ~tbl.strm[held.s].rd
       /\ iframe.k = "none"
       /\ pc = "callback" \/ (pc = "send" /\ ret = "callback")

\* The streams marked for reset are the live ones whose RST_STREAM is queued, as long as
\* the session sends it
ResetInv ==
  \A s \in StreamIds :
    /\ Rst(s) \in ToSet(obReg) =>
         ~IsNewPeerStream(s, lastRecv) /\ (Live(tbl, s) => tbl.strm[s].st = "CLOSING")
    /\ Live(tbl, s) /\ tbl.strm[s].st = "CLOSING" /\ "TERM_ON_SEND" \notin goaway
         => Rst(s) \in ToSet(obReg)

\* A GOAWAY that names l says no more than is true of the requests the application got and
\* of those it may still get; the request of a failed upgrade is the exception
Covers(l) ==
  /\ \A s \in delivered : s <= l \/ (s = 1 /\ l = 0)
  /\ \A s \in StreamIds : Live(tbl, s) => s <= l \/ (s = 1 /\ l = 0 /\ tbl.strm[s].rd)

GoawayInv ==
  /\ lastProc <= lastRecv
  /\ Covers(lastProc)
  /\ \A l \in StreamOrNone : Goaway(l) \in ToSet(obReg) => Covers(l) /\ "TERM_ON_SEND" \in goaway
  /\ goneLast # -1 => Covers(goneLast) /\ "TERM_ON_SEND" \in goaway
  /\ "TERM_SENT" \in goaway => "TERM_ON_SEND" \in goaway

\* A refused request is used up, and nothing was opened for it
RefusedInv ==
  /\ \A s \in refused : s \notin delivered /\ s <= lastRecv /\ tbl.strm[s].st \in {"ABSENT", "IDLE"}
  /\ \A s \in delivered : s <= lastRecv \/ (s = 1 /\ lastRecv = 0)

SInv == LifeInv /\ ReadInv /\ ResetInv /\ GoawayInv /\ RefusedInv

-----------------------------------------------------------------------------
(* The queue of frames. *)

\* What is queued after a frame, or frames, were appended or one was taken.
LEMMA QueueContents ==
  ASSUME NEW q \in Seq(OutFrame), NEW r \in Seq(OutFrame), NEW f \in OutFrame
  PROVE  /\ ToSet(Append(q, f)) = ToSet(q) \cup {f}
         /\ ToSet(q \o r) = ToSet(q) \cup ToSet(r)
         /\ ToSet(<< f >>) = {f} /\ ToSet(<< >>) = {}
         /\ q # << >> => ToSet(q) = {Head(q)} \cup ToSet(Tail(q))
<1>1. DOMAIN q = 1 .. Len(q) /\ Len(q) \in Nat /\ DOMAIN r = 1 .. Len(r) /\ Len(r) \in Nat
  BY LenProperties
<1>2. ToSet(Append(q, f)) = ToSet(q) \cup {f}
  <2> DEFINE a == Append(q, f)
  <2>1. /\ a \in Seq(OutFrame) /\ Len(a) = Len(q) + 1 /\ a[Len(q) + 1] = f
        /\ \A i \in 1 .. Len(q) : a[i] = q[i]
    BY AppendProperties
  <2>2. DOMAIN a = 1 .. Len(q) + 1
    BY <2>1, LenProperties
  <2> HIDE DEF a
  <2>3. ToSet(a) = ToSet(q) \cup {f}
    BY <1>1, <2>1, <2>2 DEF ToSet
  <2> QED BY <2>3 DEF a
<1>3. ToSet(q \o r) = ToSet(q) \cup ToSet(r)
  <2> DEFINE c == q \o r
  <2>1. /\ c \in Seq(OutFrame) /\ Len(c) = Len(q) + Len(r)
        /\ \A i \in 1 .. Len(q) + Len(r) : c[i] = IF i <= Len(q) THEN q[i] ELSE r[i - Len(q)]
    BY ConcatProperties
  <2>2. DOMAIN c = 1 .. Len(q) + Len(r)
    BY <2>1, LenProperties
  <2> HIDE DEF c
  <2>3. \A i \in 1 .. Len(q) : i \in DOMAIN c /\ c[i] = q[i]
    BY <1>1, <2>1, <2>2
  <2>4. \A i \in 1 .. Len(r) : Len(q) + i \in DOMAIN c /\ c[Len(q) + i] = r[i]
    <3> TAKE i \in 1 .. Len(r)
    <3>1. Len(q) + i \in 1 .. Len(q) + Len(r) /\ ~(Len(q) + i <= Len(q)) /\ Len(q) + i - Len(q) = i
      BY <1>1
    <3> QED BY <3>1, <2>1, <2>2
  <2>5. ASSUME NEW i \in DOMAIN c
        PROVE  c[i] \in ToSet(q) \cup ToSet(r)
    <3>1. CASE i <= Len(q)
      BY <3>1, <1>1, <2>1, <2>2 DEF ToSet
    <3>2. CASE ~(i <= Len(q))
      <4>1. i - Len(q) \in 1 .. Len(r)
        BY <3>2, <1>1, <2>2
      <4> QED BY <4>1, <3>2, <1>1, <2>1, <2>2 DEF ToSet
    <3> QED BY <3>1, <3>2
  <2>6. ToSet(c) \subseteq ToSet(q) \cup ToSet(r)
    BY <2>5 DEF ToSet
  <2>7. ToSet(q) \subseteq ToSet(c)
    BY <1>1, <2>3 DEF ToSet
  <2>8. ToSet(r) \subseteq ToSet(c)
    <3> SUFFICES ASSUME NEW i \in 1 .. Len(r) PROVE r[i] \in ToSet(c)
      BY <1>1 DEF ToSet
    <3> QED BY <2>4 DEF ToSet
  <2> QED BY <2>6, <2>7, <2>8 DEF c
<1>4. ToSet(<< f >>) = {f} /\ ToSet(<< >>) = {}
  BY DEF ToSet
<1>5. ASSUME q # << >> PROVE ToSet(q) = {Head(q)} \cup ToSet(Tail(q))
  <2> DEFINE h == Head(q)
             l == Tail(q)
  <2>1. Len(q) > 0 /\ h = q[1]
    BY <1>1, <1>5, EmptySeq
  <2>2. /\ l \in Seq(OutFrame) /\ Len(l) = Len(q) - 1
        /\ \A i \in 1 .. Len(l) : l[i] = q[i + 1]
    BY <1>5, HeadTailProperties
  <2>3. DOMAIN l = 1 .. Len(q) - 1
    BY <2>2, LenProperties
  <2> HIDE DEF h, l
  <2>4. \A i \in DOMAIN q : q[i] = h \/ (i - 1 \in DOMAIN l /\ l[i - 1] = q[i])
    <3> TAKE i \in DOMAIN q
    <3>1. CASE i = 1
      BY <3>1, <2>1
    <3>2. CASE i # 1
      <4>1. i - 1 \in 1 .. Len(q) - 1 /\ i - 1 + 1 = i
        BY <3>2, <1>1
      <4> QED BY <4>1, <2>2, <2>3
    <3> QED BY <3>1, <3>2
  <2>5. \A i \in DOMAIN l : i + 1 \in DOMAIN q /\ l[i] = q[i + 1]
    BY <1>1, <2>2, <2>3
  <2>6. 1 \in DOMAIN q
    BY <1>1, <2>1
  <2>7. ToSet(q) \subseteq {h} \cup ToSet(l)
    <3> SUFFICES ASSUME NEW i \in DOMAIN q PROVE q[i] \in {h} \cup ToSet(l)
      BY DEF ToSet
    <3> QED BY <2>4 DEF ToSet
  <2>8. ToSet(l) \subseteq ToSet(q)
    <3> SUFFICES ASSUME NEW i \in DOMAIN l PROVE l[i] \in ToSet(q)
      BY DEF ToSet
    <3> QED BY <2>5 DEF ToSet
  <2>9. h \in ToSet(q)
    BY <2>1, <2>6 DEF ToSet
  <2> QED BY <2>7, <2>8, <2>9 DEF h, l
<1> QED BY <1>2, <1>3, <1>4, <1>5

\* The kinds of frames are told apart.
LEMMA FramesDiffer ==
  ASSUME NEW s, NEW x
  PROVE  /\ Rst(s) # Goaway(x) /\ Rst(s) # Headers(x) /\ Headers(s) # Goaway(x)
         /\ Rst(s) = Rst(x) => s = x
         /\ Headers(s) = Headers(x) => s = x
         /\ Goaway(s) = Goaway(x) => s = x
BY DEF Rst, Headers, Goaway

-----------------------------------------------------------------------------
(* What every step that brings no stream to life does to the invariant. *)

\* A refused request stays so.
LEMMA RefusedKept ==
  ASSUME IInv, RefusedInv, Ages(tbl, tbl'), UNCHANGED <<refused, delivered>>,
         lastRecv' \in Nat, lastRecv' >= lastRecv
  PROVE  RefusedInv'
<1>1. refused \subseteq StreamIds /\ delivered \subseteq StreamIds /\ lastRecv \in Nat
      /\ \A x \in StreamIds : x \in Nat \ {0}
  BY StreamIdsAssumption DEF IInv, ControlInv, TableInv, StreamOrNone
<1>2. ASSUME NEW s \in refused
      PROVE  s \notin delivered /\ s <= lastRecv' /\ tbl'.strm[s].st \in {"ABSENT", "IDLE"}
  <2>1. s \notin delivered /\ s <= lastRecv /\ tbl'.strm[s].st \in {"ABSENT", "IDLE"}
    BY <1>1 DEF RefusedInv, Ages
  <2> QED BY <2>1, <1>1
<1>3. ASSUME NEW s \in delivered
      PROVE  s <= lastRecv' \/ (s = 1 /\ lastRecv' = 0)
  <2>1. s <= lastRecv \/ (s = 1 /\ lastRecv = 0)
    BY DEF RefusedInv
  <2> QED BY <2>1, <1>1
<1> QED BY <1>2, <1>3 DEF RefusedInv

\* What a GOAWAY says stays true, and a new one names the last request processed.
LEMMA GoawayKept ==
  ASSUME IInv, GoawayInv, Ages(tbl, tbl'),
         UNCHANGED <<lastProc, delivered, goneLast>>,
         lastRecv' \in Nat, lastRecv' >= lastRecv,
         goaway \subseteq goaway', "TERM_SENT" \in goaway' => "TERM_SENT" \in goaway,
         \A l \in StreamOrNone : Goaway(l) \in ToSet(obReg') =>
           Goaway(l) \in ToSet(obReg) \/ (l = lastProc /\ "TERM_ON_SEND" \in goaway')
  PROVE  GoawayInv'
<1>1. ASSUME NEW l, Covers(l)
      PROVE  Covers(l)'
  BY <1>1 DEF Covers, Ages
<1>2. lastProc \in Nat /\ lastRecv \in Nat
  BY StreamIdsAssumption DEF IInv, ControlInv, TableInv, StreamOrNone
<1>3. lastProc' <= lastRecv'
  BY <1>2 DEF GoawayInv
<1> QED BY <1>1, <1>3, Zenon DEF GoawayInv

\* A stream stays marked, and a new mark comes with its RST_STREAM.
LEMMA ResetKept ==
  ASSUME IInv, ResetInv, Ages(tbl, tbl'), lastRecv' \in Nat, lastRecv' >= lastRecv,
         goaway \subseteq goaway',
         \A s \in StreamIds : Rst(s) \in ToSet(obReg') =>
           \/ Rst(s) \in ToSet(obReg)
           \/ /\ ~IsNewPeerStream(s, lastRecv')
              /\ Live(tbl', s) => tbl'.strm[s].st = "CLOSING",
         \A s \in StreamIds :
           Live(tbl', s) /\ tbl'.strm[s].st = "CLOSING" /\ "TERM_ON_SEND" \notin goaway' =>
             \/ Rst(s) \in ToSet(obReg')
             \/ tbl.strm[s].st = "CLOSING" /\ Rst(s) \notin ToSet(obReg)
  PROVE  ResetInv'
<1> SUFFICES ASSUME NEW s \in StreamIds
             PROVE  /\ Rst(s) \in ToSet(obReg') =>
                         /\ ~IsNewPeerStream(s, lastRecv')
                         /\ Live(tbl', s) => tbl'.strm[s].st = "CLOSING"
                    /\ Live(tbl', s) /\ tbl'.strm[s].st = "CLOSING" /\ "TERM_ON_SEND" \notin goaway'
                         => Rst(s) \in ToSet(obReg')
  BY DEF ResetInv
<1>1. s \in Nat /\ lastRecv \in Nat
  BY StreamIdsAssumption DEF IInv, TableInv, StreamOrNone
<1>2. ASSUME Rst(s) \in ToSet(obReg)
      PROVE  ~IsNewPeerStream(s, lastRecv') /\ (Live(tbl', s) => tbl'.strm[s].st = "CLOSING")
  <2>1. ~IsNewPeerStream(s, lastRecv) /\ (Live(tbl, s) => tbl.strm[s].st = "CLOSING")
    BY <1>2 DEF ResetInv
  <2>2. ~IsNewPeerStream(s, lastRecv')
    BY <2>1, <1>1 DEF IsNewPeerStream
  <2> QED BY <2>1, <2>2 DEF Ages
<1>3. ASSUME Live(tbl', s), tbl'.strm[s].st = "CLOSING", "TERM_ON_SEND" \notin goaway'
      PROVE  Rst(s) \in ToSet(obReg')
  <2>1. Live(tbl, s) /\ "TERM_ON_SEND" \notin goaway
    BY <1>3 DEF Ages
  <2> QED BY <1>3, <2>1 DEF ResetInv
<1> QED BY <1>2, <1>3

\* A step of nghttp2_session_mem_recv, whatever it refuses.
LEMMA RecvLifeButRefused ==
  ASSUME IInv, IInv', SInv, pc' = "recv", held'.s = 0,
         EntriesOK(tbl', initWin'), Room(tbl') <= Room(tbl), Ages(tbl, tbl'),
         UNCHANGED <<lastProc, delivered, goneLast>>, lastRecv' >= lastRecv,
         Reads(iframe') => ~tbl'.strm[iframe'.s].rd,
         goaway \subseteq goaway', "TERM_SENT" \in goaway' => "TERM_SENT" \in goaway,
         ToSet(obReg) \subseteq ToSet(obReg'),
         \A l \in StreamOrNone : Goaway(l) \in ToSet(obReg') =>
           Goaway(l) \in ToSet(obReg) \/ (l = lastProc /\ "TERM_ON_SEND" \in goaway'),
         \A s \in StreamIds : Rst(s) \in ToSet(obReg') =>
           \/ Rst(s) \in ToSet(obReg)
           \/ /\ ~IsNewPeerStream(s, lastRecv')
              /\ Live(tbl', s) => tbl'.strm[s].st = "CLOSING",
         \A s \in StreamIds :
           Live(tbl', s) /\ tbl'.strm[s].st = "CLOSING" =>
             Rst(s) \in ToSet(obReg') \/ tbl.strm[s].st = "CLOSING"
             \/ "TERM_ON_SEND" \in goaway'
  PROVE  LifeInv' /\ ReadInv' /\ ResetInv' /\ GoawayInv'
<1>1. lastRecv' \in Nat
  BY StreamIdsAssumption DEF IInv, TableInv, StreamOrNone
<1>2. LifeInv'
  <2>1. Room(tbl) \in Nat /\ Room(tbl') \in Nat
    BY ActiveCount DEF IInv, TableInv
  <2>2. Room(tbl') <= MaxConcurrent
    BY <2>1, MaxConcurrentAssumption DEF SInv, LifeInv
  <2> QED BY <2>2 DEF LifeInv
<1>3. ReadInv'
  BY DEF ReadInv
<1>4. ResetInv'
  BY <1>1, ResetKept DEF SInv
<1>5. GoawayInv'
  BY <1>1, GoawayKept DEF SInv
<1> QED BY <1>2, <1>3, <1>4, <1>5

\* A step of nghttp2_session_mem_recv that refuses none.
LEMMA RecvLife ==
  ASSUME IInv, IInv', SInv, pc' = "recv", held'.s = 0,
         EntriesOK(tbl', initWin'), Room(tbl') <= Room(tbl), Ages(tbl, tbl'),
         UNCHANGED <<lastProc, delivered, goneLast, refused>>, lastRecv' >= lastRecv,
         Reads(iframe') => ~tbl'.strm[iframe'.s].rd,
         goaway \subseteq goaway', "TERM_SENT" \in goaway' => "TERM_SENT" \in goaway,
         ToSet(obReg) \subseteq ToSet(obReg'),
         \A l \in StreamOrNone : Goaway(l) \in ToSet(obReg') =>
           Goaway(l) \in ToSet(obReg) \/ (l = lastProc /\ "TERM_ON_SEND" \in goaway'),
         \A s \in StreamIds : Rst(s) \in ToSet(obReg') =>
           \/ Rst(s) \in ToSet(obReg)
           \/ /\ ~IsNewPeerStream(s, lastRecv')
              /\ Live(tbl', s) => tbl'.strm[s].st = "CLOSING",
         \A s \in StreamIds :
           Live(tbl', s) /\ tbl'.strm[s].st = "CLOSING" =>
             Rst(s) \in ToSet(obReg') \/ tbl.strm[s].st = "CLOSING"
             \/ "TERM_ON_SEND" \in goaway'
  PROVE  SInv'
<1>1. lastRecv' \in Nat
  BY StreamIdsAssumption DEF IInv, TableInv, StreamOrNone
<1>2. RefusedInv'
  BY <1>1, RefusedKept DEF SInv
<1>3. LifeInv' /\ ReadInv' /\ ResetInv' /\ GoawayInv'
  BY RecvLifeButRefused
<1> QED BY <1>2, <1>3 DEF SInv

\* A step resets no stream: the queue is left alone, or the session is terminated.
LEMMA QueueKept ==
  ASSUME ControlInv,
         (obReg' = obReg /\ goaway' \in {goaway, goaway \cup {"RECV"}}) \/ Terminate
  PROVE  /\ goaway \subseteq goaway' /\ ("TERM_SENT" \in goaway' => "TERM_SENT" \in goaway)
         /\ ToSet(obReg) \subseteq ToSet(obReg')
         /\ \A l \in StreamOrNone : Goaway(l) \in ToSet(obReg') =>
              Goaway(l) \in ToSet(obReg) \/ (l = lastProc /\ "TERM_ON_SEND" \in goaway')
         /\ \A s \in StreamIds : Rst(s) \in ToSet(obReg') => Rst(s) \in ToSet(obReg)
<1>1. CASE obReg' = obReg /\ goaway' \in {goaway, goaway \cup {"RECV"}}
  BY <1>1
<1>2. CASE Terminate
  <2>1. obReg \in Seq(OutFrame) /\ Goaway(lastProc) \in OutFrame
    BY DEF ControlInv, Goaway, OutFrame
  <2>2. /\ goaway' = goaway \cup {"TERM_ON_SEND"}
        /\ obReg' = obReg \/ obReg' = Append(obReg, Goaway(lastProc))
    BY <1>2 DEF Terminate
  <2>3. ToSet(obReg') = ToSet(obReg) \/ ToSet(obReg') = ToSet(obReg) \cup {Goaway(lastProc)}
    BY <2>1, <2>2, QueueContents
  <2> QED BY <2>2, <2>3, FramesDiffer
<1> QED BY <1>1, <1>2

\* A frame that resets no stream, and closes at most the one it is about.
LEMMA QuietRecv ==
  ASSUME IInv, IInv', SInv, pc = "recv", UNCHANGED control,
         EntriesOK(tbl', initWin'), Room(tbl') <= Room(tbl), Ages(tbl, tbl'),
         \A x \in StreamIds : tbl'.strm[x].st = "CLOSING" => tbl.strm[x].st = "CLOSING",
         UNCHANGED <<lastProc, delivered, goneLast, refused>>, lastRecv' >= lastRecv,
         Reads(iframe') => ~tbl'.strm[iframe'.s].rd,
         (obReg' = obReg /\ goaway' \in {goaway, goaway \cup {"RECV"}}) \/ Terminate
  PROVE  SInv'
<1>1. pc' = "recv" /\ held'.s = 0
  BY DEF SInv, ReadInv, control
<1>2. ControlInv
  BY DEF IInv
<1> QED BY <1>1, <1>2, QueueKept, RecvLife

\* A frame that leaves the table alone besides.
LEMMA IdleRecv ==
  ASSUME IInv, IInv', SInv, pc = "recv", UNCHANGED control, UNCHANGED <<tbl, initWin>>,
         UNCHANGED <<lastProc, delivered, goneLast, refused>>, lastRecv' >= lastRecv,
         Reads(iframe') => ~tbl.strm[iframe'.s].rd,
         (obReg' = obReg /\ goaway' \in {goaway, goaway \cup {"RECV"}}) \/ Terminate
  PROVE  SInv'
<1>1. EntriesOK(tbl', initWin') /\ Ages(tbl, tbl')
  BY LifeReflexive DEF SInv, LifeInv
<1>2. Room(tbl') <= Room(tbl)
  <2>1. Room(tbl) \in Nat
    BY ActiveCount DEF IInv, TableInv
  <2> QED BY <2>1
<1> QED BY <1>1, <1>2, QuietRecv

\* The identifiers are numbers.
LEMMA RecvIds ==
  ASSUME IInv PROVE lastRecv \in Nat /\ lastProc \in Nat /\ StreamIds \subseteq Nat
BY StreamIdsAssumption DEF IInv, TableInv, ControlInv, StreamOrNone

-----------------------------------------------------------------------------
(* The frames that leave the table alone. *)

\* No frame but HEADERS and DATA is read in pieces.
LEMMA ReadsNone ==
  /\ ~Reads(NoFrame) /\ ~Reads(IgnoreAll) /\ ~Reads(IgnoredHeaders)
BY DEF Reads, NoFrame, IgnoreAll, IgnoredHeaders

\* The first frame is not SETTINGS.
LEMMA RecvNoSettingsLife ==
  ASSUME IInv, IInv', SInv, RecvNoSettings PROVE SInv'
<1>1. /\ pc = "recv" /\ UNCHANGED control /\ iframe' = IgnoreAll /\ Terminate
      /\ UNCHANGED <<tbl, initWin, lastProc, delivered, goneLast, refused, lastRecv>>
  BY DEF RecvNoSettings, flow, ids, history
<1> QED BY <1>1, RecvIds, ReadsNone, IdleRecv

\* A malformed frame.
LEMMA RecvInvalidLife ==
  ASSUME IInv, IInv', SInv, RecvInvalid PROVE SInv'
<1>1. /\ pc = "recv" /\ UNCHANGED control /\ iframe' = NoFrame /\ Terminate
      /\ UNCHANGED <<tbl, initWin, lastProc, delivered, goneLast, refused, lastRecv>>
  BY DEF RecvInvalid, Single, Begins, flow, ids, history
<1> QED BY <1>1, RecvIds, ReadsNone, IdleRecv

\* HEADERS on a live stream.
LEMMA RecvTrailersLife ==
  ASSUME IInv, IInv', SInv, NEW s \in StreamIds, NEW es \in BOOLEAN, RecvTrailers(s, es)
  PROVE  SInv'
<1>1. /\ pc = "recv" /\ UNCHANGED control
      /\ UNCHANGED <<tbl, initWin, lastProc, delivered, goneLast, refused, lastRecv>>
  BY DEF RecvTrailers, Begins, flow, ids, history
<1>2. \/ iframe' = IgnoredHeaders /\ Terminate
      \/ iframe' = IgnoredHeaders /\ UNCHANGED <<goaway, obReg>>
      \/ /\ iframe' = HeadersFrame(s, es, TRUE) /\ ~tbl.strm[s].rd
         /\ UNCHANGED <<goaway, obReg>>
  BY DEF RecvTrailers
<1>3. HeadersFrame(s, es, TRUE).s = s
  BY DEF HeadersFrame
<1>4. Reads(iframe') => ~tbl.strm[iframe'.s].rd
  BY <1>2, <1>3, ReadsNone
<1>5. UNCHANGED <<goaway, obReg>> \/ Terminate
  BY <1>2
<1>6. lastRecv' >= lastRecv
  BY <1>1, RecvIds
<1> QED BY <1>1, <1>4, <1>5, <1>6, IdleRecv

\* DATA begins.
LEMMA RecvDataLife ==
  ASSUME IInv, IInv', SInv, NEW s \in StreamIds, NEW es \in BOOLEAN, RecvData(s, es)
  PROVE  SInv'
<1>1. /\ pc = "recv" /\ UNCHANGED control
      /\ UNCHANGED <<tbl, initWin, lastProc, delivered, goneLast, refused, lastRecv>>
  BY DEF RecvData, Begins, flow, ids, history
<1>2. \/ iframe' = NoFrame /\ Terminate
      \/ iframe' = NoFrame /\ UNCHANGED <<goaway, obReg>>
      \/ /\ iframe' = DataFrame(s, es) /\ ~tbl.strm[s].rd
         /\ UNCHANGED <<goaway, obReg>>
  BY DEF RecvData, DataVerdict
<1>3. DataFrame(s, es).s = s
  BY DEF DataFrame
<1>4. Reads(iframe') => ~tbl.strm[iframe'.s].rd
  BY <1>2, <1>3, ReadsNone
<1>5. UNCHANGED <<goaway, obReg>> \/ Terminate
  BY <1>2
<1>6. lastRecv' >= lastRecv
  BY <1>1, RecvIds
<1> QED BY <1>1, <1>4, <1>5, <1>6, IdleRecv

\* A frame without effect.
LEMMA FrameIgnoredLife ==
  ASSUME IInv, IInv', SInv, FrameIgnored PROVE SInv'
<1>1. /\ pc = "recv" /\ UNCHANGED control /\ iframe' = NoFrame /\ UNCHANGED <<goaway, obReg>>
      /\ UNCHANGED <<tbl, initWin, lastProc, delivered, goneLast, refused, lastRecv>>
  BY DEF FrameIgnored, flow, ids, history, queues
<1> QED BY <1>1, RecvIds, ReadsNone, IdleRecv

\* SETTINGS ACK.
LEMMA RecvSettingsAckLife ==
  ASSUME IInv, IInv', SInv, RecvSettingsAck PROVE SInv'
<1>1. /\ pc = "recv" /\ UNCHANGED control /\ iframe' = NoFrame
      /\ UNCHANGED <<goaway, obReg>> \/ Terminate
      /\ UNCHANGED <<tbl, initWin, lastProc, delivered, goneLast, refused, lastRecv>>
  BY DEF RecvSettingsAck, Single, Begins, flow, ids, history
<1> QED BY <1>1, RecvIds, ReadsNone, IdleRecv

\* WINDOW_UPDATE of the connection.
LEMMA RecvConnWindowUpdateLife ==
  ASSUME IInv, IInv', SInv, NEW n \in Increments, RecvConnWindowUpdate(n) PROVE SInv'
<1>1. /\ pc = "recv" /\ UNCHANGED control /\ iframe' = NoFrame
      /\ UNCHANGED <<goaway, obReg>> \/ Terminate
      /\ UNCHANGED <<tbl, initWin, lastProc, delivered, goneLast, refused, lastRecv>>
  BY DEF RecvConnWindowUpdate, Single, Begins, ids, history
<1> QED BY <1>1, RecvIds, ReadsNone, IdleRecv

\* GOAWAY and PING.
LEMMA RecvGoawayPingLife ==
  ASSUME IInv, IInv', SInv, RecvGoaway \/ RecvPing PROVE SInv'
<1>1. /\ pc = "recv" /\ UNCHANGED control /\ iframe' = NoFrame
      /\ UNCHANGED obReg /\ goaway' \in {goaway, goaway \cup {"RECV"}}
      /\ UNCHANGED <<tbl, initWin, lastProc, delivered, goneLast, refused, lastRecv>>
  BY DEF RecvGoaway, RecvPing, Single, Begins, flow, ids, history, queues
<1> QED BY <1>1, RecvIds, ReadsNone, IdleRecv

-----------------------------------------------------------------------------
(* The frames that change the table. *)

\* RST_STREAM closes its stream.
LEMMA RecvRstLife ==
  ASSUME IInv, IInv', SInv, NEW s \in StreamIds, RecvRst(s) PROVE SInv'
<1>1. /\ pc = "recv" /\ UNCHANGED control /\ iframe' = NoFrame
      /\ UNCHANGED <<initWin, lastProc, delivered, goneLast, refused, lastRecv>>
  BY DEF RecvRst, Single, Begins, flow, ids, history
<1>2. \/ tbl' = tbl /\ (UNCHANGED <<goaway, obReg>> \/ Terminate)
      \/ /\ Live(tbl, s) /\ tbl' = CloseStream(ShutRd(tbl, s), s)
         /\ UNCHANGED <<goaway, obReg>>
  BY DEF RecvRst
<1>3. lastRecv' >= lastRecv /\ ~Reads(iframe')
  BY <1>1, RecvIds, ReadsNone
<1>4. CASE tbl' = tbl /\ (UNCHANGED <<goaway, obReg>> \/ Terminate)
  BY <1>1, <1>3, <1>4, IdleRecv
<1>5. CASE Live(tbl, s) /\ tbl' = CloseStream(ShutRd(tbl, s), s) /\ UNCHANGED <<goaway, obReg>>
  <2>1. /\ EntriesOK(tbl', initWin) /\ Ages(tbl, tbl') /\ Point(tbl, tbl', s, tbl'.strm[s])
        /\ tbl'.strm[s].st = tbl.strm[s].st
    BY <1>5, ResetStream DEF IInv, TableInv, SInv, LifeInv
  <2>2. Room(tbl') <= Room(tbl)
    <3>1. Room(tbl) \in Nat
      BY ActiveCount DEF IInv, TableInv
    <3> QED BY <3>1, <2>1 DEF Point
  <2>3. \A x \in StreamIds : tbl'.strm[x].st = "CLOSING" => tbl.strm[x].st = "CLOSING"
    BY <2>1 DEF Point
  <2> QED BY <1>1, <1>3, <1>5, <2>1, <2>2, <2>3, QuietRecv
<1> QED BY <1>2, <1>4, <1>5

\* PRIORITY invents idle streams, and the idle list is trimmed.
LEMMA PriorityAges ==
  ASSUME NEW t, TableOK(t), NEW w \in Windows, EntriesOK(t, w), NEW s \in StreamIds,
         NEW d \in StreamOrNone, d # s, NEW l, NEW cap \in Nat
  PROVE  LET anchored == AnchorDependency(t, d, w, l)
             known    == IF Mapped(t, s) THEN anchored ELSE CreateIdle(anchored, s, w)
             u        == AdjustIdle(known, cap)
         IN  EntriesOK(u, w) /\ Ages(t, u) /\ Calm(t, u) /\ Waits(t, u) /\ Room(u) = Room(t)
<1> DEFINE a == AnchorDependency(t, d, w, l)
           k == IF Mapped(t, s) THEN a ELSE CreateIdle(a, s, w)
           u == AdjustIdle(k, cap)
<1>1. d \in StreamIds \cup {0}
  BY DEF StreamOrNone
<1>2. /\ TableOK(a) /\ EntriesOK(a, w) /\ Ages(t, a) /\ Calm(t, a) /\ Waits(t, a)
      /\ Room(a) = Room(t)
  BY <1>1, AnchorDependencyOK, AnchorFades, FadesOK
<1>3. a.strm[s] = t.strm[s]
  BY AnchorDependencyOthers
<1> HIDE DEF a
<1>4. /\ TableOK(k) /\ EntriesOK(k, w) /\ Ages(a, k) /\ Calm(a, k) /\ Waits(a, k)
      /\ Room(k) = Room(a)
  <2>1. CASE Mapped(t, s)
    BY <2>1, <1>2, LifeReflexive
  <2>2. CASE ~Mapped(t, s)
    <3> DEFINE c == CreateIdle(a, s, w)
    <3>1. ~Mapped(a, s)
      BY <2>2, <1>3 DEF Mapped
    <3>2. TableOK(c) /\ Fades(a, c, w) /\ Room(c) = Room(a)
      BY <3>1, <1>2, CreateIdleOK, CreateIdleFades
    <3> HIDE DEF c
    <3>3. EntriesOK(c, w) /\ Ages(a, c) /\ Calm(a, c) /\ Waits(a, c)
      BY <3>2, <1>2, FadesOK
    <3>4. k = c
      BY <2>2 DEF c
    <3> QED BY <3>2, <3>3, <3>4
  <2> QED BY <2>1, <2>2
<1> HIDE DEF k
<1>5. /\ Fades(k, u, w) /\ Room(u) = Room(k)
  BY <1>4, AdjustIdleFades
<1> HIDE DEF u
<1>6. EntriesOK(u, w) /\ Ages(k, u) /\ Calm(k, u) /\ Waits(k, u)
  BY <1>4, <1>5, FadesOK
<1>7. Ages(a, u) /\ Calm(a, u) /\ Waits(a, u)
  BY <1>4, <1>6, LifeTransitive
<1>8. Ages(t, u) /\ Calm(t, u) /\ Waits(t, u)
  BY <1>2, <1>7, LifeTransitive
<1> QED BY <1>2, <1>4, <1>5, <1>6, <1>8 DEF u, k, a

\* PRIORITY.
LEMMA RecvPriorityLife ==
  ASSUME IInv, IInv', SInv, NEW s \in StreamIds, NEW d \in StreamOrNone, RecvPriority(s, d)
  PROVE  SInv'
<1> DEFINE anchored == AnchorDependency(tbl, d, initWin, lastRecv)
           known == IF Mapped(tbl, s) THEN anchored ELSE CreateIdle(anchored, s, initWin)
           cap == IdleMax(localMax, pendingMax)
           u == AdjustIdle(known, cap)
<1>1. /\ pc = "recv" /\ UNCHANGED control /\ iframe' = NoFrame
      /\ UNCHANGED <<initWin, lastProc, delivered, goneLast, refused, lastRecv>>
      /\ UNCHANGED <<goaway, obReg>> \/ Terminate
  BY DEF RecvPriority, Single, Begins, flow, ids, history
<1>2. tbl' = tbl \/ (d # s /\ tbl' = u)
  BY DEF RecvPriority
<1>3. lastRecv' >= lastRecv /\ ~Reads(iframe')
  BY <1>1, RecvIds, ReadsNone
<1>4. CASE tbl' = tbl
  BY <1>1, <1>3, <1>4, IdleRecv
<1>5. CASE d # s /\ tbl' = u
  <2>1. cap \in Nat /\ initWin \in Windows
    BY LimitTypes, MaxWindowAssumption DEF IInv, TableInv, Windows
  <2> HIDE DEF cap
  <2>2. EntriesOK(u, initWin) /\ Ages(tbl, u) /\ Calm(tbl, u) /\ Room(u) = Room(tbl)
    BY <1>5, <2>1, PriorityAges DEF IInv, TableInv, SInv, LifeInv
  <2> HIDE DEF u
  <2>3. Room(tbl) \in Nat
    BY ActiveCount DEF IInv, TableInv
  <2>4. Room(tbl') <= Room(tbl)
    BY <1>5, <2>2, <2>3
  <2> QED BY <1>1, <1>3, <1>5, <2>2, <2>4, QuietRecv DEF Calm
<1> QED BY <1>2, <1>4, <1>5

\* What nghttp2_session_add_rst_stream leaves in the queue.
LEMMA ResetQueued ==
  ASSUME ControlInv, NEW s \in StreamIds, obReg' = obReg \o RstItem(tbl, s)
  PROVE  /\ ToSet(obReg) \subseteq ToSet(obReg')
         /\ \A l \in StreamOrNone : Goaway(l) \in ToSet(obReg') => Goaway(l) \in ToSet(obReg)
         /\ \A x \in StreamIds : Rst(x) \in ToSet(obReg') => Rst(x) \in ToSet(obReg) \/ x = s
         /\ Rst(s) \in ToSet(obReg') \/ (Live(tbl, s) /\ tbl.strm[s].st = "CLOSING")
<1>1. obReg \in Seq(OutFrame) /\ Rst(s) \in OutFrame
  BY DEF ControlInv, Rst, OutFrame
<1>2. << Rst(s) >> \in Seq(OutFrame) /\ << >> \in Seq(OutFrame)
  BY <1>1
<1>3. /\ ToSet(obReg \o << >>) = ToSet(obReg)
      /\ ToSet(obReg \o << Rst(s) >>) = ToSet(obReg) \cup {Rst(s)}
  <2>1. ToSet(<< Rst(s) >>) = {Rst(s)} /\ ToSet(<< >>) = {}
    BY <1>1, QueueContents
  <2>2. \A r \in Seq(OutFrame) : ToSet(obReg \o r) = ToSet(obReg) \cup ToSet(r)
    BY <1>1, QueueContents
  <2> QED BY <1>2, <2>1, <2>2
<1>4. \/ ToSet(obReg') = ToSet(obReg) /\ Live(tbl, s) /\ tbl.strm[s].st = "CLOSING"
      \/ ToSet(obReg') = ToSet(obReg) \cup {Rst(s)}
  BY <1>3 DEF RstItem
<1> QED BY <1>4, FramesDiffer

\* A stream is marked for reset, and may be closed besides.
LEMMA AddRstLife ==
  ASSUME IInv, IInv', SInv, NEW s \in StreamIds, pc = "recv", UNCHANGED control,
         obReg' = obReg \o RstItem(tbl, s),
         EntriesOK(tbl', initWin), Ages(tbl, tbl'), Room(tbl') = Room(tbl),
         \A x \in StreamIds \ {s} : tbl'.strm[x] = tbl.strm[x],
         Live(tbl', s) => tbl'.strm[s].st = "CLOSING",
         UNCHANGED <<initWin, goaway, lastProc, delivered, goneLast, refused>>,
         lastRecv' >= lastRecv, ~IsNewPeerStream(s, lastRecv'), ~Reads(iframe')
  PROVE  SInv'
<1>1. pc' = "recv" /\ held'.s = 0
  BY DEF SInv, ReadInv, control
<1>2. /\ ToSet(obReg) \subseteq ToSet(obReg')
      /\ \A l \in StreamOrNone : Goaway(l) \in ToSet(obReg') => Goaway(l) \in ToSet(obReg)
      /\ \A x \in StreamIds : Rst(x) \in ToSet(obReg') => Rst(x) \in ToSet(obReg) \/ x = s
      /\ Rst(s) \in ToSet(obReg') \/ (Live(tbl, s) /\ tbl.strm[s].st = "CLOSING")
  BY ResetQueued DEF IInv
<1>3. Room(tbl') <= Room(tbl)
  <2>1. Room(tbl) \in Nat
    BY ActiveCount DEF IInv, TableInv
  <2> QED BY <2>1
<1>4. \A x \in StreamIds : Rst(x) \in ToSet(obReg') =>
        \/ Rst(x) \in ToSet(obReg)
        \/ /\ ~IsNewPeerStream(x, lastRecv')
           /\ Live(tbl', x) => tbl'.strm[x].st = "CLOSING"
  BY <1>2
<1>5. \A x \in StreamIds :
        Live(tbl', x) /\ tbl'.strm[x].st = "CLOSING" =>
          Rst(x) \in ToSet(obReg') \/ tbl.strm[x].st = "CLOSING" \/ "TERM_ON_SEND" \in goaway'
  BY <1>2
<1> QED BY <1>1, <1>2, <1>3, <1>4, <1>5, RecvLife

\* A live stream is no new one.
LEMMA LiveIsKnown ==
  ASSUME IInv, NEW s \in StreamIds, Live(tbl, s) PROVE ~IsNewPeerStream(s, lastRecv)
BY DEF IInv, TableInv, OpenAssertion, Live

\* WINDOW_UPDATE of a stream opens its window, or resets it.
LEMMA RecvWindowUpdateLife ==
  ASSUME IInv, IInv', SInv, NEW s \in StreamIds, NEW n \in Increments, RecvWindowUpdate(s, n)
  PROVE  SInv'
<1>1. /\ pc = "recv" /\ UNCHANGED control /\ iframe' = NoFrame
      /\ UNCHANGED <<initWin, lastProc, delivered, goneLast, refused, lastRecv>>
  BY DEF RecvWindowUpdate, Single, Begins, flow, ids, history
<1>2. \/ tbl' = tbl /\ (UNCHANGED <<goaway, obReg>> \/ Terminate)
      \/ Live(tbl, s) /\ AddRst(s) /\ UNCHANGED goaway
      \/ Live(tbl, s) /\ tbl' = GrowWindow(tbl, s, n) /\ UNCHANGED <<goaway, obReg>>
  BY DEF RecvWindowUpdate
<1>3. lastRecv' >= lastRecv /\ ~Reads(iframe')
  BY <1>1, RecvIds, ReadsNone
<1>4. TableOK(tbl) /\ EntriesOK(tbl, initWin)
  BY DEF IInv, TableInv, SInv, LifeInv
<1>5. CASE tbl' = tbl /\ (UNCHANGED <<goaway, obReg>> \/ Terminate)
  BY <1>1, <1>3, <1>5, IdleRecv
<1>6. CASE Live(tbl, s) /\ AddRst(s) /\ UNCHANGED goaway
  <2>1. tbl' = MarkClosing(tbl, s) /\ obReg' = obReg \o RstItem(tbl, s)
    BY <1>6 DEF AddRst
  <2>2. /\ EntriesOK(tbl', initWin) /\ Ages(tbl, tbl') /\ Room(tbl') = Room(tbl)
        /\ \A x \in StreamIds \ {s} : tbl'.strm[x] = tbl.strm[x]
        /\ Live(tbl', s) => tbl'.strm[s].st = "CLOSING"
    BY <1>4, <2>1, MarkClosingAges
  <2>3. ~IsNewPeerStream(s, lastRecv')
    BY <1>1, <1>6, LiveIsKnown
  <2> QED BY <1>1, <1>3, <1>6, <2>1, <2>2, <2>3, AddRstLife
<1>7. CASE Live(tbl, s) /\ tbl' = GrowWindow(tbl, s, n) /\ UNCHANGED <<goaway, obReg>>
  <2>1. EntriesOK(tbl', initWin) /\ Ages(tbl, tbl') /\ Calm(tbl, tbl') /\ Room(tbl') = Room(tbl)
    BY <1>4, <1>7, GrowWindowAges
  <2>2. Room(tbl) \in Nat
    BY <1>4, ActiveCount
  <2>3. Room(tbl') <= Room(tbl)
    BY <2>1, <2>2
  <2> QED BY <1>1, <1>3, <1>7, <2>1, <2>3, QuietRecv DEF Calm
<1> QED BY <1>2, <1>5, <1>6, <1>7

\* A frame is given up in its middle.
LEMMA FrameAbortedLife ==
  ASSUME IInv, IInv', SInv, FrameAborted PROVE SInv'
<1> DEFINE s == iframe.s
<1>1. /\ pc = "recv" /\ UNCHANGED control /\ ~Reads(iframe') /\ Live(tbl, s)
      /\ tbl' = MarkClosing(tbl, s) /\ obReg' = obReg \o RstItem(tbl, s)
      /\ UNCHANGED <<initWin, goaway, lastProc, delivered, goneLast, refused, lastRecv>>
  BY ReadsNone DEF FrameAborted, AddRst, flow, ids, history
<1>2. s \in StreamIds
  BY DEF FrameAborted, IInv, ControlInv, InFrame
<1> HIDE DEF s
<1>3. /\ EntriesOK(tbl', initWin) /\ Ages(tbl, tbl') /\ Room(tbl') = Room(tbl)
      /\ \A x \in StreamIds \ {s} : tbl'.strm[x] = tbl.strm[x]
      /\ Live(tbl', s) => tbl'.strm[s].st = "CLOSING"
  BY <1>1, <1>2, MarkClosingAges DEF IInv, TableInv, SInv, LifeInv
<1>4. lastRecv' >= lastRecv /\ ~IsNewPeerStream(s, lastRecv')
  BY <1>1, <1>2, RecvIds, LiveIsKnown
<1> QED BY <1>1, <1>2, <1>3, <1>4, AddRstLife

\* END_STREAM takes effect on a live stream.
LEMMA EndStreamAges ==
  ASSUME NEW t, TableOK(t), NEW s \in StreamIds, NEW iw, EntriesOK(t, iw), Live(t, s),
         NEW es \in BOOLEAN
  PROVE  LET u == EndStream(t, s, es)
         IN  /\ EntriesOK(u, iw) /\ Ages(t, u) /\ Waits(t, u) /\ Room(u) = Room(t)
             /\ u.strm[s].st = t.strm[s].st
             /\ \A x \in StreamIds \ {s} : u.strm[x] = t.strm[x]
<1> DEFINE u == EndStream(t, s, es)
<1>1. CASE es
  <2>1. u = CloseIfShut(ShutRd(t, s), s)
    BY <1>1 DEF EndStream
  <2> HIDE DEF u
  <2>2. /\ EntriesOK(u, iw) /\ Ages(t, u) /\ Waits(t, u)
        /\ Point(t, u, s, u.strm[s]) /\ u.strm[s].st = t.strm[s].st
    BY <2>1, EndOfStream
  <2> QED BY <2>2 DEF Point, u
<1>2. CASE ~es
  <2>1. u = t
    BY <1>2 DEF EndStream
  <2> HIDE DEF u
  <2> QED BY <2>1, LifeReflexive DEF u
<1> QED BY <1>1, <1>2

\* A malformed message: the stream is reset, and END_STREAM honoured.
LEMMA FrameViolatesMessagingLife ==
  ASSUME IInv, IInv', SInv, FrameViolatesMessaging PROVE SInv'
<1> DEFINE s == iframe.s
           m == MarkClosing(tbl, s)
<1>1. /\ pc = "recv" /\ UNCHANGED control /\ ~Reads(iframe') /\ Live(tbl, s)
      /\ tbl' = EndStream(m, s, iframe.es) /\ obReg' = obReg \o RstItem(tbl, s)
      /\ UNCHANGED <<initWin, goaway, lastProc, delivered, goneLast, refused, lastRecv>>
  BY ReadsNone DEF FrameViolatesMessaging, FrameStreamOpen, flow, ids, history
<1>2. s \in StreamIds /\ iframe.es \in BOOLEAN
  BY DEF FrameViolatesMessaging, IInv, ControlInv, InFrame
<1> HIDE DEF s
<1>3. /\ TableOK(m) /\ EntriesOK(m, initWin) /\ Ages(tbl, m) /\ Room(m) = Room(tbl)
      /\ \A x \in StreamIds \ {s} : m.strm[x] = tbl.strm[x]
      /\ Live(m, s) /\ m.strm[s].st = "CLOSING"
  <2>1. TableOK(tbl) /\ EntriesOK(tbl, initWin)
    BY DEF IInv, TableInv, SInv, LifeInv
  <2>2. /\ EntriesOK(m, initWin) /\ Ages(tbl, m) /\ Spares(tbl, m) /\ Room(m) = Room(tbl)
        /\ \A x \in StreamIds \ {s} : m.strm[x] = tbl.strm[x]
        /\ Live(m, s) => m.strm[s].st = "CLOSING"
    BY <1>2, <2>1, MarkClosingAges
  <2>3. TableOK(m)
    BY <1>2, <2>1, MarkClosingOK
  <2>4. Live(m, s)
    BY <1>1, <1>2, <2>2 DEF Spares
  <2> QED BY <2>2, <2>3, <2>4
<1> HIDE DEF m
<1>4. /\ EntriesOK(tbl', initWin) /\ Ages(m, tbl') /\ Room(tbl') = Room(m)
      /\ tbl'.strm[s].st = "CLOSING"
      /\ \A x \in StreamIds \ {s} : tbl'.strm[x] = m.strm[x]
  BY <1>1, <1>2, <1>3, EndStreamAges
<1>5. Ages(tbl, tbl')
  BY <1>3, <1>4, LifeTransitive
<1>6. Room(tbl') = Room(tbl) /\ \A x \in StreamIds \ {s} : tbl'.strm[x] = tbl.strm[x]
  BY <1>3, <1>4
<1>7. lastRecv' >= lastRecv /\ ~IsNewPeerStream(s, lastRecv')
  BY <1>1, <1>2, RecvIds, LiveIsKnown
<1> QED BY <1>1, <1>2, <1>4, <1>5, <1>6, <1>7, AddRstLife

\* The header block does not decode.
LEMMA CompressionErrorLife ==
  ASSUME IInv, IInv', SInv, CompressionError PROVE SInv'
<1> DEFINE s == iframe.s
           reset == iframe.k = "HEADERS" /\ FrameStreamOpen
           reg == IF reset THEN Append(obReg, Rst(s)) ELSE obReg
<1>1. /\ pc = "recv" /\ UNCHANGED control /\ ~Reads(iframe')
      /\ tbl' = (IF reset THEN MarkClosing(tbl, s) ELSE tbl)
      /\ goaway' = goaway \cup {"TERM_ON_SEND"}
      /\ obReg' = reg \/ obReg' = Append(reg, Goaway(lastProc))
      /\ UNCHANGED <<initWin, lastProc, delivered, goneLast, refused, lastRecv>>
  BY ReadsNone DEF CompressionError, flow, ids, history
<1>2. reset => s \in StreamIds /\ Live(tbl, s)
  BY DEF FrameStreamOpen, IInv, ControlInv, InFrame
<1> HIDE DEF s, reset
<1>3. pc' = "recv" /\ held'.s = 0 /\ lastRecv' >= lastRecv
  BY <1>1, RecvIds DEF SInv, ReadInv, control
<1>4. EntriesOK(tbl', initWin') /\ Ages(tbl, tbl') /\ Room(tbl') = Room(tbl)
      /\ (reset => (Live(tbl', s) => tbl'.strm[s].st = "CLOSING"))
  <2>1. TableOK(tbl) /\ EntriesOK(tbl, initWin)
    BY DEF IInv, TableInv, SInv, LifeInv
  <2>2. CASE reset
    BY <1>1, <1>2, <2>1, <2>2, MarkClosingAges
  <2>3. CASE ~reset
    BY <1>1, <2>1, <2>3, LifeReflexive
  <2> QED BY <2>2, <2>3
<1>5. Room(tbl') <= Room(tbl)
  <2>1. Room(tbl) \in Nat
    BY ActiveCount DEF IInv, TableInv
  <2> QED BY <2>1, <1>4
<1>6. /\ reg \in Seq(OutFrame)
      /\ ToSet(reg) = ToSet(obReg) \/ (reset /\ ToSet(reg) = ToSet(obReg) \cup {Rst(s)})
  <2>1. obReg \in Seq(OutFrame)
    BY DEF IInv, ControlInv
  <2>2. CASE reset
    <3>1. Rst(s) \in OutFrame
      BY <1>2, <2>2 DEF Rst, OutFrame
    <3>2. reg = Append(obReg, Rst(s))
      BY <2>2
    <3>3. Append(obReg, Rst(s)) \in Seq(OutFrame)
      BY <2>1, <3>1
    <3>4. ToSet(Append(obReg, Rst(s))) = ToSet(obReg) \cup {Rst(s)}
      BY <2>1, <3>1, QueueContents
    <3> HIDE DEF reg
    <3> QED BY <2>2, <3>2, <3>3, <3>4
  <2>3. CASE ~reset
    BY <2>1, <2>3
  <2> QED BY <2>2, <2>3
<1> HIDE DEF reg
<1>7. ToSet(obReg') = ToSet(reg) \/ ToSet(obReg') = ToSet(reg) \cup {Goaway(lastProc)}
  <2>1. Goaway(lastProc) \in OutFrame
    BY DEF IInv, ControlInv, Goaway, OutFrame
  <2> QED BY <1>1, <1>6, <2>1, QueueContents
<1>8. \A l \in StreamOrNone : Goaway(l) \in ToSet(obReg') =>
        Goaway(l) \in ToSet(obReg) \/ (l = lastProc /\ "TERM_ON_SEND" \in goaway')
  BY <1>1, <1>6, <1>7, FramesDiffer
<1>9. \A x \in StreamIds : Rst(x) \in ToSet(obReg') =>
        \/ Rst(x) \in ToSet(obReg)
        \/ /\ ~IsNewPeerStream(x, lastRecv')
           /\ Live(tbl', x) => tbl'.strm[x].st = "CLOSING"
  <2>1. reset => ~IsNewPeerStream(s, lastRecv')
    BY <1>1, <1>2, LiveIsKnown
  <2>2. ASSUME NEW x \in StreamIds, Rst(x) \in ToSet(obReg'), Rst(x) \notin ToSet(obReg)
        PROVE  reset /\ x = s
    BY <2>2, <1>6, <1>7, FramesDiffer
  <2> QED BY <2>1, <2>2, <1>4
<1>10. ToSet(obReg) \subseteq ToSet(obReg')
  BY <1>6, <1>7
<1>11. /\ goaway \subseteq goaway' /\ "TERM_ON_SEND" \in goaway'
       /\ "TERM_SENT" \in goaway' => "TERM_SENT" \in goaway
  BY <1>1
<1> QED BY <1>1, <1>3, <1>4, <1>5, <1>8, <1>9, <1>10, <1>11, RecvLife

\* SETTINGS reset the streams whose windows would overflow.
LEMMA RecvSettingsLife ==
  ASSUME IInv, IInv', SInv, NEW w \in WindowSizes, RecvSettings(w) PROVE SInv'
<1> DEFINE R == {s \in WindowOverflows(tbl, w, initWin) : RstItem(tbl, s) # << >>}
<1>1. /\ pc = "recv" /\ UNCHANGED control /\ iframe' = NoFrame
      /\ UNCHANGED <<lastProc, delivered, goneLast, refused, lastRecv>>
  BY DEF RecvSettings, ids, history
<1>2. w \in Nat
  BY WindowAssumption
<1>3. lastRecv' >= lastRecv /\ ~Reads(iframe')
  BY <1>1, RecvIds, ReadsNone
<1>4. CASE w > MaxWindow
  <2>1. UNCHANGED <<tbl, initWin>> /\ Terminate
    BY <1>2, <1>4, MaxWindowAssumption DEF RecvSettings
  <2> QED BY <1>1, <1>3, <2>1, IdleRecv
<1>5. CASE w <= MaxWindow
  <2>1. /\ tbl' = UpdateInitialWindow(tbl, w, initWin) /\ initWin' = w /\ UNCHANGED goaway
        /\ \E order \in Orders(R) : obReg' = obReg \o [i \in DOMAIN order |-> Rst(order[i])]
    <3>1. ~(w > MaxWindow)
      BY <1>2, <1>5, MaxWindowAssumption
    <3> QED BY <3>1, Zenon DEF RecvSettings
  <2>2. PICK order \in Orders(R) : obReg' = obReg \o [i \in DOMAIN order |-> Rst(order[i])]
    BY <2>1
  <2>3. w \in 0 .. MaxWindow /\ initWin \in 0 .. MaxWindow
    BY <1>2, <1>5 DEF IInv, TableInv
  <2>4. /\ EntriesOK(tbl', w) /\ Ages(tbl, tbl') /\ Room(tbl') = Room(tbl)
        /\ \A x \in StreamIds :
             /\ x \in WindowOverflows(tbl, w, initWin) =>
                  /\ tbl.strm[x].st \notin {"ABSENT", "IDLE"}
                  /\ Live(tbl', x) => tbl'.strm[x].st = "CLOSING"
             /\ x \notin WindowOverflows(tbl, w, initWin) => tbl'.strm[x].st = tbl.strm[x].st
    BY <2>1, <2>3, UpdateInitialWindowAges DEF IInv, TableInv, SInv, LifeInv
  <2>5. R \in SUBSET StreamIds
    BY DEF WindowOverflows
  <2>6. ToSet(obReg') = ToSet(obReg) \cup {Rst(x) : x \in R}
    <3> DEFINE rs == [i \in DOMAIN order |-> Rst(order[i])]
    <3>1. order \in Seq(R) /\ ToSet(order) = R
      BY <2>5, OrdersList DEF Lists
    <3>2. DOMAIN order = 1 .. Len(order) /\ Len(order) \in Nat /\ \A i \in DOMAIN order : order[i] \in R
      BY <3>1
    <3>3. rs \in Seq(OutFrame)
      <4>1. \A i \in 1 .. Len(order) : Rst(order[i]) \in OutFrame
        BY <2>5, <3>2 DEF Rst, OutFrame
      <4>2. rs \in [1 .. Len(order) -> OutFrame]
        BY <3>2, <4>1
      <4> QED BY <4>2, <3>2
    <3>4. ToSet(rs) = {Rst(x) : x \in R}
      <4>1. R = {order[i] : i \in DOMAIN order}
        BY <3>1 DEF ToSet
      <4>2. ToSet(rs) = {rs[i] : i \in DOMAIN order}
        BY DEF ToSet
      <4> HIDE DEF R
      <4> QED BY <4>1, <4>2
    <3>5. obReg \in Seq(OutFrame)
      BY DEF IInv, ControlInv
    <3>6. \A r \in Seq(OutFrame) : ToSet(obReg \o r) = ToSet(obReg) \cup ToSet(r)
      <4>1. Goaway(lastProc) \in OutFrame
        BY DEF IInv, ControlInv, Goaway, OutFrame
      <4> QED BY <3>5, <4>1, QueueContents
    <3> HIDE DEF rs, R
    <3>7. ToSet(obReg \o rs) = ToSet(obReg) \cup ToSet(rs)
      BY <3>3, <3>6
    <3> QED BY <3>4, <3>7, <2>2 DEF rs
  <2>7. \A x \in StreamIds : x \in R => x \in WindowOverflows(tbl, w, initWin)
    OBVIOUS
  <2>8. \A x \in StreamIds :
          x \in WindowOverflows(tbl, w, initWin) /\ x \notin R =>
            Live(tbl, x) /\ tbl.strm[x].st = "CLOSING"
    BY DEF RstItem
  <2> HIDE DEF R
  <2>9. \A x \in StreamIds : Rst(x) \in ToSet(obReg') =>
          \/ Rst(x) \in ToSet(obReg)
          \/ /\ ~IsNewPeerStream(x, lastRecv')
             /\ Live(tbl', x) => tbl'.strm[x].st = "CLOSING"
    <3> SUFFICES ASSUME NEW x \in StreamIds, Rst(x) \in ToSet(obReg'), Rst(x) \notin ToSet(obReg)
                 PROVE  /\ ~IsNewPeerStream(x, lastRecv')
                        /\ Live(tbl', x) => tbl'.strm[x].st = "CLOSING"
      OBVIOUS
    <3>1. x \in R
      BY <2>6, FramesDiffer
    <3>2. tbl.strm[x].st \notin {"ABSENT", "IDLE"} /\ (Live(tbl', x) => tbl'.strm[x].st = "CLOSING")
      BY <3>1, <2>4, <2>7
    <3> QED BY <3>2, <1>1 DEF IInv, TableInv, OpenAssertion
  <2>10. \A x \in StreamIds :
          Live(tbl', x) /\ tbl'.strm[x].st = "CLOSING" =>
            Rst(x) \in ToSet(obReg') \/ tbl.strm[x].st = "CLOSING" \/ "TERM_ON_SEND" \in goaway'
    <3> TAKE x \in StreamIds
    <3>1. CASE x \in R
      BY <3>1, <2>6
    <3>2. CASE x \notin R
      BY <3>2, <2>4, <2>8
    <3> QED BY <3>1, <3>2
  <2>11. \A l \in StreamOrNone : Goaway(l) \in ToSet(obReg') => Goaway(l) \in ToSet(obReg)
    BY <2>6, FramesDiffer
  <2>12. Room(tbl') <= Room(tbl)
    <3>1. Room(tbl) \in Nat
      BY ActiveCount DEF IInv, TableInv
    <3> QED BY <3>1, <2>4
  <2>13. ToSet(obReg) \subseteq ToSet(obReg') /\ goaway' = goaway
    BY <2>1, <2>6
  <2>14. pc' = "recv" /\ held'.s = 0
    BY <1>1 DEF SInv, ReadInv, control
  <2> QED BY <1>1, <1>3, <2>1, <2>4, <2>9, <2>10, <2>11, <2>12, <2>13, <2>14, RecvLife
<1>6. MaxWindow \in Nat
  BY MaxWindowAssumption
<1> QED BY <1>2, <1>4, <1>5, <1>6

-----------------------------------------------------------------------------
(* The frames that are given to the application, and those that open streams. *)

\* The application is called: the GOAWAYs that are under way, and the one that was sent,
\* cover the stream, because they cover every live one that may still send.
LEMMA FrameDeliveredLife ==
  ASSUME IInv, IInv', SInv, FrameDelivered PROVE SInv'
<1> DEFINE s == iframe.s
<1>1. /\ iframe.k \in {"HEADERS", "DATA"} /\ Live(tbl, s) /\ tbl.strm[s].st # "CLOSING"
      /\ pc' = "callback" /\ held'.s = s /\ iframe'.k = "none"
      /\ delivered' = delivered \/ delivered' = delivered \cup {s}
      /\ UNCHANGED <<tbl, initWin, lastRecv, lastProc, goaway, obReg, refused, goneLast>>
  BY DEF FrameDelivered, FrameStreamOpen, flow, ids, queues, NoFrame
<1>2. s \in StreamIds /\ ~tbl.strm[s].rd
  BY <1>1 DEF IInv, ControlInv, InFrame, SInv, ReadInv, Reads
<1> HIDE DEF s
<1>3. LifeInv'
  BY <1>1 DEF SInv, LifeInv
<1>4. ReadInv'
  BY <1>1, <1>2 DEF ReadInv, Reads
<1>5. ResetInv'
  BY <1>1 DEF SInv, ResetInv
<1>6. ASSUME NEW l, Covers(l) PROVE Covers(l)'
  BY <1>1, <1>2, <1>6 DEF Covers
<1>7. GoawayInv'
  <2>1. GoawayInv
    BY DEF SInv
  <2> QED BY <2>1, <1>1, <1>6 DEF GoawayInv
<1>8. s <= lastRecv /\ s \notin refused
  <2>1. ~IsNewPeerStream(s, lastRecv) /\ ~IsMine(s)
    BY <1>1, <1>2, LiveIsKnown DEF SInv, LifeInv, EntriesOK, EntryOK, Live
  <2>2. s \notin refused
    BY <1>1, <1>2 DEF SInv, RefusedInv, Live
  <2> QED BY <2>1, <2>2, <1>2, RecvIds DEF IsNewPeerStream
<1>9. RefusedInv'
  <2>1. RefusedInv
    BY DEF SInv
  <2> QED BY <2>1, <1>1, <1>8 DEF RefusedInv
<1> QED BY <1>3, <1>4, <1>5, <1>7, <1>9 DEF SInv

\* The callback returns.
LEMMA CallbackReturnsLife ==
  ASSUME IInv, IInv', SInv, CallbackReturns PROVE SInv'
<1> DEFINE s == held.s
<1>1. /\ pc = "callback" /\ tbl' = EndStream(tbl, s, held.es) /\ held'.s = 0 /\ pc' = "recv"
      /\ UNCHANGED <<initWin, lastRecv, lastProc, goaway, obReg, iframe, goneLast, delivered, refused>>
  BY DEF CallbackReturns, flow, ids, queues, input, history, NoHeld
<1>2. s \in StreamIds /\ held.es \in BOOLEAN /\ s # 0
  BY <1>1, StreamIdsAssumption DEF IInv, ControlInv
<1>3. Live(tbl, s) /\ tbl.strm[s].st # "CLOSING" /\ iframe.k = "none"
  BY <1>2 DEF SInv, ReadInv
<1> HIDE DEF s
<1>4. /\ EntriesOK(tbl', initWin) /\ Ages(tbl, tbl') /\ Room(tbl') = Room(tbl)
      /\ tbl'.strm[s].st = tbl.strm[s].st
      /\ \A x \in StreamIds \ {s} : tbl'.strm[x] = tbl.strm[x]
  BY <1>1, <1>2, <1>3, EndStreamAges DEF IInv, TableInv, SInv, LifeInv
<1>5. Room(tbl') <= Room(tbl) /\ lastRecv' >= lastRecv
  <2>1. Room(tbl) \in Nat
    BY ActiveCount DEF IInv, TableInv
  <2> QED BY <2>1, <1>1, <1>4, RecvIds
<1>6. ~Reads(iframe')
  BY <1>1, <1>3 DEF Reads
<1>7. \A x \in StreamIds :
        Live(tbl', x) /\ tbl'.strm[x].st = "CLOSING" =>
          Rst(x) \in ToSet(obReg') \/ tbl.strm[x].st = "CLOSING" \/ "TERM_ON_SEND" \in goaway'
  BY <1>4
<1> QED BY <1>1, <1>4, <1>5, <1>6, <1>7, RecvLife

\* The table after a request was opened: its stream is live, and the rest has aged.
LEMMA OpenRequestAges ==
  ASSUME IInv, SInv, pc = "recv", NEW s \in StreamIds, NEW es \in BOOLEAN,
         NEW d \in StreamOrNone, OpenRequest(s, es, d)
  PROVE  /\ EntriesOK(tbl', initWin) /\ Room(tbl') \in Nat /\ Room(tbl') <= MaxConcurrent
         /\ IsNewPeerStream(s, lastRecv) /\ "TERM_ON_SEND" \notin goaway
         /\ Live(tbl', s) /\ ~tbl'.strm[s].rd /\ tbl'.strm[s].st # "CLOSING"
         /\ Spares(tbl, tbl')
         /\ \A x \in StreamIds \ {s} :
              /\ Live(tbl', x) =>
                   /\ Live(tbl, x)
                   /\ tbl'.strm[x].st = "CLOSING" <=> tbl.strm[x].st = "CLOSING"
                   /\ tbl.strm[x].rd => tbl'.strm[x].rd
              /\ tbl.strm[x].st \in {"ABSENT", "IDLE"} => tbl'.strm[x].st \in {"ABSENT", "IDLE"}
<1> DEFINE a == AnchorDependency(tbl, d, initWin, s)
           o == OpenIncoming(a, s, initWin)
           max == RetainMax(localMax, pendingMax)
<1>1. /\ IsNewPeerStream(s, lastRecv) /\ AllowIncomingNewStream /\ d # s
      /\ ~IncomingFull(pendingMax) /\ tbl' = AdjustClosed(o, max)
  BY DEF OpenRequest, RequestVerdict
<1>2. initWin \in Windows /\ d \in StreamIds \cup {0} /\ TableOK(tbl) /\ EntriesOK(tbl, initWin)
  BY MaxWindowAssumption DEF IInv, TableInv, Windows, SInv, LifeInv, StreamOrNone
<1>3. /\ TableOK(a) /\ EntriesOK(a, initWin) /\ Ages(tbl, a) /\ Calm(tbl, a) /\ Spares(tbl, a)
      /\ a.nIncoming <= tbl.nIncoming
  BY <1>2, AnchorDependencyOK, AnchorFades, FadesOK DEF Keeps
<1>4. a.strm[s].st \in {"ABSENT", "IDLE"} /\ ~IsMine(s)
  <2>1. tbl.strm[s].st \in {"ABSENT", "IDLE"}
    BY <1>1 DEF IInv, TableInv, OpenAssertion
  <2>2. a.strm[s] = tbl.strm[s]
    BY <1>1, <1>2, AnchorDependencyOthers
  <2> HIDE DEF a
  <2> QED BY <2>1, <2>2, <1>1 DEF IsNewPeerStream
<1> HIDE DEF a
<1>5. /\ TableOK(o) /\ o.nIncoming = a.nIncoming + 1 /\ EntriesOK(o, initWin)
      /\ \A x \in StreamIds \ {s} : o.strm[x] = a.strm[x]
      /\ o.strm[s].st = "OPENING" /\ ~o.strm[s].rd /\ ~o.strm[s].closed
  BY <1>2, <1>3, <1>4, OpenIncomingOK, OpenIncomingLife
<1> HIDE DEF o
<1>6. max \in Nat /\ max = MaxConcurrent /\ o.nIncoming <= max
  <2>1. pendingMax = MaxConcurrent /\ localMax \in {MaxConcurrent, DefaultMax}
    BY DEF IInv, ControlInv
  <2>2. max = MaxConcurrent /\ MaxConcurrent \in Nat
    BY <2>1, MaxConcurrentAssumption DEF RetainMax
  <2>3. a.nIncoming \in Int /\ tbl.nIncoming \in Int
    BY <1>2, <1>3 DEF TableOK, Table
  <2>4. tbl.nIncoming < MaxConcurrent
    BY <1>1, <2>1, <2>2, <2>3 DEF IncomingFull
  <2> HIDE DEF max
  <2> QED BY <1>3, <1>5, <2>2, <2>3, <2>4
<1> HIDE DEF max
<1>7. Fades(o, tbl', initWin) /\ Room(tbl') <= max /\ TableOK(tbl') /\ Spares(o, tbl')
  BY <1>1, <1>5, <1>6, AdjustClosedFades, AdjustClosedOK
<1>8. EntriesOK(tbl', initWin) /\ Ages(o, tbl') /\ Calm(o, tbl')
  BY <1>2, <1>5, <1>7, FadesOK
<1>9. Room(tbl') \in Nat
  BY <1>7, ActiveCount
<1>10. Live(tbl', s) /\ ~tbl'.strm[s].rd /\ tbl'.strm[s].st # "CLOSING"
  BY <1>5, <1>7, <1>8 DEF Calm, Spares, Live
<1>11. ASSUME NEW x \in StreamIds \ {s}
       PROVE  /\ Live(tbl', x) =>
                   /\ Live(tbl, x)
                   /\ tbl'.strm[x].st = "CLOSING" <=> tbl.strm[x].st = "CLOSING"
                   /\ tbl.strm[x].rd => tbl'.strm[x].rd
              /\ tbl.strm[x].st \in {"ABSENT", "IDLE"} => tbl'.strm[x].st \in {"ABSENT", "IDLE"}
  <2>1. o.strm[x] = a.strm[x] /\ (Live(o, x) <=> Live(a, x))
    BY <1>5 DEF Live
  <2>2. /\ Live(tbl', x) => /\ Live(o, x)
                            /\ o.strm[x].st = "CLOSING" => tbl'.strm[x].st = "CLOSING"
                            /\ o.strm[x].rd => tbl'.strm[x].rd
        /\ tbl'.strm[x].st = "CLOSING" => o.strm[x].st = "CLOSING"
        /\ o.strm[x].st \in {"ABSENT", "IDLE"} => tbl'.strm[x].st \in {"ABSENT", "IDLE"}
    BY <1>8 DEF Ages, Calm
  <2>3. /\ Live(a, x) => /\ Live(tbl, x)
                         /\ tbl.strm[x].st = "CLOSING" => a.strm[x].st = "CLOSING"
                         /\ tbl.strm[x].rd => a.strm[x].rd
        /\ a.strm[x].st = "CLOSING" => tbl.strm[x].st = "CLOSING"
        /\ tbl.strm[x].st \in {"ABSENT", "IDLE"} => a.strm[x].st \in {"ABSENT", "IDLE"}
    BY <1>3 DEF Ages, Calm
  <2> QED BY <2>1, <2>2, <2>3
<1>12. Spares(tbl, tbl')
  <2>1. ~Live(tbl, s)
    BY <1>1 DEF IInv, TableInv, OpenAssertion, Live
  <2> QED BY <2>1, <1>3, <1>5, <1>7 DEF Spares, Live
<1> QED BY <1>1, <1>6, <1>7, <1>8, <1>9, <1>10, <1>11, <1>12 DEF AllowIncomingNewStream

\* A request is opened: its identifier is above those of all requests before, and no GOAWAY
\* is under way.
LEMMA OpenRequestLife ==
  ASSUME IInv, IInv', SInv, pc = "recv", NEW s \in StreamIds, NEW es \in BOOLEAN,
         NEW d \in StreamOrNone, OpenRequest(s, es, d), RecordId(s), UNCHANGED control,
         UNCHANGED <<initWin, delivered, goneLast>>
  PROVE  SInv'
<1>1. /\ EntriesOK(tbl', initWin) /\ Room(tbl') \in Nat /\ Room(tbl') <= MaxConcurrent
      /\ IsNewPeerStream(s, lastRecv) /\ "TERM_ON_SEND" \notin goaway
      /\ ~tbl'.strm[s].rd /\ tbl'.strm[s].st # "CLOSING"
      /\ \A x \in StreamIds \ {s} :
           /\ Live(tbl', x) =>
                /\ Live(tbl, x)
                /\ tbl'.strm[x].st = "CLOSING" <=> tbl.strm[x].st = "CLOSING"
                /\ tbl.strm[x].rd => tbl'.strm[x].rd
           /\ tbl.strm[x].st \in {"ABSENT", "IDLE"} => tbl'.strm[x].st \in {"ABSENT", "IDLE"}
  BY OpenRequestAges
<1>2. /\ pc' = "recv" /\ held'.s = 0 /\ iframe' = HeadersFrame(s, es, FALSE)
      /\ lastRecv' = s /\ lastProc' = s
      /\ UNCHANGED <<goaway, obReg, refused>>
  BY <1>1 DEF OpenRequest, RecordId, SInv, ReadInv, control
<1>3. /\ lastRecv < s /\ lastRecv \in Nat /\ lastProc \in Nat /\ lastProc <= lastRecv
      /\ \A x \in StreamIds : x \in Nat \ {0}
  BY <1>1, RecvIds, StreamIdsAssumption DEF IsNewPeerStream, SInv, GoawayInv
<1>4. LifeInv'
  BY <1>1, <1>2 DEF LifeInv
<1>5. ReadInv'
  <2>1. iframe'.s = s
    BY <1>2 DEF HeadersFrame
  <2> QED BY <1>1, <1>2, <2>1 DEF ReadInv
<1>6. ResetInv'
  <2> SUFFICES ASSUME NEW x \in StreamIds
               PROVE  /\ Rst(x) \in ToSet(obReg) =>
                           /\ ~IsNewPeerStream(x, lastRecv')
                           /\ Live(tbl', x) => tbl'.strm[x].st = "CLOSING"
                      /\ Live(tbl', x) /\ tbl'.strm[x].st = "CLOSING" => Rst(x) \in ToSet(obReg)
    BY <1>2 DEF ResetInv
  <2>1. ResetInv
    BY DEF SInv
  <2>2. CASE x = s
    BY <2>1, <2>2, <1>1 DEF ResetInv
  <2>3. CASE x # s
    <3>1. ~IsNewPeerStream(x, lastRecv) => ~IsNewPeerStream(x, lastRecv')
      BY <1>2, <1>3 DEF IsNewPeerStream
    <3> QED BY <2>1, <2>3, <3>1, <1>1 DEF ResetInv
  <2> QED BY <2>2, <2>3
<1>7. GoawayInv'
  <2>1. GoawayInv /\ RefusedInv
    BY DEF SInv
  <2>2. ASSUME NEW x \in delivered PROVE x <= s
    <3>1. x \in Nat \ {0} /\ (x <= lastRecv \/ (x = 1 /\ lastRecv = 0))
      BY <2>1, <1>3 DEF RefusedInv, IInv, ControlInv
    <3> QED BY <3>1, <1>3
  <2>3. ASSUME NEW x \in StreamIds, Live(tbl', x) PROVE x <= s
    <3>1. CASE x = s
      BY <3>1, <1>3
    <3>2. CASE x # s
      <4>1. x <= lastProc \/ x = 1
        BY <3>2, <2>1, <2>3, <1>1 DEF GoawayInv, Covers
      <4> QED BY <4>1, <1>3
    <3> QED BY <3>1, <3>2
  <2>4. Covers(lastProc)'
    BY <2>2, <2>3, <1>2 DEF Covers
  <2>5. lastProc' <= lastRecv'
    BY <1>2, <1>3
  <2>6. \A l \in StreamOrNone : Goaway(l) \notin ToSet(obReg')
    BY <2>1, <1>1, <1>2 DEF GoawayInv
  <2>7. goneLast' = -1 /\ "TERM_SENT" \notin goaway'
    BY <2>1, <1>1, <1>2 DEF GoawayInv
  <2> QED BY <2>4, <2>5, <2>6, <2>7 DEF GoawayInv
<1>8. RefusedInv'
  <2>1. RefusedInv
    BY DEF SInv
  <2>2. ASSUME NEW x \in refused
        PROVE  x \notin delivered /\ x <= s /\ tbl'.strm[x].st \in {"ABSENT", "IDLE"}
    <3>1. /\ x \in Nat /\ x \in StreamIds /\ x <= lastRecv /\ x \notin delivered
          /\ tbl.strm[x].st \in {"ABSENT", "IDLE"}
      BY <2>1, <1>3 DEF RefusedInv, IInv, ControlInv
    <3>2. x # s /\ x <= s
      BY <3>1, <1>3
    <3> QED BY <3>1, <3>2, <1>1
  <2>3. ASSUME NEW x \in delivered PROVE x <= s
    <3>1. x \in Nat \ {0} /\ (x <= lastRecv \/ (x = 1 /\ lastRecv = 0))
      BY <2>1, <1>3 DEF RefusedInv, IInv, ControlInv
    <3> QED BY <3>1, <1>3
  <2> QED BY <2>2, <2>3, <1>2 DEF RefusedInv
<1> QED BY <1>4, <1>5, <1>6, <1>7, <1>8 DEF SInv

\* A request is refused: it was never delivered, not even as that of a failed upgrade,
\* because that one came when no stream was there to fill the limit.
LEMMA RefuseRequestLife ==
  ASSUME IInv, IInv', SInv, pc = "recv", NEW s \in StreamIds, NEW d \in StreamOrNone,
         RefuseRequest(s, d), ~Live(tbl, s), RecordId(s), UNCHANGED control,
         UNCHANGED <<initWin, delivered, goneLast>>
  PROVE  SInv'
<1>1. /\ IsNewPeerStream(s, lastRecv) /\ IncomingFull(pendingMax) /\ iframe' = IgnoredHeaders
      /\ tbl' = tbl /\ obReg' = obReg \o RstItem(tbl, s) /\ refused' = refused \cup {s}
      /\ UNCHANGED <<goaway, lastProc>> /\ lastRecv' = s
      /\ pc' = "recv" /\ held'.s = 0
  BY DEF RefuseRequest, RequestVerdict, AddRst, MarkClosing, RecordId, SInv, ReadInv, control
<1>2. /\ lastRecv < s /\ lastRecv \in Nat /\ s \in Nat \ {0}
      /\ \A x \in StreamIds : x \in Nat \ {0}
  BY <1>1, RecvIds, StreamIdsAssumption DEF IsNewPeerStream
<1>3. /\ ToSet(obReg) \subseteq ToSet(obReg')
      /\ \A l \in StreamOrNone : Goaway(l) \in ToSet(obReg') => Goaway(l) \in ToSet(obReg)
      /\ \A x \in StreamIds : Rst(x) \in ToSet(obReg') => Rst(x) \in ToSet(obReg) \/ x = s
  BY <1>1, ResetQueued DEF IInv
<1>4. LifeInv' /\ ReadInv' /\ ResetInv' /\ GoawayInv'
  <2>1. EntriesOK(tbl', initWin') /\ Ages(tbl, tbl') /\ Room(tbl') <= Room(tbl)
    <3>1. Room(tbl) \in Nat
      BY ActiveCount DEF IInv, TableInv
    <3> QED BY <3>1, <1>1, LifeReflexive DEF SInv, LifeInv
  <2>2. lastRecv' >= lastRecv /\ ~Reads(iframe') /\ ~IsNewPeerStream(s, lastRecv')
    BY <1>1, <1>2, ReadsNone DEF IsNewPeerStream
  <2>3. \A x \in StreamIds : Rst(x) \in ToSet(obReg') =>
          \/ Rst(x) \in ToSet(obReg)
          \/ /\ ~IsNewPeerStream(x, lastRecv')
             /\ Live(tbl', x) => tbl'.strm[x].st = "CLOSING"
    BY <1>1, <1>3, <2>2
  <2> QED BY <1>1, <1>3, <2>1, <2>2, <2>3, RecvLifeButRefused
<1>5. s \notin delivered
  <2> SUFFICES ASSUME s \in delivered PROVE FALSE
    OBVIOUS
  <2>1. lastRecv = 0
    BY <1>2 DEF SInv, RefusedInv
  <2>2. LiveSet(tbl) = {}
    <3> SUFFICES ASSUME NEW x \in StreamIds, Live(tbl, x) PROVE FALSE
      BY DEF LiveSet
    <3>1. ~IsNewPeerStream(x, lastRecv) /\ ~IsMine(x)
      BY LiveIsKnown DEF SInv, LifeInv, EntriesOK, EntryOK, Live
    <3> QED BY <3>1, <2>1, <1>2 DEF IsNewPeerStream
  <2>3. tbl.nIncoming = 0
    BY <2>2, FS_EmptySet DEF IInv, TableInv, TableOK, TableConsistent
  <2>4. pendingMax = MaxConcurrent
    BY DEF IInv, ControlInv
  <2> QED BY <2>3, <2>4, <1>1, MaxConcurrentAssumption DEF IncomingFull
<1>6. RefusedInv'
  <2>1. RefusedInv /\ tbl.strm[s].st \in {"ABSENT", "IDLE"}
    BY <1>1 DEF SInv, IInv, TableInv, OpenAssertion
  <2>2. ASSUME NEW x \in refused \cup {s}
        PROVE  x \notin delivered /\ x <= s /\ tbl.strm[x].st \in {"ABSENT", "IDLE"}
    <3>1. CASE x = s
      BY <3>1, <1>2, <1>5, <2>1
    <3>2. CASE x \in refused
      <4>1. x \in Nat /\ x <= lastRecv
        BY <3>2, <2>1, <1>2 DEF RefusedInv, IInv, ControlInv
      <4> QED BY <3>2, <4>1, <2>1, <1>2 DEF RefusedInv
    <3> QED BY <3>1, <3>2
  <2>3. ASSUME NEW x \in delivered PROVE x <= s
    <3>1. x \in Nat \ {0} /\ (x <= lastRecv \/ (x = 1 /\ lastRecv = 0))
      BY <2>1, <1>2 DEF RefusedInv, IInv, ControlInv
    <3> QED BY <3>1, <1>2
  <2> QED BY <2>2, <2>3, <1>1 DEF RefusedInv
<1> QED BY <1>4, <1>6 DEF SInv

\* A request, whatever becomes of it.
LEMMA RecvRequestLife ==
  ASSUME IInv, IInv', SInv, NEW s \in StreamIds, NEW es \in BOOLEAN, NEW d \in StreamOrNone,
         RecvRequest(s, es, d)
  PROVE  SInv'
<1>1. /\ pc = "recv" /\ ~Live(tbl, s) /\ RecordId(s) /\ UNCHANGED control
      /\ UNCHANGED <<initWin, delivered, goneLast>>
  BY DEF RecvRequest, Begins, flow
<1>2. CASE OpenRequest(s, es, d)
  BY <1>1, <1>2, OpenRequestLife
<1>3. CASE RefuseRequest(s, d)
  BY <1>1, <1>3, RefuseRequestLife
<1>4. CASE BadRequest(s, d) \/ IgnoreRequest(s, d)
  <2>1. lastRecv' >= lastRecv
    BY <1>1, RecvIds DEF RecordId, IsNewPeerStream
  <2>2. /\ ~Reads(iframe') /\ UNCHANGED <<tbl, lastProc, refused>>
        /\ UNCHANGED <<goaway, obReg>> \/ Terminate
    BY <1>4, ReadsNone DEF BadRequest, IgnoreRequest
  <2> QED BY <1>1, <2>1, <2>2, IdleRecv
<1> QED BY <1>2, <1>3, <1>4 DEF RecvRequest

-----------------------------------------------------------------------------
(* The connection preface, and the ends of a buffer. *)

\* nghttp2_session_server_new establishes the invariant.
LEMMA InitSInv ==
  ASSUME Init PROVE SInv
<1>1. /\ tbl = EmptyTable /\ initWin = InitialWindow /\ lastRecv = 0 /\ lastProc = 0
      /\ goaway = {} /\ obReg = << >> /\ iframe.k = "first" /\ pc = "start" /\ held.s = 0
      /\ delivered = {} /\ refused = {} /\ goneLast = -1
  BY DEF Init, FirstSettings, NoFrame, NoHeld
<1>2. /\ \A x \in StreamIds : tbl.strm[x] = NoStream /\ ~Live(tbl, x)
      /\ tbl.closedQ = << >> /\ tbl.nIncoming = 0
  BY <1>1, NoStreamType DEF EmptyTable, Live
<1>3. LifeInv
  <2>1. 0 \in Windows
    BY MaxWindowAssumption DEF Windows
  <2>2. EntriesOK(tbl, initWin)
    BY <1>2, <2>1, BlankEntries DEF EntriesOK, EntryOK
  <2>3. Room(tbl) = 0
    BY <1>2 DEF Room
  <2> QED BY <1>1, <2>2, <2>3, MaxConcurrentAssumption DEF LifeInv
<1>4. ToSet(obReg) = {}
  BY <1>1 DEF ToSet
<1>5. ReadInv /\ ResetInv
  BY <1>1, <1>2, <1>4 DEF ReadInv, ResetInv, Reads
<1>6. GoawayInv /\ RefusedInv
  BY <1>1, <1>2, <1>4 DEF GoawayInv, RefusedInv, Covers
<1> QED BY <1>3, <1>5, <1>6 DEF SInv

\* nghttp2_session_upgrade2 opens stream 1, half closed.
LEMMA UpgradeLife ==
  ASSUME IInv, IInv', SInv, NEW w \in WindowSizes, Upgrade(w) PROVE SInv'
<1> DEFINE o == OpenIncoming(tbl, 1, initWin')
<1>1. /\ tbl = EmptyTable /\ lastRecv = 0 /\ 1 \in StreamIds /\ TableOK(tbl)
      /\ \A x \in StreamIds : tbl.strm[x] = NoStream /\ ~Live(tbl, x)
      /\ Room(tbl) = 0
  BY EmptyTableOK, NoStreamType DEF IInv, ControlInv, TableInv, Upgrade, EmptyTable, Room, Live
<1>2. /\ pc = "start" /\ tbl' = ShutRd(o, 1) /\ lastRecv' = 1 /\ lastProc' = 1
      /\ delivered' = {1} /\ delivered = {}
      /\ UNCHANGED <<iframe, pc, held, refused, goneLast>>
      /\ UNCHANGED <<goaway, obReg>> \/ Terminate
  BY DEF Upgrade, input, control
<1>3. held.s = 0 /\ initWin' \in Windows /\ lastProc = 0
  BY <1>1, <1>2, StreamIdsAssumption, MaxWindowAssumption
     DEF SInv, ReadInv, GoawayInv, IInv, ControlInv, TableInv, Windows, StreamOrNone
<1>4. /\ EntriesOK(o, initWin') /\ Room(o) = 1 /\ TableOK(o)
      /\ \A x \in StreamIds \ {1} : o.strm[x] = NoStream
      /\ o.strm[1].st = "OPENING" /\ ~o.strm[1].closed /\ ~o.strm[1].wr /\ o.strm[1].item = "none"
  <2>1. EntriesOK(tbl, initWin') /\ tbl.strm[1].st \in {"ABSENT", "IDLE"} /\ ~IsMine(1)
    BY <1>1, BlankEntries, <1>3 DEF EntriesOK, EntryOK, IsMine
  <2>2. TableOK(o)
    BY <1>1, <1>3, <2>1, OpenIncomingOK
  <2>3. /\ EntriesOK(o, initWin') /\ Room(o) = Room(tbl) + 1
        /\ \A x \in StreamIds \ {1} : o.strm[x] = tbl.strm[x]
        /\ o.strm[1].st = "OPENING" /\ ~o.strm[1].closed /\ ~o.strm[1].wr /\ o.strm[1].item = "none"
    BY <1>1, <1>3, <2>1, OpenIncomingLife
  <2> QED BY <1>1, <2>2, <2>3
<1> HIDE DEF o
<1>5. /\ \A x \in StreamIds \ {1} : tbl'.strm[x] = NoStream
      /\ tbl'.strm[1].st = "OPENING" /\ ~tbl'.strm[1].closed /\ ~tbl'.strm[1].wr
      /\ tbl'.strm[1].rd /\ tbl'.strm[1].item = "none"
      /\ Room(tbl') = 1
  <2>1. /\ o.strm \in [StreamIds -> Stream]
        /\ tbl' = [o EXCEPT !.strm[1] = [o.strm[1] EXCEPT !.rd = TRUE]]
    BY <1>2, <1>4 DEF ShutRd, TableOK, Table
  <2> DEFINE r == [o.strm[1] EXCEPT !.rd = TRUE]
  <2>2. Point(o, tbl', 1, r)
    BY <1>1, <1>4, <2>1, PointEffect
  <2>3. /\ r.st = o.strm[1].st /\ r.closed = o.strm[1].closed /\ r.wr = o.strm[1].wr
        /\ r.item = o.strm[1].item /\ r.rd
    BY <2>1, <1>1 DEF Stream
  <2> HIDE DEF r
  <2> QED BY <2>2, <2>3, <1>4 DEF Point
<1>6. LifeInv'
  <2>1. EntriesOK(tbl', initWin')
    <3> SUFFICES ASSUME NEW x \in StreamIds PROVE EntryOK(x, tbl'.strm[x], initWin')
      BY DEF EntriesOK
    <3>1. CASE x = 1
      BY <3>1, <1>5 DEF EntryOK, IsMine
    <3>2. CASE x # 1
      BY <3>2, <1>3, <1>5, BlankEntries DEF EntryOK
    <3> QED BY <3>1, <3>2
  <2> QED BY <2>1, <1>2, <1>5, MaxConcurrentAssumption DEF LifeInv
<1>7. ReadInv'
  <2>1. iframe.k = "first"
    BY <1>2 DEF SInv, ReadInv
  <2> QED BY <2>1, <1>2, <1>3 DEF ReadInv, Reads
<1>8. Live(tbl', 1) /\ \A x \in StreamIds \ {1} : ~Live(tbl', x)
  BY <1>5, <1>1, NoStreamType DEF Live
<1>9. /\ goaway \subseteq goaway' /\ ("TERM_SENT" \in goaway' => "TERM_SENT" \in goaway)
      /\ ToSet(obReg) \subseteq ToSet(obReg')
      /\ \A l \in StreamOrNone : Goaway(l) \in ToSet(obReg') =>
           Goaway(l) \in ToSet(obReg) \/ (l = lastProc /\ "TERM_ON_SEND" \in goaway')
      /\ \A s \in StreamIds : Rst(s) \in ToSet(obReg') => Rst(s) \in ToSet(obReg)
  BY <1>2, QueueKept DEF IInv
<1>10. \A x \in StreamIds : x \in Nat \ {0}
  BY StreamIdsAssumption
<1>11. ResetInv'
  <2> SUFFICES ASSUME NEW s \in StreamIds
               PROVE  /\ Rst(s) \in ToSet(obReg') =>
                           /\ ~IsNewPeerStream(s, lastRecv')
                           /\ Live(tbl', s) => tbl'.strm[s].st = "CLOSING"
                      /\ ~(Live(tbl', s) /\ tbl'.strm[s].st = "CLOSING")
    BY DEF ResetInv
  <2>1. ASSUME Rst(s) \in ToSet(obReg')
        PROVE  ~IsNewPeerStream(s, lastRecv') /\ s # 1
    <3>1. ~IsNewPeerStream(s, lastRecv)
      BY <2>1, <1>9 DEF SInv, ResetInv
    <3> QED BY <3>1, <1>1, <1>2, <1>10 DEF IsNewPeerStream, IsMine
  <2> QED BY <2>1, <1>5, <1>8
<1>12. GoawayInv'
  <2>1. ASSUME NEW l \in StreamOrNone PROVE Covers(l)'
    <3>1. l = 0 \/ 1 <= l
      BY <1>10 DEF StreamOrNone
    <3> QED BY <3>1, <1>2, <1>5, <1>8 DEF Covers
  <2>2. goneLast' # -1 => goneLast' \in StreamOrNone /\ "TERM_ON_SEND" \in goaway'
    BY <1>2, <1>9 DEF SInv, GoawayInv, IInv, ControlInv
  <2>3. \A l \in StreamOrNone : Goaway(l) \in ToSet(obReg') => "TERM_ON_SEND" \in goaway'
    BY <1>9 DEF SInv, GoawayInv
  <2>4. "TERM_SENT" \in goaway' => "TERM_ON_SEND" \in goaway'
    BY <1>9 DEF SInv, GoawayInv
  <2>5. lastProc' \in StreamOrNone /\ lastProc' <= lastRecv'
    BY <1>1, <1>2 DEF StreamOrNone
  <2> QED BY <2>1, <2>2, <2>3, <2>4, <2>5 DEF GoawayInv
<1>13. RefusedInv'
  <2>1. refused' = {}
    <3>1. \A s \in refused : s \in Nat \ {0} /\ s <= lastRecv
      BY <1>10 DEF SInv, RefusedInv, IInv, ControlInv
    <3>2. \A s \in refused : FALSE
      BY <3>1, <1>1
    <3> QED BY <3>2, <1>2
  <2> QED BY <2>1, <1>2 DEF RefusedInv
<1> QED BY <1>6, <1>7, <1>11, <1>12, <1>13 DEF SInv

\* A rejected upgrade: the application gets request 1, whose stream was not opened; every
\* GOAWAY of this session names stream 0 or one the peer opens later.
LEMMA UpgradeRejectedLife ==
  ASSUME IInv, IInv', SInv, UpgradeRejected PROVE SInv'
<1>1. /\ delivered = {} /\ delivered' = {1} /\ lastRecv = 0 /\ pc = "start"
      /\ UNCHANGED <<tbl, initWin, lastRecv, lastProc, goaway, localMax, pendingMax, obReg,
                     iframe, pc, ret, held, refused, goneLast>>
  BY DEF UpgradeRejected, flow, ids, limits, queues, input, control, IInv, ControlInv
<1>2. \A x \in StreamIds : x \in Nat \ {0}
  BY StreamIdsAssumption
<1>3. LifeInv' /\ ReadInv' /\ ResetInv'
  BY <1>1 DEF SInv, LifeInv, ReadInv, ResetInv
<1>4. ASSUME NEW l \in StreamOrNone, Covers(l) PROVE Covers(l)'
  <2>1. l = 0 \/ 1 <= l
    BY <1>2 DEF StreamOrNone
  <2> QED BY <2>1, <1>1, <1>4 DEF Covers
<1>5. GoawayInv'
  <2>1. lastProc \in StreamOrNone /\ (goneLast # -1 => goneLast \in StreamOrNone) /\ GoawayInv
    BY DEF IInv, ControlInv, SInv
  <2> QED BY <2>1, <1>1, <1>4 DEF GoawayInv
<1>6. RefusedInv'
  <2>1. \A s \in refused : s \in Nat \ {0} /\ s <= lastRecv
    BY <1>2 DEF SInv, RefusedInv, IInv, ControlInv
  <2>2. \A s \in refused : FALSE
    BY <2>1, <1>1
  <2> QED BY <2>2, <1>1 DEF RefusedInv
<1> QED BY <1>3, <1>5, <1>6 DEF SInv

\* A step that reads nothing, and resets no stream.
LEMMA QuietLife ==
  ASSUME IInv, IInv', SInv, UNCHANGED <<iframe, held, initWin>>, pc' # "start",
         EntriesOK(tbl', initWin), Room(tbl') = Room(tbl), Ages(tbl, tbl'), Calm(tbl, tbl'),
         pc' \in {"idle", "send"} => Len(tbl'.idleQ) <= IdleMax(localMax, pendingMax)',
         held.s # 0 => /\ Live(tbl', held.s)
                       /\ pc' = "callback" \/ (pc' = "send" /\ ret' = "callback"),
         UNCHANGED <<lastRecv, lastProc, delivered, refused>>,
         goaway \subseteq goaway', "TERM_SENT" \in goaway' => "TERM_ON_SEND" \in goaway',
         goneLast' = goneLast
           \/ (goneLast' \in StreamOrNone /\ Goaway(goneLast') \in ToSet(obReg)),
         \A l \in StreamOrNone : Goaway(l) \in ToSet(obReg') => Goaway(l) \in ToSet(obReg),
         \A s \in StreamIds : Rst(s) \in ToSet(obReg') => Rst(s) \in ToSet(obReg),
         \A s \in StreamIds :
           Live(tbl', s) /\ Rst(s) \in ToSet(obReg) =>
             Rst(s) \in ToSet(obReg') \/ "TERM_ON_SEND" \in goaway'
  PROVE  SInv'
<1>1. lastRecv' \in Nat /\ lastRecv' >= lastRecv
  BY RecvIds
<1>2. LifeInv'
  BY DEF SInv, LifeInv
<1>3. ReadInv'
  <2>1. Reads(iframe) => iframe.s \in StreamIds
    BY DEF IInv, ControlInv, InFrame, Reads
  <2>2. Reads(iframe') => ~tbl'.strm[iframe'.s].rd
    BY <2>1 DEF SInv, ReadInv, Calm
  <2>3. ASSUME held.s # 0
        PROVE  /\ Live(tbl', held.s) /\ tbl'.strm[held.s].st # "CLOSING" /\ ~tbl'.strm[held.s].rd
               /\ iframe.k = "none"
               /\ pc' = "callback" \/ (pc' = "send" /\ ret' = "callback")
    <3>1. held.s \in StreamIds
      BY <2>3 DEF IInv, ControlInv, StreamOrNone
    <3> QED BY <2>3, <3>1 DEF SInv, ReadInv, Calm
  <2> QED BY <2>2, <2>3 DEF ReadInv
<1>4. ResetInv'
  <2>1. \A s \in StreamIds :
          Live(tbl', s) /\ tbl'.strm[s].st = "CLOSING" /\ "TERM_ON_SEND" \notin goaway' =>
            \/ Rst(s) \in ToSet(obReg')
            \/ tbl.strm[s].st = "CLOSING" /\ Rst(s) \notin ToSet(obReg)
    BY DEF Calm
  <2> QED BY <1>1, <2>1, ResetKept DEF SInv
<1>5. GoawayInv'
  <2>1. ASSUME NEW l, Covers(l) PROVE Covers(l)'
    BY <2>1 DEF Covers, Ages
  <2>2. GoawayInv
    BY DEF SInv
  <2>3. (goneLast # -1 => Covers(goneLast) /\ "TERM_ON_SEND" \in goaway)'
    <3>1. (goneLast' # -1 => Covers(goneLast') /\ "TERM_ON_SEND" \in goaway')
      BY <2>2 DEF GoawayInv
    <3> QED BY <3>1 DEF Covers, Ages
  <2>4. \A l \in StreamOrNone : Goaway(l) \in ToSet(obReg') =>
          Covers(l)' /\ "TERM_ON_SEND" \in goaway'
    BY <2>1, <2>2 DEF GoawayInv
  <2>5. (lastProc <= lastRecv /\ Covers(lastProc))'
    BY <2>2 DEF GoawayInv, Covers, Ages
  <2> QED BY <2>3, <2>4, <2>5 DEF GoawayInv
<1>6. RefusedInv'
  BY <1>1, RefusedKept DEF SInv
<1> QED BY <1>2, <1>3, <1>4, <1>5, <1>6 DEF SInv

\* Trimming the idle list.
LEMMA TrimAges ==
  ASSUME NEW t, TableOK(t), NEW w \in Windows, EntriesOK(t, w), NEW cap \in Nat
  PROVE  LET u == AdjustIdle(t, cap)
         IN  /\ TableOK(u) /\ EntriesOK(u, w) /\ Ages(t, u) /\ Calm(t, u) /\ Waits(t, u)
             /\ Spares(t, u) /\ Room(u) = Room(t) /\ Len(u.idleQ) <= cap
BY AdjustIdleOK, AdjustIdleFades, FadesOK

\* nghttp2_session_send is entered.
LEMMA EnterSendLife ==
  ASSUME IInv, IInv', SInv, NEW r, NEW cap \in Nat, EnterSend(tbl, r, cap),
         cap = IdleMax(localMax, pendingMax)',
         held.s # 0 => r = "callback",
         obReg' = obReg \/ (\E s \in StreamIds : obReg' = Append(obReg, Headers(s))),
         UNCHANGED <<iframe, held, initWin, lastRecv, lastProc, goaway, delivered, refused, goneLast>>
  PROVE  SInv'
<1>1. pc' = "send" /\ ret' = r /\ tbl' = AdjustIdle(tbl, cap)
  BY DEF EnterSend
<1>2. initWin \in Windows /\ TableOK(tbl) /\ EntriesOK(tbl, initWin)
  BY MaxWindowAssumption DEF IInv, TableInv, Windows, SInv, LifeInv
<1>3. /\ EntriesOK(tbl', initWin) /\ Ages(tbl, tbl') /\ Calm(tbl, tbl') /\ Spares(tbl, tbl')
      /\ Room(tbl') = Room(tbl) /\ Len(tbl'.idleQ) <= cap
  BY <1>1, <1>2, TrimAges
<1>4. held.s # 0 => Live(tbl', held.s)
  BY <1>3 DEF SInv, ReadInv, Spares, IInv, ControlInv, StreamOrNone
<1>5. ToSet(obReg') = ToSet(obReg) \/ \E s \in StreamIds : ToSet(obReg') = ToSet(obReg) \cup {Headers(s)}
  <2>1. ASSUME NEW s \in StreamIds
        PROVE  ToSet(Append(obReg, Headers(s))) = ToSet(obReg) \cup {Headers(s)}
    <3>1. obReg \in Seq(OutFrame) /\ Headers(s) \in OutFrame
      BY DEF IInv, ControlInv, Headers, OutFrame
    <3> QED BY <3>1, QueueContents
  <2> QED BY <2>1
<1>6. /\ \A l \in StreamOrNone : Goaway(l) \in ToSet(obReg') => Goaway(l) \in ToSet(obReg)
      /\ \A s \in StreamIds : Rst(s) \in ToSet(obReg') => Rst(s) \in ToSet(obReg)
      /\ ToSet(obReg) \subseteq ToSet(obReg')
  BY <1>5, FramesDiffer
<1>7. "TERM_SENT" \in goaway' => "TERM_ON_SEND" \in goaway'
  BY DEF SInv, GoawayInv
<1> QED BY <1>1, <1>3, <1>4, <1>6, <1>7, QuietLife

\* The server announces its limit and sends.
LEMMA ServerPrefaceLife ==
  ASSUME IInv, IInv', SInv, ServerPreface PROVE SInv'
<1>1. /\ EnterSend(tbl, "idle", IdleMax(localMax, MaxConcurrent)) /\ pc = "start"
      /\ pendingMax' = MaxConcurrent /\ localMax' = localMax
      /\ UNCHANGED <<obReg, iframe, held, initWin, lastRecv, lastProc, goaway, delivered,
                     refused, goneLast>>
  BY DEF ServerPreface, flow, ids, input, history
<1>2. held.s = 0 /\ IdleMax(localMax, MaxConcurrent) \in Nat
  BY <1>1, LimitTypes DEF IInv, SInv, ReadInv
<1> QED BY <1>1, <1>2, EnterSendLife

\* A buffer is used up.
LEMMA BufferEndLife ==
  ASSUME IInv, IInv', SInv, BufferEnd PROVE SInv'
<1>1. /\ EnterSend(tbl, "idle", IdleMax(localMax, pendingMax)) /\ pc = "recv"
      /\ UNCHANGED <<obReg, iframe, held, initWin, lastRecv, lastProc, goaway, delivered,
                     refused, goneLast, localMax, pendingMax>>
  BY DEF BufferEnd, flow, ids, limits, queues, input, history
<1>2. held.s = 0 /\ IdleMax(localMax, pendingMax) \in Nat
  BY <1>1, LimitTypes DEF IInv, SInv, ReadInv
<1> QED BY <1>1, <1>2, EnterSendLife

\* The application answers.
LEMMA SubmitResponseLife ==
  ASSUME IInv, IInv', SInv, NEW s \in StreamIds, NEW n \in BodySizes, SubmitResponse(s, n)
  PROVE  SInv'
<1>1. /\ EnterSend(tbl, pc, IdleMax(localMax, pendingMax)) /\ pc \in {"idle", "callback"}
      /\ obReg' = Append(obReg, Headers(s))
      /\ UNCHANGED <<iframe, held, initWin, lastRecv, lastProc, goaway, delivered,
                     refused, goneLast, localMax, pendingMax>>
  BY DEF SubmitResponse, flow, ids, limits, input, history
<1>2. (held.s # 0 => pc = "callback") /\ IdleMax(localMax, pendingMax) \in Nat
  BY <1>1, LimitTypes DEF IInv, SInv, ReadInv
<1> QED BY <1>1, <1>2, EnterSendLife

\* nghttp2_session_mem_recv is entered.
LEMMA StartRecvLife ==
  ASSUME IInv, IInv', SInv, StartRecv PROVE SInv'
<1> DEFINE cap == IdleMax(localMax, pendingMax)
           t == AdjustIdle(tbl, cap)
<1>1. /\ pc = "idle"
      /\ \/ pc' = "recv" /\ tbl' = t
         \/ pc' = "send" /\ tbl' = AdjustIdle(t, cap)
      /\ UNCHANGED <<obReg, iframe, held, initWin, lastRecv, lastProc, goaway, delivered,
                     refused, goneLast, localMax, pendingMax>>
  BY DEF StartRecv, EnterSend, flow, ids, limits, queues, input, history
<1>2. cap \in Nat /\ cap = IdleMax(localMax, pendingMax)'
  BY <1>1, LimitTypes DEF IInv
<1>3. initWin \in Windows /\ TableOK(tbl) /\ EntriesOK(tbl, initWin)
  BY MaxWindowAssumption DEF IInv, TableInv, Windows, SInv, LifeInv
<1> HIDE DEF cap
<1>4. /\ TableOK(t) /\ EntriesOK(t, initWin) /\ Ages(tbl, t) /\ Calm(tbl, t)
      /\ Room(t) = Room(tbl) /\ Len(t.idleQ) <= cap
  BY <1>2, <1>3, TrimAges
<1> HIDE DEF t
<1>5. /\ EntriesOK(tbl', initWin) /\ Ages(tbl, tbl') /\ Calm(tbl, tbl')
      /\ Room(tbl') = Room(tbl) /\ Len(tbl'.idleQ) <= cap
  <2>1. CASE tbl' = t
    BY <2>1, <1>4
  <2>2. CASE tbl' = AdjustIdle(t, cap)
    <3>1. /\ EntriesOK(tbl', initWin) /\ Ages(t, tbl') /\ Calm(t, tbl')
          /\ Room(tbl') = Room(t) /\ Len(tbl'.idleQ) <= cap
      BY <2>2, <1>2, <1>3, <1>4, TrimAges
    <3> QED BY <3>1, <1>4, LifeTransitive
  <2> QED BY <2>1, <2>2, <1>1
<1>6. held.s = 0 /\ ("TERM_SENT" \in goaway' => "TERM_ON_SEND" \in goaway')
  BY <1>1 DEF SInv, ReadInv, GoawayInv
<1> QED BY <1>1, <1>2, <1>5, <1>6, QuietLife

-----------------------------------------------------------------------------
(* Sending. *)

\* A step of nghttp2_session_send.
LEMMA SendLife ==
  ASSUME IInv, IInv', SInv, Sending, pc' = pc \/ pc' = ret, initWin' = initWin,
         EntriesOK(tbl', initWin), Room(tbl') = Room(tbl), Ages(tbl, tbl'), Calm(tbl, tbl'),
         tbl'.idleQ = tbl.idleQ,
         held.s # 0 => Live(tbl', held.s),
         goaway \subseteq goaway', "TERM_SENT" \in goaway' => "TERM_ON_SEND" \in goaway',
         goneLast' = goneLast
           \/ (goneLast' \in StreamOrNone /\ Goaway(goneLast') \in ToSet(obReg)),
         ToSet(obReg') \subseteq ToSet(obReg),
         \A s \in StreamIds :
           Live(tbl', s) /\ Rst(s) \in ToSet(obReg) =>
             Rst(s) \in ToSet(obReg') \/ "TERM_ON_SEND" \in goaway'
  PROVE  SInv'
<1>1. /\ pc = "send" /\ ret' = ret
      /\ UNCHANGED <<iframe, held, lastRecv, lastProc, delivered, refused, localMax, pendingMax>>
  BY DEF Sending, ids, limits, input
<1>2. pc' # "start"
  BY <1>1 DEF IInv, ControlInv
<1>3. Len(tbl'.idleQ) <= IdleMax(localMax, pendingMax)'
  BY <1>1 DEF SInv, LifeInv
<1>4. held.s # 0 => pc' = "callback" \/ (pc' = "send" /\ ret' = "callback")
  BY <1>1 DEF SInv, ReadInv
<1> QED BY <1>1, <1>2, <1>3, <1>4, QuietLife

\* The table is left alone besides.
LEMMA SendIdle ==
  ASSUME IInv, IInv', SInv, Sending, pc' = pc \/ pc' = ret,
         UNCHANGED <<initWin, tbl, goaway, goneLast>>, ToSet(obReg') \subseteq ToSet(obReg),
         \A s \in StreamIds :
           Live(tbl, s) /\ Rst(s) \in ToSet(obReg) =>
             Rst(s) \in ToSet(obReg') \/ "TERM_ON_SEND" \in goaway'
  PROVE  SInv'
<1>1. EntriesOK(tbl', initWin) /\ Ages(tbl, tbl') /\ Calm(tbl, tbl')
  BY LifeReflexive DEF SInv, LifeInv
<1>2. held.s # 0 => Live(tbl', held.s)
  BY DEF SInv, ReadInv
<1>3. "TERM_SENT" \in goaway' => "TERM_ON_SEND" \in goaway'
  BY DEF SInv, GoawayInv
<1> QED BY <1>1, <1>2, <1>3, SendLife

\* The frame that is sent next was queued.
LEMMA PopsContents ==
  ASSUME IInv, NEW kind, Pops(kind)
  PROVE  /\ ToSet(obReg) = {Head(obReg)} \cup ToSet(obReg')
         /\ Head(obReg) \in OutFrame /\ Head(obReg).f = kind
<1>1. obReg \in Seq(OutFrame) /\ Head(obReg) \in OutFrame
  BY PopsOK DEF IInv, ControlInv
<1>2. obReg # << >> /\ obReg' = Tail(obReg) /\ Head(obReg).f = kind
  BY DEF Pops
<1>3. obReg # << >> => ToSet(obReg) = {Head(obReg)} \cup ToSet(Tail(obReg))
  BY <1>1, QueueContents
<1> QED BY <1>1, <1>2, <1>3

\* A frame of ob_urgent is sent, or nothing more.
LEMMA SendUrgentDoneLife ==
  ASSUME IInv, IInv', SInv, SendUrgent \/ SendDone PROVE SInv'
<1>1. /\ Sending
      /\ pc' = pc \/ pc' = ret
      /\ UNCHANGED <<initWin, tbl, goaway, goneLast, obReg>>
  BY DEF SendUrgent, SendDone, flow, queues
<1>2. ToSet(obReg') = ToSet(obReg)
  BY <1>1
<1> QED BY <1>1, <1>2, SendIdle

\* Response HEADERS.
LEMMA SendHeadersLife ==
  ASSUME IInv, IInv', SInv, SendHeaders PROVE SInv'
<1> DEFINE s == Head(obReg).s
<1>1. /\ Sending /\ pc' = pc /\ UNCHANGED <<initWin, goaway, goneLast>>
  BY DEF SendHeaders, Pops, flow
<1>2. \/ tbl' = tbl
      \/ /\ Live(tbl, s) /\ tbl.strm[s].st # "CLOSING"
         /\ tbl' = Attach(tbl, s)
  BY DEF SendHeaders, MaySendHeaders, Attach
<1>3. /\ ToSet(obReg) = {Head(obReg)} \cup ToSet(obReg')
      /\ Head(obReg) \in OutFrame /\ Head(obReg).f = "HEADERS"
  BY PopsContents DEF SendHeaders
<1>4. s \in StreamIds
  BY <1>3 DEF OutFrame
<1>5. \A x \in StreamIds : Rst(x) \in ToSet(obReg) => Rst(x) \in ToSet(obReg')
  BY <1>3 DEF Rst
<1>6. ToSet(obReg') \subseteq ToSet(obReg)
  BY <1>3
<1> HIDE DEF s
<1>7. CASE tbl' = tbl
  BY <1>1, <1>5, <1>6, <1>7, SendIdle
<1>8. CASE /\ Live(tbl, s) /\ tbl.strm[s].st # "CLOSING"
           /\ tbl' = Attach(tbl, s)
  <2>1. TableOK(tbl) /\ EntriesOK(tbl, initWin)
    BY DEF IInv, TableInv, SInv, LifeInv
  <2>2. /\ EntriesOK(tbl', initWin) /\ Ages(tbl, tbl') /\ Calm(tbl, tbl') /\ Spares(tbl, tbl')
        /\ Room(tbl') = Room(tbl) /\ tbl'.idleQ = tbl.idleQ
    BY <1>4, <1>8, <2>1, AttachAges
  <2>3. held.s # 0 => Live(tbl', held.s)
    BY <2>2 DEF SInv, ReadInv, Spares, IInv, ControlInv, StreamOrNone
  <2>4. "TERM_SENT" \in goaway' => "TERM_ON_SEND" \in goaway'
    BY <1>1 DEF SInv, GoawayInv
  <2> QED BY <1>1, <1>5, <1>6, <2>2, <2>3, <2>4, SendLife
<1> QED BY <1>2, <1>7, <1>8

\* RST_STREAM closes its stream; it is dropped only when the session is being terminated,
\* because a session that has streams still wants to read.
LEMMA SendRstLife ==
  ASSUME IInv, IInv', SInv, SendRst PROVE SInv'
<1> DEFINE s == Head(obReg).s
<1>1. /\ Sending /\ pc' = pc /\ UNCHANGED <<initWin, goaway, goneLast>>
  BY DEF SendRst, Pops, flow
<1>2. /\ ToSet(obReg) = {Head(obReg)} \cup ToSet(obReg')
      /\ Head(obReg) \in OutFrame /\ Head(obReg).f = "RST_STREAM"
  BY PopsContents DEF SendRst
<1>3. s \in StreamIds /\ Head(obReg) = Rst(s)
  BY <1>2 DEF OutFrame, Rst
<1>4. \/ IsClosing(tbl, goaway, obUrgent, Tail(obReg)) /\ tbl' = tbl
      \/ tbl' = CloseStream(tbl, s)
  BY DEF SendRst
<1> HIDE DEF s
<1>5. Rst(s) \in ToSet(obReg) /\ ToSet(obReg') \subseteq ToSet(obReg)
  BY <1>2, <1>3
<1>6. \A x \in StreamIds : Rst(x) \in ToSet(obReg) => Rst(x) \in ToSet(obReg') \/ x = s
  BY <1>2, <1>3, FramesDiffer
<1>7. CASE IsClosing(tbl, goaway, obUrgent, Tail(obReg)) /\ tbl' = tbl
  <2>1. Live(tbl, s) => "TERM_ON_SEND" \in goaway
    <3>1. Live(tbl, s) => NumActive(tbl) > 0
      BY <1>3, LiveCounts DEF IInv, TableInv
    <3>2. "TERM_SENT" \in goaway => "TERM_ON_SEND" \in goaway
      BY DEF SInv, GoawayInv
    <3> QED BY <1>7, <3>1, <3>2 DEF IsClosing, WantRead
  <2> QED BY <1>1, <1>5, <1>6, <1>7, <2>1, SendIdle
<1>8. CASE tbl' = CloseStream(tbl, s)
  <2>1. TableOK(tbl) /\ EntriesOK(tbl, initWin) /\ initWin \in Windows
    BY MaxWindowAssumption DEF IInv, TableInv, SInv, LifeInv, Windows
  <2>2. /\ Fades(tbl, tbl', initWin) /\ Room(tbl') = Room(tbl) /\ tbl'.idleQ = tbl.idleQ
        /\ ~Live(tbl', s) /\ \A x \in StreamIds \ {s} : tbl'.strm[x] = tbl.strm[x]
    BY <1>3, <1>8, <2>1, CloseStreamFades
  <2>3. EntriesOK(tbl', initWin) /\ Ages(tbl, tbl') /\ Calm(tbl, tbl')
    BY <2>1, <2>2, FadesOK
  <2>4. held.s # 0 => Live(tbl', held.s)
    <3>1. ASSUME held.s # 0 PROVE held.s \in StreamIds /\ held.s # s
      BY <3>1, <1>3, <1>5 DEF SInv, ReadInv, ResetInv, IInv, ControlInv, StreamOrNone
    <3> QED BY <3>1, <2>2 DEF SInv, ReadInv, Live
  <2>5. "TERM_SENT" \in goaway' => "TERM_ON_SEND" \in goaway'
    BY <1>1 DEF SInv, GoawayInv
  <2> QED BY <1>1, <1>5, <1>6, <2>2, <2>3, <2>4, <2>5, SendLife
<1> QED BY <1>4, <1>7, <1>8

\* GOAWAY closes the streams above the one it names; the stream of a callback that is
\* running is not among them.
LEMMA SendGoawayLife ==
  ASSUME IInv, IInv', SInv, SendGoaway PROVE SInv'
<1> DEFINE last == Head(obReg).s
           R == {x \in LiveSet(tbl) : x > last}
<1>1. /\ Sending /\ pc' = pc /\ UNCHANGED initWin /\ goneLast' = last
      /\ goaway' = goaway \cup {"TERM_SENT", "SENT"}
  BY DEF SendGoaway, Pops, flow
<1>2. PICK q \in Orders(R) : tbl' = CloseAll(tbl, q)
  BY DEF SendGoaway
<1>3. /\ ToSet(obReg) = {Head(obReg)} \cup ToSet(obReg')
      /\ Head(obReg) \in OutFrame /\ Head(obReg).f = "GOAWAY"
  BY PopsContents DEF SendGoaway
<1>4. last \in StreamOrNone /\ Head(obReg) = Goaway(last)
  BY <1>3 DEF OutFrame, Goaway, StreamOrNone
<1>5. Goaway(last) \in ToSet(obReg) /\ ToSet(obReg') \subseteq ToSet(obReg)
  BY <1>3, <1>4
<1>6. \A x \in StreamIds : Rst(x) \in ToSet(obReg) => Rst(x) \in ToSet(obReg')
  BY <1>3, <1>4, FramesDiffer
<1>7. R \in SUBSET LiveSet(tbl)
  OBVIOUS
<1>8. TableOK(tbl) /\ EntriesOK(tbl, initWin) /\ initWin \in Windows
  BY MaxWindowAssumption DEF IInv, TableInv, SInv, LifeInv, Windows
<1>9. \A x \in R : x > last
  OBVIOUS
<1> HIDE DEF last, R
<1>10. /\ Fades(tbl, tbl', initWin) /\ Room(tbl') = Room(tbl) /\ tbl'.idleQ = tbl.idleQ
       /\ \A x \in StreamIds : IF x \in R THEN ~Live(tbl', x) ELSE tbl'.strm[x] = tbl.strm[x]
  BY <1>2, <1>7, <1>8, CloseAllFades
<1>11. EntriesOK(tbl', initWin) /\ Ages(tbl, tbl') /\ Calm(tbl, tbl')
  BY <1>8, <1>10, FadesOK
<1>12. Covers(last) /\ "TERM_ON_SEND" \in goaway
  BY <1>4, <1>5 DEF SInv, GoawayInv
<1>13. held.s # 0 => Live(tbl', held.s)
  <2> SUFFICES ASSUME held.s # 0 PROVE Live(tbl', held.s)
    OBVIOUS
  <2>1. held.s \in StreamIds /\ Live(tbl, held.s) /\ ~tbl.strm[held.s].rd
    BY DEF SInv, ReadInv, IInv, ControlInv, StreamOrNone
  <2>2. held.s <= last /\ held.s \in Nat /\ last \in Nat
    BY <2>1, <1>4, <1>12, RecvIds DEF Covers, StreamOrNone
  <2>3. held.s \notin R
    BY <2>2, <1>9
  <2> QED BY <2>1, <2>3, <1>10 DEF Live
<1> QED BY <1>1, <1>4, <1>5, <1>6, <1>10, <1>11, <1>12, <1>13, SendLife

\* A DATA item is dropped, deferred, or lost with its provider.
LEMMA SetItemLife ==
  ASSUME IInv, IInv', SInv, NEW s \in StreamIds, DropData(s) \/ DeferData(s) \/ ReadFails(s)
  PROVE  SInv'
<1>1. /\ Sending /\ tbl.strm[s].item = "active"
      /\ pc' = pc \/ pc' = ret
      /\ UNCHANGED <<initWin, goaway, goneLast, obReg>>
      /\ \E i \in {"none", "deferred"} : tbl' = SetItem(tbl, s, i)
  BY DEF DropData, DeferData, ReadFails, PicksData, queues
<1>2. TableOK(tbl) /\ EntriesOK(tbl, initWin)
  BY DEF IInv, TableInv, SInv, LifeInv
<1>3. /\ EntriesOK(tbl', initWin) /\ Ages(tbl, tbl') /\ Calm(tbl, tbl') /\ Spares(tbl, tbl')
      /\ Room(tbl') = Room(tbl) /\ tbl'.idleQ = tbl.idleQ
  BY <1>1, <1>2, SetItemAges
<1>4. held.s # 0 => Live(tbl', held.s)
  BY <1>3 DEF SInv, ReadInv, Spares, IInv, ControlInv, StreamOrNone
<1>5. "TERM_SENT" \in goaway' => "TERM_ON_SEND" \in goaway'
  BY <1>1 DEF SInv, GoawayInv
<1>6. goaway \subseteq goaway' /\ ToSet(obReg') = ToSet(obReg)
  BY <1>1
<1> QED BY <1>1, <1>3, <1>4, <1>5, <1>6, SendLife

\* A DATA frame; the last one closes its stream, unless its callback is running, because
\* then the stream may still receive.
LEMMA SendDataLife ==
  ASSUME IInv, IInv', SInv, NEW s \in StreamIds, SendData(s) PROVE SInv'
<1> DEFINE n == ChunkSize(s)
           paid == Pay(tbl, s, n)
           ended == CloseIfShut(ShutWr(SetItem(paid, s, "none"), s), s)
<1>1. /\ Sending /\ pc' = pc /\ UNCHANGED <<initWin, goaway, goneLast, obReg>>
      /\ tbl' = paid \/ tbl' = ended
      /\ Live(tbl, s) /\ connWin > 0 /\ tbl.strm[s].win > 0 /\ tbl.strm[s].item = "active"
  BY DEF SendData, PicksData, MaySendData, queues, Pay
<1>2. TableOK(tbl) /\ EntriesOK(tbl, initWin)
  BY DEF IInv, TableInv, SInv, LifeInv
<1>3. n \in Nat /\ n <= tbl.strm[s].win
  BY <1>1, ChunkSizeBound
<1> HIDE DEF n
<1>4. TableOK(paid)
  BY <1>1, <1>3, SpendWindowOK DEF IInv, TableInv, Pay
<1>5. /\ EntriesOK(paid, initWin) /\ Ages(tbl, paid) /\ Calm(tbl, paid) /\ Spares(tbl, paid)
      /\ Room(paid) = Room(tbl) /\ paid.idleQ = tbl.idleQ
      /\ Point(tbl, paid, s, paid.strm[s]) /\ SameLife(tbl.strm[s], paid.strm[s])
  BY <1>1, <1>2, <1>4, PayAges
<1> HIDE DEF paid
<1>6. Live(paid, s)
  BY <1>1, <1>5 DEF Spares
<1>7. /\ EntriesOK(ended, initWin) /\ Ages(paid, ended) /\ Calm(paid, ended)
      /\ Point(paid, ended, s, ended.strm[s])
      /\ ~paid.strm[s].rd => Live(ended, s)
  BY <1>4, <1>5, <1>6, EndOfResponse
<1> HIDE DEF ended
<1>8. Ages(tbl, ended) /\ Calm(tbl, ended)
  BY <1>5, <1>7, LifeTransitive
<1>9. Room(ended) = Room(tbl) /\ ended.idleQ = tbl.idleQ
  BY <1>5, <1>7 DEF Point
<1>10. held.s # 0 => Live(paid, held.s) /\ Live(ended, held.s)
  <2> SUFFICES ASSUME held.s # 0 PROVE Live(paid, held.s) /\ Live(ended, held.s)
    OBVIOUS
  <2>1. held.s \in StreamIds /\ Live(tbl, held.s) /\ ~tbl.strm[held.s].rd
    BY DEF SInv, ReadInv, IInv, ControlInv, StreamOrNone
  <2>2. Live(paid, held.s)
    BY <2>1, <1>5 DEF Spares
  <2>3. CASE held.s = s
    BY <2>1, <2>2, <2>3, <1>5, <1>7 DEF SameLife
  <2>4. CASE held.s # s
    BY <2>1, <2>2, <2>4, <1>7 DEF Point, Live
  <2> QED BY <2>2, <2>3, <2>4
<1>11. /\ EntriesOK(tbl', initWin) /\ Ages(tbl, tbl') /\ Calm(tbl, tbl')
       /\ Room(tbl') = Room(tbl) /\ tbl'.idleQ = tbl.idleQ
       /\ held.s # 0 => Live(tbl', held.s)
  BY <1>1, <1>5, <1>7, <1>8, <1>9, <1>10
<1>12. "TERM_SENT" \in goaway' => "TERM_ON_SEND" \in goaway'
  BY <1>1 DEF SInv, GoawayInv
<1> QED BY <1>1, <1>11, <1>12, SendLife

-----------------------------------------------------------------------------
(* The invariant, and the theorems that follow from it. *)

\* Every step of nghttp2_session_mem_recv keeps the invariant.
LEMMA ReceiveLife ==
  ASSUME IInv, IInv', SInv, Receive PROVE SInv'
BY StartRecvLife, BufferEndLife, RecvNoSettingsLife, RecvInvalidLife, RecvRequestLife,
   RecvTrailersLife, RecvDataLife, FrameDeliveredLife, CallbackReturnsLife,
   FrameViolatesMessagingLife, FrameAbortedLife, FrameIgnoredLife, CompressionErrorLife,
   RecvRstLife, RecvPriorityLife, RecvWindowUpdateLife, RecvSettingsLife,
   RecvSettingsAckLife, RecvGoawayPingLife, RecvConnWindowUpdateLife
   DEF Receive

\* Every step of nghttp2_session_send keeps the invariant.
LEMMA SendsLife ==
  ASSUME IInv, IInv', SInv, Send PROVE SInv'
BY SendUrgentDoneLife, SendHeadersLife, SendRstLife, SendGoawayLife, SetItemLife, SendDataLife
   DEF Send

\* Every step keeps the invariant.
LEMMA NextSInv ==
  ASSUME IInv, SInv, [Next]_vars PROVE SInv'
<1>1. IInv'
  BY NextIInv
<1>2. CASE \E w \in WindowSizes : Upgrade(w)
  BY <1>1, <1>2, UpgradeLife
<1>3. CASE UpgradeRejected
  BY <1>1, <1>3, UpgradeRejectedLife
<1>4. CASE ServerPreface
  BY <1>1, <1>4, ServerPrefaceLife
<1>5. CASE Receive
  BY <1>1, <1>5, ReceiveLife
<1>6. CASE \E s \in StreamIds, n \in BodySizes : SubmitResponse(s, n)
  BY <1>1, <1>6, SubmitResponseLife
<1>7. CASE Send
  BY <1>1, <1>7, SendsLife
<1>8. CASE UNCHANGED vars
  BY <1>8 DEF SInv, LifeInv, ReadInv, ResetInv, GoawayInv, Covers, RefusedInv, vars, flow, ids,
              limits, queues, input, control, history
<1> QED BY <1>2, <1>3, <1>4, <1>5, <1>6, <1>7, <1>8 DEF Next

\* The invariant says all of the properties that the theorems state.
LEMMA SInvImplies ==
  ASSUME IInv, SInv
  PROVE  HeldStreamLive /\ RepeatedOnce /\ StreamsClose /\ ObjectsBounded
<1>1. HeldStreamLive
  BY DEF SInv, ReadInv, HeldStreamLive
<1>2. RepeatedOnce
  <2>1. RefusedNotDelivered
    BY DEF SInv, RefusedInv, RefusedNotDelivered
  <2>2. GoawayCovers
    BY DEF SInv, GoawayInv, Covers, GoawayCovers
  <2> QED BY <2>1, <2>2 DEF RepeatedOnce
<1>3. StreamsClose
  <2>1. ClosingHasReset
    <3> SUFFICES ASSUME NEW s \in StreamIds, Live(tbl, s), tbl.strm[s].st = "CLOSING",
                        "TERM_ON_SEND" \notin goaway
                 PROVE  \E i \in DOMAIN obReg : obReg[i] = Rst(s)
      BY DEF ClosingHasReset
    <3>1. Rst(s) \in ToSet(obReg)
      BY DEF SInv, ResetInv
    <3> QED BY <3>1 DEF ToSet
  <2>2. NoHalfDeadStream
    BY DEF SInv, LifeInv, EntriesOK, EntryOK, Live, NoHalfDeadStream
  <2> QED BY <2>1, <2>2 DEF StreamsClose
<1>4. ObjectsBounded
  <2>1. /\ Cardinality({s \in StreamIds : Mapped(tbl, s)}) = Room(tbl) + Len(tbl.idleQ)
        /\ Len(tbl.idleQ) \in Nat /\ Room(tbl) \in Nat
    BY ActiveCount DEF IInv, TableInv
  <2>2. Room(tbl) <= MaxConcurrent /\ MaxConcurrent \in Nat
    BY MaxConcurrentAssumption DEF SInv, LifeInv
  <2>3. IdleMax(localMax, pendingMax) \in Nat
    BY LimitTypes DEF IInv
  <2>4. pc = "idle" => Len(tbl.idleQ) <= IdleMax(localMax, pendingMax)
    BY DEF SInv, LifeInv
  <2> QED BY <2>1, <2>2, <2>3, <2>4 DEF ObjectsBounded
<1> QED BY <1>1, <1>2, <1>3, <1>4

\* SInv holds in every state of every behaviour of the session.
THEOREM LifeInvariance == Spec => []SInv
<1>1. Init => IInv /\ SInv
  BY InitIInv, InitSInv
<1>2. IInv /\ SInv /\ [Next]_vars => (IInv /\ SInv)'
  BY NextIInv, NextSInv
<1> QED BY <1>1, <1>2, PTL DEF Spec

\* The stream whose on_frame_recv callback is running never dies under it, whatever the
\* application answers and whatever RST_STREAM, GOAWAY or last DATA frame is sent meanwhile
\* (nghttp2_session.c:3693-3759, 4844-4866).
THEOREM CallbackStreamLives == Spec => []HeldStreamLive
<1>1. IInv /\ SInv => HeldStreamLive
  BY SInvImplies
<1> QED BY <1>1, Invariance, LifeInvariance, PTL

\* A request that its client is told it may repeat was never delivered, neither one that was
\* refused nor one above the last identifier of the GOAWAY
\* (nghttp2_session.c:1414, 3822, 3840).
THEOREM RepeatIsSafe == Spec => []RepeatedOnce
<1>1. IInv /\ SInv => RepeatedOnce
  BY SInvImplies
<1> QED BY <1>1, Invariance, LifeInvariance, PTL

\* A stream that is marked for reset has its RST_STREAM queued, and one whose two directions
\* are shut is closed: no stream stays behind for good
\* (nghttp2_session.c:869-875, 931, 1401).
THEOREM StreamsComeToAnEnd == Spec => []StreamsClose
<1>1. IInv /\ SInv => StreamsClose
  BY SInvImplies
<1> QED BY <1>1, Invariance, LifeInvariance, PTL

\* Between two calls of the library the map holds no more streams than the announced limit
\* and the idle cap allow, for any number of requests and PRIORITY frames
\* (nghttp2_session.c:1295-1386, 2880, 5283).
THEOREM MapStaysSmall == Spec => []ObjectsBounded
<1>1. IInv /\ SInv => ObjectsBounded
  BY SInvImplies
<1> QED BY <1>1, Invariance, LifeInvariance, PTL
=============================================================================
