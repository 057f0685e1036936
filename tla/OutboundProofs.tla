---------------------------- MODULE OutboundProofs ----------------------------
(***************************************************************************)
(* What holds of the frames that leave the session, for any number of      *)
(* streams, any sizes, and however little the send callback takes: every    *)
(* item is in one hand until it is freed, once, the flood counter counts    *)
(* the acknowledgements that wait, and the octets on the wire are whole    *)
(* frames in an order that RFC 7540 allows.                                *)
(***************************************************************************)
EXTENDS Integers, OutboundQueue, FiniteSetTheorems, FunctionTheorems, TLAPS

Acks(q) == {i \in Range(q) : IsAck(i)}

\* An item is queued once, in the queue of its kind, and not while it is being sent
QueueInv ==
  /\ IsInjective(urgent) /\ IsInjective(reg)
  /\ \A i \in Range(urgent) : IsUrgent(i)
  /\ \A i \in Range(reg) : i.type \in {"GOAWAY", "RST_STREAM", "HEADERS"}
  /\ aob.item \notin Range(urgent) \cup Range(reg)

\* A DATA item is attached to a stream that is open and has octets left to send; the one
\* that is being sent stays attached as long as its stream is open; and a response whose
\* headers wait has a body
StreamOwes(s) ==
  /\ strm[s].item => Live(s)
  /\ strm[s].item /\ aob.item # Data(s) => strm[s].left > 0
  /\ aob.item = Data(s) /\ Live(s) => strm[s].item /\ strm[s].win > 0
  /\ \A i \in Range(reg) \cup {aob.item} : i.type = "HEADERS" /\ i.s = s => strm[s].left > 0
StreamInv == \A s \in Streams : StreamOwes(s)

\* The items of one type on one stream are numbered from 1
Numbered(type, s) ==
  \E k \in 0 .. events :
    {i \in DOMAIN heap : i.type = type /\ i.s = s} = {Item(type, s, j) : j \in 1 .. k}

\* There is one GOAWAY, and one HEADERS on a stream, which was requested; the HEADERS is freed
\* when the DATA item is made
NameInv ==
  /\ events <= MaxEvents
  /\ \A type \in {"SETTINGS_ACK", "PING_ACK"} : Numbered(type, 0)
  /\ \A s \in Streams : Numbered("RST_STREAM", s)
  /\ Item("GOAWAY", 0, 0) \in DOMAIN heap => "TERM_ON_SEND" \in goaway
  /\ \A i, j \in DOMAIN heap : i.type = "HEADERS" /\ j.type = "HEADERS" /\ i.s = j.s => i = j
  /\ \A i \in DOMAIN heap : i.type = "HEADERS" => strm[i.s].st # "IDLE"
  /\ \A s \in Streams : Data(s) \in DOMAIN heap =>
       \E i \in DOMAIN heap : i.type = "HEADERS" /\ i.s = s /\ heap[i] = 1

OInv == QueueInv /\ StreamInv /\ NameInv /\ ItemsOwned /\ FloodCounted

-----------------------------------------------------------------------------
(* Queues of items. *)

\* What is queued after an item was appended.
LEMMA AppendItem ==
  ASSUME NEW q \in Seq(Items), NEW i \in Items
  PROVE  /\ Append(q, i) \in Seq(Items) /\ Range(Append(q, i)) = Range(q) \cup {i}
         /\ IsInjective(q) /\ i \notin Range(q) => IsInjective(Append(q, i))
<1> DEFINE r == Append(q, i)
<1>1. /\ r \in Seq(Items) /\ Len(r) = Len(q) + 1 /\ Len(q) \in Nat
      /\ DOMAIN q = 1 .. Len(q) /\ DOMAIN r = 1 .. Len(q) + 1
      /\ \A k \in 1 .. Len(q) : r[k] = q[k]
      /\ r[Len(q) + 1] = i
  OBVIOUS
<1> HIDE DEF r
<1>2. Range(r) = Range(q) \cup {i}
  <2>1. \A k \in 1 .. Len(q) + 1 : k \in 1 .. Len(q) \/ k = Len(q) + 1
    BY <1>1
  <2>2. \A k \in 1 .. Len(q) : k \in 1 .. Len(q) + 1
    BY <1>1
  <2>3. Len(q) + 1 \in 1 .. Len(q) + 1
    BY <1>1
  <2> QED BY <1>1, <2>1, <2>2, <2>3 DEF Range
<1>3. ASSUME IsInjective(q), i \notin Range(q) PROVE IsInjective(r)
  <2>1. \A k \in 1 .. Len(q) + 1 : k \in 1 .. Len(q) \/ k = Len(q) + 1
    BY <1>1
  <2>2. \A k \in 1 .. Len(q) : q[k] # i
    BY <1>1, <1>3 DEF Range
  <2> QED BY <1>1, <1>3, <2>1, <2>2 DEF IsInjective
<1> QED BY <1>1, <1>2, <1>3 DEF r

\* What is queued after the first item was taken.
LEMMA TakeItem ==
  ASSUME NEW q \in Seq(Items), q # << >>, IsInjective(q)
  PROVE  /\ Head(q) \in Items /\ Tail(q) \in Seq(Items) /\ IsInjective(Tail(q))
         /\ Range(q) = Range(Tail(q)) \cup {Head(q)} /\ Head(q) \notin Range(Tail(q))
<1> DEFINE r == Tail(q)
<1>1. /\ r \in Seq(Items) /\ Head(q) \in Items /\ Len(q) \in Nat /\ Len(q) > 0
      /\ DOMAIN q = 1 .. Len(q) /\ DOMAIN r = 1 .. Len(q) - 1
      /\ \A k \in 1 .. Len(q) - 1 : r[k] = q[k + 1]
      /\ Head(q) = q[1]
  OBVIOUS
<1> HIDE DEF r
<1>2. /\ \A k \in 1 .. Len(q) : k = 1 \/ (k - 1 \in 1 .. Len(q) - 1 /\ k = (k - 1) + 1)
      /\ \A k \in 1 .. Len(q) - 1 : k + 1 \in 1 .. Len(q) /\ k + 1 # 1
      /\ \A k, l \in 1 .. Len(q) - 1 : k + 1 = l + 1 => k = l
      /\ 1 \in 1 .. Len(q)
  BY <1>1
<1>3. Range(q) = Range(r) \cup {Head(q)}
  <2>1. ASSUME NEW x \in Range(q) PROVE x \in Range(r) \cup {Head(q)}
    <3>1. PICK k \in 1 .. Len(q) : x = q[k]
      BY <1>1 DEF Range
    <3>2. CASE k = 1
      BY <1>1, <3>1, <3>2
    <3>3. CASE k # 1
      <4> DEFINE l == k - 1
      <4>1. l \in 1 .. Len(q) - 1 /\ q[k] = q[l + 1]
        BY <1>2, <3>3
      <4> HIDE DEF l
      <4>2. r[l] = x /\ l \in DOMAIN r
        BY <1>1, <3>1, <4>1
      <4> QED BY <4>2 DEF Range
    <3> QED BY <3>2, <3>3
  <2>2. ASSUME NEW x \in Range(r) \cup {Head(q)} PROVE x \in Range(q)
    BY <1>1, <1>2 DEF Range
  <2> QED BY <2>1, <2>2
<1>4. IsInjective(r)
  BY <1>1, <1>2 DEF IsInjective
<1>5. Head(q) \notin Range(r)
  <2>1. ASSUME NEW l \in 1 .. Len(q) - 1 PROVE r[l] # Head(q)
    <3>1. r[l] = q[l + 1] /\ l + 1 \in DOMAIN q /\ 1 \in DOMAIN q /\ l + 1 # 1
      BY <1>1, <1>2
    <3> QED BY <1>1, <3>1 DEF IsInjective
  <2> QED BY <1>1, <2>1 DEF Range
<1> QED BY <1>1, <1>3, <1>4, <1>5 DEF r

\* An empty queue has no items.
LEMMA EmptyQueue ==
  Range(<< >>) = {} /\ IsInjective(<< >>) /\ << >> \in Seq(Items)
BY DEF Range, IsInjective

-----------------------------------------------------------------------------
(* The names of items, and who holds them. *)

AckTypes == {"SETTINGS_ACK", "PING_ACK"}

\* What the fields of an item are.
LEMMA ItemFields ==
  ASSUME NEW type, NEW s, NEW n
  PROVE  /\ Item(type, s, n).type = type /\ Item(type, s, n).s = s /\ Item(type, s, n).n = n
         /\ None.type = "none" /\ Data(s).type = "DATA" /\ Data(s).s = s
         /\ \A x : Data(s) = Data(x) => s = x
BY DEF Item, None, Data

\* The kinds of items there are.
LEMMA ItemKinds ==
  ASSUME NEW i \in Items
  PROVE  /\ i.type \in {"SETTINGS", "GOAWAY", "SETTINGS_ACK", "PING_ACK", "HEADERS", "RST_STREAM", "DATA"}
         /\ i.type \in {"HEADERS", "RST_STREAM", "DATA"} => i.s \in Streams
         /\ i.type = "DATA" => i = Data(i.s)
         /\ i.type = "GOAWAY" => i = Item("GOAWAY", 0, 0)
         /\ i.type = "HEADERS" => i.n \in Blocks
         /\ i # None
BY DEF Items, Item, None, Data

\* There are as many numbered items as numbers.
LEMMA NumbersCount ==
  ASSUME NEW k \in Nat, NEW type, NEW s
  PROVE  LET T == {Item(type, s, j) : j \in 1 .. k} IN IsFiniteSet(T) /\ Cardinality(T) = k
<1> DEFINE T == {Item(type, s, j) : j \in 1 .. k}
           f == [j \in 1 .. k |-> Item(type, s, j)]
<1>1. IsFiniteSet(1 .. k) /\ Cardinality(1 .. k) = k
  BY FS_Interval
<1>2. f \in [1 .. k -> T] /\ \A t \in T : \E j \in 1 .. k : f[j] = t
  OBVIOUS
<1>3. \A i, j \in 1 .. k : f[i] = f[j] => i = j
  BY DEF Item
<1>4. ExistsBijection(1 .. k, T)
  <2>1. f \in Bijection(1 .. k, T)
    BY <1>2, <1>3, Fun_IsBij
  <2> QED BY <2>1 DEF ExistsBijection
<1> HIDE DEF T
<1> QED BY <1>1, <1>4, FS_Bijection DEF T

\* A new item is one that there was not, and has the next number.
LEMMA NewItem ==
  ASSUME TypeOK, events < MaxEvents, NEW type, NEW s, Numbered(type, s),
         \/ type \in AckTypes /\ s = 0
         \/ type = "RST_STREAM" /\ s \in Streams
  PROVE  LET i == New(type, s)
         IN  /\ i \in Items /\ i \notin DOMAIN heap /\ i.type = type /\ i.s = s
             /\ \E k \in 0 .. events + 1 :
                  {j \in DOMAIN heap \cup {i} : j.type = type /\ j.s = s}
                    = {Item(type, s, j) : j \in 1 .. k}
<1> DEFINE S == {j \in DOMAIN heap : j.type = type /\ j.s = s}
<1>1. PICK k \in 0 .. events : S = {Item(type, s, j) : j \in 1 .. k}
  BY DEF Numbered
<1>2. events \in Nat /\ MaxEvents \in Nat /\ k \in Nat /\ k + 1 \in 1 .. MaxEvents
      /\ k + 1 \in 0 .. events + 1
  BY <1>1, OutboundAssumption DEF TypeOK
<1>3. Cardinality(S) = k
  BY <1>1, <1>2, NumbersCount
<1> DEFINE i == Item(type, s, 1 + k)
<1>4. New(type, s) = i
  BY <1>3 DEF New
<1>5. i \in Items
  BY <1>2 DEF Items, AckTypes
<1>6. i.type = type /\ i.s = s
  BY ItemFields
<1>7. i \notin S
  <2>1. \A j \in 1 .. k : Item(type, s, j) # i
    BY <1>2 DEF Item
  <2> QED BY <1>1, <2>1
<1>8. S \cup {i} = {Item(type, s, j) : j \in 1 .. k + 1}
  <2>1. \A j \in 1 .. k + 1 : j \in 1 .. k \/ j = 1 + k
    BY <1>2
  <2>2. 1 + k \in 1 .. k + 1 /\ \A j \in 1 .. k : j \in 1 .. k + 1
    BY <1>2
  <2> HIDE DEF S
  <2> QED BY <1>1, <2>1, <2>2
<1>9. {j \in DOMAIN heap \cup {i} : j.type = type /\ j.s = s} = S \cup {i}
  BY <1>6
<1> HIDE DEF i, S
<1> QED BY <1>2, <1>4, <1>5, <1>6, <1>7, <1>8, <1>9 DEF S

-----------------------------------------------------------------------------
(* What a step does to each part of the invariant. *)

\* The acknowledgements in a queue can be counted.
LEMMA AcksFinite ==
  ASSUME NEW q \in Seq(Items)
  PROVE  IsFiniteSet(Acks(q))
<1>1. q \in [1 .. Len(q) -> Range(q)] /\ \A x \in Range(q) : \E k \in 1 .. Len(q) : q[k] = x
  BY DEF Range
<1>2. IsFiniteSet(1 .. Len(q))
  <2>1. Len(q) \in Nat
    OBVIOUS
  <2>2. 1 \in Int /\ Len(q) \in Int
    BY <2>1
  <2> QED BY <2>2, FS_Interval
<1>3. q \in Surjection(1 .. Len(q), Range(q))
  BY <1>1, Fun_IsSurj
<1>4. IsFiniteSet(Range(q))
  BY <1>2, <1>3, FS_Surjection
<1>5. Acks(q) \in SUBSET Range(q)
  BY DEF Acks
<1> QED BY <1>4, <1>5, FS_Subset

\* Items A are made and the items G, which were held, are freed: each is in one hand if those
\* who hold items hold A and not G.
LEMMA OwnStep ==
  ASSUME TypeOK, ItemsOwned, NEW A \in SUBSET Items, NEW G \in SUBSET Held, None \notin G,
         A \cap DOMAIN heap = {}, DOMAIN heap' = DOMAIN heap \cup A,
         \A i \in DOMAIN heap : heap'[i] = IF i \in G THEN heap[i] + 1 ELSE heap[i],
         \A i \in A : heap'[i] = 0,
         Held' \cup {None} = (Held \ G) \cup A \cup {None}
  PROVE  ItemsOwned'
<1>1. None \notin DOMAIN heap \cup A
  BY ItemKinds DEF TypeOK
<1>2. ASSUME NEW i \in DOMAIN heap' PROVE heap'[i] = IF i \in Held' THEN 0 ELSE 1
  <2>1. CASE i \in A
    BY <1>1, <2>1
  <2>2. CASE i \notin A
    <3>1. i \in DOMAIN heap /\ i # None /\ (heap[i] = IF i \in Held THEN 0 ELSE 1)
      BY <1>1, <2>2 DEF ItemsOwned
    <3>2. i \in Held' <=> i \in Held \ G
      BY <2>2, <3>1
    <3> QED BY <3>1, <3>2
  <2> QED BY <2>1, <2>2
<1>3. Held' \subseteq DOMAIN heap' \cup {None}
  BY DEF ItemsOwned
<1> QED BY <1>2, <1>3 DEF ItemsOwned

\* Nothing is made or freed.
LEMMA OwnSame ==
  ASSUME TypeOK, ItemsOwned, heap' = heap, Held' \cup {None} = Held \cup {None}
  PROVE  ItemsOwned'
<1> DEFINE E == {}
<1>1. /\ E \in SUBSET Items /\ E \in SUBSET Held /\ None \notin E /\ E \cap DOMAIN heap = {}
      /\ DOMAIN heap' = DOMAIN heap \cup E /\ \A i \in E : heap'[i] = 0
      /\ \A i \in DOMAIN heap : heap'[i] = IF i \in E THEN heap[i] + 1 ELSE heap[i]
      /\ Held' \cup {None} = (Held \ E) \cup E \cup {None}
  OBVIOUS
<1> HIDE DEF E
<1> QED BY <1>1, OwnStep

\* Items are freed.
Freed(G) ==
  /\ DOMAIN heap' = DOMAIN heap
  /\ \A i \in DOMAIN heap : heap'[i] = IF i \in G THEN heap[i] + 1 ELSE heap[i]

\* Items that were held are freed, and not held any more.
LEMMA OwnFree ==
  ASSUME TypeOK, ItemsOwned, NEW G \in SUBSET Held, None \notin G, heap' = Free(heap, G) \/ Freed(G),
         Held' \cup {None} = (Held \ G) \cup {None}
  PROVE  ItemsOwned' /\ DOMAIN heap' = DOMAIN heap /\ \A i \in DOMAIN heap : heap[i] = 1 => heap'[i] = 1
<1>1. Freed(G)
  BY DEF Free, Freed
<1>2. \A i \in DOMAIN heap : heap[i] = 1 => i \notin G
  BY DEF ItemsOwned
<1>3. ItemsOwned'
  <2> DEFINE E == {}
  <2>1. /\ E \in SUBSET Items /\ E \cap DOMAIN heap = {} /\ DOMAIN heap' = DOMAIN heap \cup E
        /\ \A i \in E : heap'[i] = 0
        /\ Held' \cup {None} = (Held \ G) \cup E \cup {None}
    BY <1>1 DEF Freed
  <2> HIDE DEF E
  <2> QED BY <1>1, <2>1, OwnStep DEF Freed
<1> QED BY <1>1, <1>2, <1>3 DEF Freed

\* An item is made.
LEMMA OwnAdd ==
  ASSUME TypeOK, ItemsOwned, NEW i \in Items, i \notin DOMAIN heap, heap' = Alloc(heap, i),
         Held' \cup {None} = Held \cup {i} \cup {None}
  PROVE  ItemsOwned' /\ DOMAIN heap' = DOMAIN heap \cup {i}
         /\ \A j \in DOMAIN heap : heap[j] = 1 => heap'[j] = 1
<1>1. /\ DOMAIN heap' = DOMAIN heap \cup {i} /\ heap'[i] = 0
      /\ \A j \in DOMAIN heap : heap'[j] = heap[j]
  BY DEF Alloc
<1>2. ItemsOwned'
  <2> DEFINE A == {i}
             E == {}
  <2>1. /\ A \in SUBSET Items /\ E \in SUBSET Held /\ None \notin E
        /\ A \cap DOMAIN heap = {} /\ DOMAIN heap' = DOMAIN heap \cup A
        /\ \A j \in DOMAIN heap : heap'[j] = IF j \in E THEN heap[j] + 1 ELSE heap[j]
        /\ \A j \in A : heap'[j] = 0
        /\ Held' \cup {None} = (Held \ E) \cup A \cup {None}
    BY <1>1
  <2> HIDE DEF A, E
  <2> QED BY <2>1, OwnStep
<1> QED BY <1>1, <1>2

\* The names stay those of the code when the new items A have the next number, or are the first.
LEMMA NamesStep ==
  ASSUME TypeOK, NameInv, NEW A \in SUBSET Items, DOMAIN heap' = DOMAIN heap \cup A,
         \A i \in DOMAIN heap : heap[i] = 1 => heap'[i] = 1,
         events' \in Nat, events <= events', events' <= MaxEvents, goaway \subseteq goaway',
         \A s \in Streams : strm'[s].st = "IDLE" => strm[s].st = "IDLE",
         \A i \in A : i.type \in AckTypes \cup {"RST_STREAM"} => Numbered(i.type, i.s)',
         \A i \in A : i.type = "GOAWAY" => "TERM_ON_SEND" \in goaway',
         \A i \in A : i.type = "HEADERS" =>
           strm'[i.s].st # "IDLE" /\ \A j \in DOMAIN heap \cup A : j.type = "HEADERS" /\ j.s = i.s => j = i,
         \A i \in A : i.type = "DATA" =>
           \E j \in DOMAIN heap : j.type = "HEADERS" /\ j.s = i.s /\ heap'[j] = 1
  PROVE  NameInv'
<1>1. ASSUME NEW type, NEW s, Numbered(type, s),
             \A i \in A : i.type = type /\ i.s = s => Numbered(type, s)'
      PROVE  Numbered(type, s)'
  <2>1. ASSUME NEW i \in A, i.type = type, i.s = s PROVE Numbered(type, s)'
    BY <1>1, <2>1
  <2>2. ASSUME \A i \in A : ~(i.type = type /\ i.s = s) PROVE Numbered(type, s)'
    <3>1. {i \in DOMAIN heap' : i.type = type /\ i.s = s} = {i \in DOMAIN heap : i.type = type /\ i.s = s}
      BY <2>2
    <3>2. PICK k \in 0 .. events :
            {i \in DOMAIN heap : i.type = type /\ i.s = s} = {Item(type, s, j) : j \in 1 .. k}
      BY <1>1 DEF Numbered
    <3>3. k \in 0 .. events'
      BY DEF TypeOK
    <3> QED BY <3>1, <3>2, <3>3 DEF Numbered
  <2> QED BY <2>1, <2>2
<1>2. ASSUME NEW type \in AckTypes PROVE Numbered(type, 0)'
  BY <1>1, <1>2 DEF NameInv, AckTypes
<1>3. ASSUME NEW s \in Streams PROVE Numbered("RST_STREAM", s)'
  BY <1>1, <1>3 DEF NameInv
<1>4. (Item("GOAWAY", 0, 0) \in DOMAIN heap => "TERM_ON_SEND" \in goaway)'
  BY ItemFields DEF NameInv
<1>5. (\A i, j \in DOMAIN heap : i.type = "HEADERS" /\ j.type = "HEADERS" /\ i.s = j.s => i = j)'
  BY DEF NameInv
<1>6. (\A i \in DOMAIN heap : i.type = "HEADERS" => strm[i.s].st # "IDLE")'
  <2>1. \A i \in DOMAIN heap : i.type = "HEADERS" => i.s \in Streams
    BY ItemKinds DEF TypeOK
  <2> QED BY <2>1 DEF NameInv
<1>7. ASSUME NEW s \in Streams, Data(s) \in DOMAIN heap'
      PROVE  \E i \in DOMAIN heap' : i.type = "HEADERS" /\ i.s = s /\ heap'[i] = 1
  <2>1. CASE Data(s) \in DOMAIN heap
    BY <2>1 DEF NameInv
  <2>2. CASE Data(s) \in A
    <3>1. Data(s).type = "DATA" /\ Data(s).s = s
      BY ItemFields
    <3>2. PICK j \in DOMAIN heap : j.type = "HEADERS" /\ j.s = Data(s).s /\ heap'[j] = 1
      BY <2>2, <3>1
    <3> QED BY <3>1, <3>2
  <2> QED BY <1>7, <2>1, <2>2
<1> QED BY <1>2, <1>3, <1>4, <1>5, <1>6, <1>7 DEF NameInv, AckTypes

\* Nothing is made.
LEMMA NamesSame ==
  ASSUME TypeOK, NameInv, DOMAIN heap' = DOMAIN heap,
         \A i \in DOMAIN heap : heap[i] = 1 => heap'[i] = 1,
         (events' = events) \/ (events < MaxEvents /\ events' = events + 1),
         goaway \subseteq goaway',
         \A s \in Streams : strm'[s].st = "IDLE" => strm[s].st = "IDLE"
  PROVE  NameInv'
<1>1. events' \in Nat /\ events <= events' /\ events' <= MaxEvents
  BY OutboundAssumption DEF TypeOK, NameInv
<1> DEFINE A == {}
<1>2. A \in SUBSET Items /\ DOMAIN heap' = DOMAIN heap \cup A /\ \A i : i \notin A
  OBVIOUS
<1> HIDE DEF A
<1>3. /\ \A i \in A : i.type \in AckTypes \cup {"RST_STREAM"} => Numbered(i.type, i.s)'
      /\ \A i \in A : i.type = "GOAWAY" => "TERM_ON_SEND" \in goaway'
      /\ \A i \in A : i.type = "HEADERS" =>
           strm'[i.s].st # "IDLE" /\ \A j \in DOMAIN heap \cup A : j.type = "HEADERS" /\ j.s = i.s => j = i
      /\ \A i \in A : i.type = "DATA" =>
           \E j \in DOMAIN heap : j.type = "HEADERS" /\ j.s = i.s /\ heap'[j] = 1
  BY <1>2
<1> QED BY <1>1, <1>2, <1>3, NamesStep

StreamRecord ==
  [st : {"IDLE", "OPENING", "OPENED", "CLOSING", "CLOSED"}, item : BOOLEAN,
   deferred : BOOLEAN, win : Nat, left : Nat]

\* One stream changes.
LEMMA StreamChange ==
  ASSUME TypeOK, NEW s \in Streams, NEW e \in StreamRecord, strm' = [strm EXCEPT ![s] = e]
  PROVE  /\ strm' \in [Streams -> StreamRecord] /\ strm'[s] = e
         /\ \A x \in Streams \ {s} : strm'[x] = strm[x]
<1>1. strm \in [Streams -> StreamRecord]
  BY DEF TypeOK, StreamRecord
<1> QED BY <1>1

\* The other streams owe what they owed, when no other's DATA begins or ends and no HEADERS
\* is queued for them.
LEMMA OthersOwe ==
  ASSUME StreamInv, NEW s, \A x \in Streams \ {s} : strm'[x] = strm[x],
         \A x \in Streams \ {s} : aob'.item = Data(x) => aob.item = Data(x),
         \A x \in Streams \ {s} : aob.item = Data(x) => aob'.item = Data(x),
         \A i \in Range(reg') \cup {aob'.item} : i.type = "HEADERS" =>
           i.s = s \/ i \in Range(reg) \cup {aob.item},
         s \in Streams => StreamOwes(s)'
  PROVE  StreamInv'
<1>1. ASSUME NEW x \in Streams, x # s PROVE StreamOwes(x)'
  <2>1. StreamOwes(x) /\ strm'[x] = strm[x]
    BY <1>1 DEF StreamInv
  <2>2. Live(x)' => Live(x)
    BY <2>1 DEF Live
  <2>3. Live(x) => Live(x)'
    BY <2>1 DEF Live
  <2>4. (strm[x].item => Live(x))'
    BY <2>1, <2>3 DEF StreamOwes
  <2>5. (strm[x].item /\ aob.item # Data(x) => strm[x].left > 0)'
    BY <1>1, <2>1 DEF StreamOwes
  <2>6. (aob.item = Data(x) /\ Live(x) => strm[x].item /\ strm[x].win > 0)'
    BY <1>1, <2>1, <2>2 DEF StreamOwes
  <2>7. (\A i \in Range(reg) \cup {aob.item} : i.type = "HEADERS" /\ i.s = x => strm[x].left > 0)'
    <3>1. ASSUME NEW i \in Range(reg') \cup {aob'.item}, i.type = "HEADERS", i.s = x
          PROVE  strm'[x].left > 0
      BY <1>1, <2>1, <3>1 DEF StreamOwes
    <3> QED BY <3>1
  <2> QED BY <2>4, <2>5, <2>6, <2>7 DEF StreamOwes
<1>2. ASSUME NEW x \in Streams, x = s PROVE StreamOwes(x)'
  BY <1>2
<1> QED BY <1>1, <1>2 DEF StreamInv

\* No stream changes, nor whose DATA is being sent.
LEMMA StreamsSame ==
  ASSUME StreamInv, strm' = strm,
         \A x \in Streams : aob'.item = Data(x) => aob.item = Data(x),
         \A x \in Streams : aob.item = Data(x) => aob'.item = Data(x),
         \A i \in Range(reg') \cup {aob'.item} : i.type = "HEADERS" => i \in Range(reg) \cup {aob.item}
  PROVE  StreamInv'
<1>1. \A x \in Streams : strm'[x] = strm[x]
  OBVIOUS
<1>2. PICK s : s \notin Streams
  <2>1. {x \in Streams : x \notin x} \notin Streams
    OBVIOUS
  <2> QED BY <2>1
<1> QED BY <1>1, <1>2, OthersOwe

\* The DATA items that hang on a stream
Attached == {Data(s) : s \in {x \in Streams : strm[x].item}}

\* Who holds an item.
LEMMA HeldIs ==
  /\ Held = Range(urgent) \cup Range(reg) \cup {aob.item} \cup Attached
  /\ Held' = Range(urgent') \cup Range(reg') \cup {aob'.item} \cup Attached'
BY DEF Held, Attached

\* An item is attached, or detached, or neither.
LEMMA AttachedStep ==
  ASSUME NEW s \in Streams, \A x \in Streams \ {s} : strm'[x].item = strm[x].item
  PROVE  /\ strm'[s].item = strm[s].item => Attached' = Attached
         /\ ~strm'[s].item => Attached' = Attached \ {Data(s)}
         /\ strm'[s].item => Attached' = Attached \cup {Data(s)}
         /\ Data(s) \in Attached => strm[s].item
<1>1. \A x, y : Data(x) = Data(y) => x = y
  BY DEF Data, Item
<1>2. Data(s) \in Attached => strm[s].item
  BY <1>1 DEF Attached
<1>3. ASSUME NEW x \in Streams, x # s, Data(x) \in Attached PROVE Data(x) \in Attached'
  <2>1. strm[x].item
    BY <1>1, <1>3 DEF Attached
  <2> QED BY <1>3, <2>1 DEF Attached
<1>4. ASSUME NEW x \in Streams, x # s, Data(x) \in Attached' PROVE Data(x) \in Attached
  <2>1. strm'[x].item
    BY <1>1, <1>4 DEF Attached
  <2> QED BY <1>4, <2>1 DEF Attached
<1>5. /\ strm'[s].item => Data(s) \in Attached'
      /\ Data(s) \in Attached' => strm'[s].item
      /\ strm[s].item => Data(s) \in Attached
  BY <1>1 DEF Attached
<1>6. /\ \A i \in Attached : \E x \in Streams : i = Data(x)
      /\ \A i \in Attached' : \E x \in Streams : i = Data(x)
  BY DEF Attached
<1>7. \A i : i # Data(s) => (i \in Attached => i \in Attached') /\ (i \in Attached' => i \in Attached)
  BY <1>3, <1>4, <1>6
<1> QED BY <1>2, <1>5, <1>7

\* No stream's item changes.
LEMMA AttachedSame ==
  ASSUME \A x \in Streams : strm'[x].item = strm[x].item
  PROVE  Attached' = Attached
BY DEF Attached

\* Acknowledgements wait as before.
LEMMA FloodSame ==
  ASSUME FloodCounted, TypeOK', urgent' = urgent, flood' = flood, pc' # "deleted" => pc # "deleted"
  PROVE  FloodCounted'
BY DEF FloodCounted

\* One more waits.
LEMMA FloodAdd ==
  ASSUME FloodCounted, TypeOK', pc # "deleted", NEW i \in Items, IsAck(i), i \notin Range(urgent),
         flood < MaxFlood, urgent' = Append(urgent, i), flood' = flood + 1
  PROVE  FloodCounted'
<1>1. urgent \in Seq(Items) /\ flood \in Nat /\ MaxFlood \in Nat
  BY OutboundAssumption DEF FloodCounted, TypeOK
<1>2. Acks(urgent') = Acks(urgent) \cup {i} /\ i \notin Acks(urgent)
  BY <1>1, AppendItem DEF Acks
<1>3. Cardinality(Acks(urgent')) = Cardinality(Acks(urgent)) + 1
  BY <1>1, <1>2, AcksFinite, FS_AddElement
<1>4. flood = Cardinality(Acks(urgent))
  BY DEF FloodCounted, Acks
<1>5. flood' = Cardinality(Acks(urgent')) /\ flood' <= MaxFlood
  BY <1>1, <1>3, <1>4
<1> QED BY <1>5 DEF FloodCounted, Acks

\* The first of the urgent items does not wait any more.
LEMMA FloodTake ==
  ASSUME FloodCounted, pc # "deleted", urgent # << >>, IsInjective(urgent), NEW sent,
         urgent' = Tail(urgent), flood' = FloodAfter(Head(urgent), sent)
  PROVE  flood' \in Nat /\ (TypeOK' => FloodCounted')
<1> DEFINE i == Head(urgent)
<1>1. urgent \in Seq(Items) /\ flood \in Nat /\ MaxFlood \in Nat
  BY OutboundAssumption DEF FloodCounted, TypeOK
<1>2. /\ Range(urgent) = Range(urgent') \cup {i} /\ i \notin Range(urgent')
      /\ i \in Items /\ urgent' \in Seq(Items)
  BY <1>1, TakeItem
<1> HIDE DEF i
<1>3. /\ IsAck(i) => Acks(urgent) = Acks(urgent') \cup {i} /\ i \notin Acks(urgent')
      /\ ~IsAck(i) => Acks(urgent) = Acks(urgent')
  BY <1>2 DEF Acks
<1>4. flood = Cardinality(Acks(urgent)) /\ flood <= MaxFlood
  BY DEF FloodCounted, Acks
<1>5. IsFiniteSet(Acks(urgent')) /\ Cardinality(Acks(urgent')) \in Nat
  BY <1>2, AcksFinite, FS_CardinalityType
<1>6. IsAck(i) => Cardinality(Acks(urgent)) = Cardinality(Acks(urgent')) + 1
  BY <1>3, <1>5, FS_AddElement
<1>7. flood' = IF IsAck(i) THEN flood - 1 ELSE flood
  BY DEF FloodAfter, i
<1>8. flood' = Cardinality(Acks(urgent')) /\ flood' <= MaxFlood /\ flood' \in Nat
  BY <1>1, <1>3, <1>4, <1>5, <1>6, <1>7
<1> QED BY <1>8 DEF FloodCounted, Acks

-----------------------------------------------------------------------------
(* What peer and application do. *)

\* A DATA item is made for a stream that was requested, after its headers.
LEMMA DataAfterHeaders ==
  ASSUME OInv, NEW s \in Streams, Data(s) \in Held
  PROVE  strm[s].st # "IDLE" /\ \E i \in DOMAIN heap : i.type = "HEADERS" /\ i.s = s /\ heap[i] = 1
<1>1. Data(s) \in DOMAIN heap
  BY ItemFields DEF OInv, ItemsOwned
<1>2. PICK i \in DOMAIN heap : i.type = "HEADERS" /\ i.s = s /\ heap[i] = 1
  BY <1>1 DEF OInv, NameInv
<1> QED BY <1>2 DEF OInv, NameInv

\* The peer asks for an acknowledgement.
LEMMA OnAcknowledgedKeeps ==
  ASSUME OInv, NEW type \in AckTypes, OnAcknowledged(type)
  PROVE  OInv'
<1>1. /\ TypeOK /\ QueueInv /\ StreamInv /\ NameInv /\ ItemsOwned /\ FloodCounted
      /\ events < MaxEvents /\ events' = events + 1 /\ events' \in Nat /\ pc = "idle"
      /\ strm' = strm /\ aob' = aob /\ pc' = pc /\ goaway' = goaway
  BY DEF OInv, FloodCounted, TypeOK, OnAcknowledged, Receives, Event, Calm
<1> USE <1>1
<1>2. CASE UNCHANGED <<urgent, reg, flood, heap>>
  <2>1. TypeOK'
    BY <1>2 DEF TypeOK
  <2>2. QueueInv' /\ FloodCounted'
    BY <1>2, <2>1, FloodSame DEF QueueInv
  <2>3. StreamInv'
    BY <1>2, StreamsSame
  <2>4. NameInv'
    BY <1>2, NamesSame
  <2>5. ItemsOwned'
    <3>1. Held' = Held
      BY <1>2 DEF Held
    <3> QED BY <1>2, <3>1, OwnSame
  <2> QED BY <2>1, <2>2, <2>3, <2>4, <2>5 DEF OInv
<1>3. CASE /\ ~AckRefused /\ AddItem(New(type, 0)) /\ flood' = flood + 1
  <2> DEFINE i == New(type, 0)
  <2>1. Numbered(type, 0)
    BY DEF NameInv, AckTypes
  <2>2. /\ i \in Items /\ i \notin DOMAIN heap /\ i.type = type /\ i.s = 0
        /\ \E k \in 0 .. events + 1 :
             {j \in DOMAIN heap \cup {i} : j.type = type /\ j.s = 0} = {Item(type, 0, j) : j \in 1 .. k}
    BY <2>1, NewItem
  <2> HIDE DEF i
  <2>3. /\ heap' = Alloc(heap, i) /\ urgent' = Append(urgent, i) /\ reg' = reg
        /\ IsAck(i) /\ IsUrgent(i)
    BY <1>3, <2>2 DEF AddItem, IsUrgent, IsAck, AckTypes, i
  <2>4. urgent \in Seq(Items) /\ flood \in Nat
    BY DEF TypeOK
  <2>5. i \notin Held
    <3>1. i # None
      BY <2>2, ItemKinds
    <3> QED BY <2>2, <3>1 DEF ItemsOwned
  <2>6. /\ urgent' \in Seq(Items) /\ Range(urgent') = Range(urgent) \cup {i}
        /\ i \notin Range(urgent) /\ i # aob.item
        /\ IsInjective(urgent')
    BY <2>2, <2>3, <2>4, <2>5, AppendItem DEF Held, QueueInv
  <2>7. ItemsOwned' /\ DOMAIN heap' = DOMAIN heap \cup {i} /\ \A j \in DOMAIN heap : heap[j] = 1 => heap'[j] = 1
    <3>1. Held' \cup {None} = Held \cup {i} \cup {None}
      <4>1. Attached' = Attached
        BY AttachedSame
      <4> QED BY <2>3, <2>6, <4>1, HeldIs
    <3> QED BY <2>2, <2>3, <3>1, OwnAdd
  <2>8. TypeOK'
    BY <2>2, <2>3, <2>4, <2>6, <2>7, <1>3 DEF TypeOK
  <2>9. QueueInv'
    BY <2>2, <2>3, <2>6 DEF QueueInv
  <2>10. StreamInv'
    BY <2>3, StreamsSame
  <2>11. NameInv'
    <3>1. Numbered(type, 0)'
      BY <2>2, <2>7 DEF Numbered
    <3> DEFINE A == {i}
    <3>2. A \in SUBSET Items /\ DOMAIN heap' = DOMAIN heap \cup A /\ \A j \in A : j.type = type /\ j.s = 0
      BY <2>2, <2>7
    <3> HIDE DEF A
    <3>3. /\ \A j \in A : j.type \in AckTypes \cup {"RST_STREAM"} => Numbered(j.type, j.s)'
          /\ \A j \in A : j.type # "GOAWAY" /\ j.type # "HEADERS" /\ j.type # "DATA"
      BY <3>1, <3>2 DEF AckTypes
    <3>4. events <= events' /\ events' <= MaxEvents /\ goaway \subseteq goaway'
      BY OutboundAssumption DEF TypeOK
    <3> QED BY <2>7, <3>2, <3>3, <3>4, NamesStep
  <2>12. FloodCounted'
    <3>1. flood < MaxFlood
      BY <1>3, <2>4, OutboundAssumption DEF AckRefused
    <3> QED BY <1>3, <2>2, <2>3, <2>6, <2>8, <3>1, FloodAdd
  <2> QED BY <2>7, <2>8, <2>9, <2>10, <2>11, <2>12 DEF OInv
<1> QED BY <1>2, <1>3 DEF OnAcknowledged

\* Queues and memory stay as they are: what the parts that concern them say.
LEMMA QuietQueues ==
  ASSUME OInv, UNCHANGED <<urgent, reg, flood, heap>>, aob'.item = aob.item,
         events' = events \/ (events < MaxEvents /\ events' = events + 1),
         goaway \subseteq goaway', pc' # "deleted" => pc # "deleted",
         \A x \in Streams : strm'[x].item = strm[x].item,
         \A x \in Streams : strm'[x].st = "IDLE" => strm[x].st = "IDLE",
         StreamInv', TypeOK'
  PROVE  OInv'
<1>1. TypeOK /\ QueueInv /\ StreamInv /\ NameInv /\ ItemsOwned /\ FloodCounted
  BY DEF OInv, FloodCounted
<1>2. QueueInv'
  BY <1>1 DEF QueueInv
<1>3. ItemsOwned'
  <2>1. Attached' = Attached
    BY AttachedSame
  <2>2. Held' \cup {None} = Held \cup {None}
    BY <2>1, HeldIs
  <2> QED BY <1>1, <2>2, OwnSame
<1>4. NameInv'
  BY <1>1, NamesSame
<1>5. FloodCounted'
  BY <1>1, FloodSame
<1> QED BY <1>2, <1>3, <1>4, <1>5 DEF OInv

\* A request opens a stream.
LEMMA OnRequestKeeps ==
  ASSUME OInv, NEW s \in Streams, OnRequest(s)
  PROVE  OInv'
<1>1. /\ TypeOK /\ QueueInv /\ StreamInv /\ NameInv /\ ItemsOwned
      /\ events < MaxEvents /\ events' = events + 1 /\ events' \in Nat
      /\ aob' = aob /\ pc' = pc /\ goaway' = goaway /\ UNCHANGED <<urgent, reg, flood, heap>>
      /\ strm[s].st = "IDLE" /\ strm' = [strm EXCEPT ![s].st = "OPENING"]
  BY DEF OInv, FloodCounted, TypeOK, OnRequest, Receives, Event, Calm
<1> DEFINE e == [strm[s] EXCEPT !.st = "OPENING"]
<1>2. strm[s] \in StreamRecord
  BY <1>1 DEF TypeOK, StreamRecord
<1>3. e \in StreamRecord /\ e.st = "OPENING" /\ e.item = strm[s].item /\ e.left = strm[s].left
  BY <1>2 DEF StreamRecord
<1>4. strm' = [strm EXCEPT ![s] = e]
  BY <1>1
<1> HIDE DEF e
<1>5. strm' \in [Streams -> StreamRecord] /\ strm'[s] = e /\ \A x \in Streams \ {s} : strm'[x] = strm[x]
  BY <1>1, <1>3, <1>4, StreamChange
<1>6. TypeOK'
  BY <1>1, <1>5 DEF TypeOK, StreamRecord
<1>7. aob.item # Data(s)
  BY <1>1, DataAfterHeaders, HeldIs
<1>8. StreamOwes(s)'
  <2>1. StreamOwes(s) /\ ~Live(s)
    BY <1>1 DEF StreamInv, Live
  <2> QED BY <1>1, <1>3, <1>5, <1>7, <2>1 DEF StreamOwes
<1>9. StreamInv'
  BY <1>1, <1>5, <1>8, OthersOwe
<1>10. /\ \A x \in Streams : strm'[x].item = strm[x].item
       /\ \A x \in Streams : strm'[x].st = "IDLE" => strm[x].st = "IDLE"
  <2>1. ASSUME NEW x \in Streams
        PROVE  strm'[x].item = strm[x].item /\ (strm'[x].st = "IDLE" => strm[x].st = "IDLE")
    BY <1>1, <1>3, <1>5
  <2> QED BY <2>1
<1> QED BY <1>1, <1>6, <1>9, <1>10, QuietQueues

\* A window opens.
LEMMA OnWindowUpdateKeeps ==
  ASSUME OInv, NEW s \in Streams, OnWindowUpdate(s)
  PROVE  OInv'
<1>1. /\ TypeOK /\ QueueInv /\ StreamInv /\ NameInv /\ ItemsOwned
      /\ events < MaxEvents /\ events' = events + 1 /\ events' \in Nat
      /\ aob' = aob /\ pc' = pc /\ goaway' = goaway /\ UNCHANGED <<urgent, reg, flood, heap>>
      /\ strm' = [strm EXCEPT ![s].win = @ + 1, ![s].deferred = FALSE]
  BY DEF OInv, FloodCounted, TypeOK, OnWindowUpdate, Receives, Event, Calm
<1> DEFINE d == [strm[s] EXCEPT !.win = strm[s].win + 1]
           e == [d EXCEPT !.deferred = FALSE]
<1>2. strm[s] \in StreamRecord
  BY <1>1 DEF TypeOK, StreamRecord
<1>3. d \in StreamRecord /\ d.st = strm[s].st /\ d.item = strm[s].item /\ d.left = strm[s].left
      /\ d.win = strm[s].win + 1
  BY <1>2 DEF StreamRecord
<1>4. strm' = [strm EXCEPT ![s] = e]
  BY <1>1 DEF TypeOK
<1> HIDE DEF d
<1>5. e \in StreamRecord /\ e.st = strm[s].st /\ e.item = strm[s].item /\ e.left = strm[s].left
      /\ e.win = strm[s].win + 1
  BY <1>3 DEF StreamRecord
<1> HIDE DEF e
<1>6. strm' \in [Streams -> StreamRecord] /\ strm'[s] = e /\ \A x \in Streams \ {s} : strm'[x] = strm[x]
  BY <1>1, <1>4, <1>5, StreamChange
<1>7. TypeOK'
  BY <1>1, <1>6 DEF TypeOK, StreamRecord
<1>8. StreamOwes(s)'
  <2>1. StreamOwes(s) /\ strm[s].win \in Nat
    BY <1>1, <1>2 DEF StreamInv, StreamRecord
  <2>2. Live(s) => Live(s)'
    BY <1>5, <1>6 DEF Live
  <2>3. Live(s)' => Live(s)
    BY <1>5, <1>6 DEF Live
  <2> QED BY <1>1, <1>5, <1>6, <2>1, <2>2, <2>3 DEF StreamOwes
<1>9. StreamInv'
  BY <1>1, <1>6, <1>8, OthersOwe
<1>10. /\ \A x \in Streams : strm'[x].item = strm[x].item
       /\ \A x \in Streams : strm'[x].st = "IDLE" => strm[x].st = "IDLE"
  BY <1>1, <1>5, <1>6
<1> QED BY <1>1, <1>7, <1>9, <1>10, QuietQueues

\* The peer says goodbye.
LEMMA OnGoawayKeeps ==
  ASSUME OInv, OnGoaway
  PROVE  OInv'
<1>1. /\ TypeOK /\ StreamInv /\ events < MaxEvents /\ events' = events + 1 /\ events' \in Nat
      /\ aob' = aob /\ pc' = pc /\ strm' = strm /\ UNCHANGED <<urgent, reg, flood, heap>>
      /\ goaway' = goaway \cup {"RECV"}
  BY DEF OInv, FloodCounted, TypeOK, OnGoaway, Receives, Event, Calm
<1>2. TypeOK'
  BY <1>1 DEF TypeOK
<1>3. StreamInv'
  BY <1>1, StreamsSame
<1> QED BY <1>1, <1>2, <1>3, QuietQueues

\* A stream is closed.
LEMMA ClosedStream ==
  ASSUME TypeOK, NEW s \in Streams, strm' = Closed(s)
  PROVE  /\ strm' \in [Streams -> StreamRecord] /\ \A x \in Streams \ {s} : strm'[x] = strm[x]
         /\ strm'[s].st = "CLOSED" /\ strm'[s].item = FALSE /\ strm'[s].left = strm[s].left
<1> DEFINE c == [strm[s] EXCEPT !.st = "CLOSED"]
           d == [c EXCEPT !.item = FALSE]
           e == [d EXCEPT !.deferred = FALSE]
<1>1. strm \in [Streams -> StreamRecord] /\ strm[s] \in StreamRecord
  BY DEF TypeOK, StreamRecord
<1>2. strm' = [strm EXCEPT ![s] = e]
  BY <1>1 DEF Closed
<1>3. c \in StreamRecord /\ c.st = "CLOSED" /\ c.left = strm[s].left
  BY <1>1 DEF StreamRecord
<1> HIDE DEF c
<1>4. d \in StreamRecord /\ d.st = "CLOSED" /\ d.left = strm[s].left /\ d.item = FALSE
  BY <1>3 DEF StreamRecord
<1> HIDE DEF d
<1>5. e \in StreamRecord /\ e.st = "CLOSED" /\ e.left = strm[s].left /\ e.item = FALSE
  BY <1>4 DEF StreamRecord
<1> HIDE DEF e
<1> QED BY <1>2, <1>5, StreamChange

\* A stream is closed, and its DATA item freed if it is not being sent, together with G, the
\* item whose frame closed it.
LEMMA CloseKeeps ==
  ASSUME OInv, NEW s \in Streams, strm' = Closed(s), NEW G \in SUBSET {aob.item}, None \notin G,
         heap' = Free(heap, G \cup ItemGone(s)), UNCHANGED <<urgent, reg>>,
         G = {} => aob'.item = aob.item, G # {} => aob'.item = None,
         \A x \in Streams : Data(x) \notin G
  PROVE  /\ QueueInv' /\ StreamInv' /\ ItemsOwned' /\ DOMAIN heap' = DOMAIN heap
         /\ \A i \in DOMAIN heap : heap[i] = 1 => heap'[i] = 1
         /\ strm' \in [Streams -> StreamRecord]
         /\ \A x \in Streams : strm'[x].st = "IDLE" => strm[x].st = "IDLE"
<1>1. TypeOK /\ QueueInv /\ StreamInv /\ NameInv /\ ItemsOwned
  BY DEF OInv, FloodCounted
<1>2. /\ strm' \in [Streams -> StreamRecord] /\ \A x \in Streams \ {s} : strm'[x] = strm[x]
      /\ strm'[s].st = "CLOSED" /\ strm'[s].item = FALSE /\ strm'[s].left = strm[s].left
  BY <1>1, ClosedStream
<1>3. aob'.item = aob.item \/ (aob'.item = None /\ G = {aob.item})
  OBVIOUS
<1>4. \A x : Data(x) # None
  BY DEF Data, None, Item
<1>5. None \notin Range(urgent) \cup Range(reg)
  BY <1>1, ItemKinds DEF TypeOK, Range
<1>6. QueueInv'
  BY <1>1, <1>3, <1>5 DEF QueueInv
<1>7. StreamOwes(s)'
  <2>1. ~Live(s)'
    BY <1>2 DEF Live
  <2>2. ASSUME NEW i \in Range(reg') \cup {aob'.item}, i.type = "HEADERS", i.s = s
        PROVE  strm'[s].left > 0
    <3>1. i # None
      BY <2>2, ItemFields
    <3>2. i \in Range(reg) \cup {aob.item}
      BY <1>3, <2>2, <3>1
    <3> QED BY <1>1, <1>2, <2>2, <3>2 DEF StreamInv, StreamOwes
  <2> QED BY <1>2, <2>1, <2>2 DEF StreamOwes
<1>8. StreamInv'
  <2>1. \A x \in Streams \ {s} : aob'.item = Data(x) => aob.item = Data(x)
    BY <1>3, <1>4
  <2>2. \A x \in Streams \ {s} : aob.item = Data(x) => aob'.item = Data(x)
    BY <1>3
  <2>3. \A i \in Range(reg') \cup {aob'.item} : i.type = "HEADERS" =>
           i.s = s \/ i \in Range(reg) \cup {aob.item}
    BY <1>3, ItemFields
  <2> QED BY <1>1, <1>2, <1>7, <2>1, <2>2, <2>3, OthersOwe
<1>9. Held' \cup {None} = (Held \ (G \cup ItemGone(s))) \cup {None} /\ G \cup ItemGone(s) \in SUBSET Held
  <2>1. Attached' = Attached \ {Data(s)} /\ (Data(s) \in Attached => strm[s].item)
    BY <1>2, AttachedStep
  <2>2. Data(s) \notin Range(urgent) \cup Range(reg)
    BY <1>1, ItemFields DEF QueueInv, IsUrgent
  <2>3. strm[s].item => Data(s) \in Attached
    BY DEF Attached
  <2>4. G \cap (Range(urgent) \cup Range(reg)) = {}
    BY <1>1 DEF QueueInv
  <2>5. G \cap Attached = {}
    BY DEF Attached
  <2>6. ItemGone(s) = IF Data(s) \in Attached /\ aob.item # Data(s) THEN {Data(s)} ELSE {}
    BY <2>1, <2>3 DEF ItemGone
  <2>7. ASSUME aob.item = Data(s)
        PROVE  Held' \cup {None} = (Held \ (G \cup ItemGone(s))) \cup {None} /\ G \cup ItemGone(s) \in SUBSET Held
    <3>1. ItemGone(s) = {} /\ G = {} /\ aob'.item = aob.item
      BY <2>6, <2>7
    <3>2. Held' = Held
      BY <2>1, <2>7, <3>1, HeldIs
    <3> QED BY <3>1, <3>2
  <2>8. ASSUME aob.item # Data(s)
        PROVE  Held' \cup {None} = (Held \ (G \cup ItemGone(s))) \cup {None} /\ G \cup ItemGone(s) \in SUBSET Held
    <3>1. Attached' = Attached \ ItemGone(s) /\ ItemGone(s) \subseteq Attached /\ ItemGone(s) \subseteq {Data(s)}
      BY <2>1, <2>6, <2>8
    <3>2. ItemGone(s) \cap (Range(urgent) \cup Range(reg) \cup {aob.item}) = {}
      BY <2>2, <2>8, <3>1
    <3>3. CASE G = {}
      BY <3>1, <3>2, <3>3, HeldIs
    <3>4. CASE G = {aob.item}
      BY <2>4, <2>5, <3>1, <3>2, <3>4, HeldIs
    <3> QED BY <3>3, <3>4
  <2> QED BY <2>7, <2>8
<1>10. ItemsOwned' /\ DOMAIN heap' = DOMAIN heap /\ \A i \in DOMAIN heap : heap[i] = 1 => heap'[i] = 1
  <2>1. None \notin G \cup ItemGone(s)
    BY <1>4 DEF ItemGone
  <2> QED BY <1>1, <1>9, <2>1, OwnFree
<1>11. \A x \in Streams : strm'[x].st = "IDLE" => strm[x].st = "IDLE"
  <2>1. ASSUME NEW x \in Streams PROVE strm'[x].st = "IDLE" => strm[x].st = "IDLE"
    BY <1>2
  <2> QED BY <2>1
<1> QED BY <1>2, <1>6, <1>8, <1>10, <1>11

\* The peer resets a stream.
LEMMA OnRstKeeps ==
  ASSUME OInv, NEW s \in Streams, OnRst(s)
  PROVE  OInv'
<1>1. /\ TypeOK /\ NameInv /\ FloodCounted
      /\ events < MaxEvents /\ events' = events + 1 /\ events' \in Nat
      /\ aob' = aob /\ pc' = pc /\ strm' = Closed(s) /\ heap' = Free(heap, ItemGone(s))
      /\ UNCHANGED <<urgent, reg, flood, goaway>>
  BY DEF OInv, FloodCounted, TypeOK, OnRst, Receives, Event, Calm
<1> DEFINE G == {}
<1>2. /\ G \in SUBSET {aob.item} /\ None \notin G /\ heap' = Free(heap, G \cup ItemGone(s))
      /\ (G = {} => aob'.item = aob.item) /\ (G # {} => aob'.item = None)
      /\ \A x \in Streams : Data(x) \notin G
  BY <1>1
<1> HIDE DEF G
<1>3. /\ QueueInv' /\ StreamInv' /\ ItemsOwned' /\ DOMAIN heap' = DOMAIN heap
      /\ \A i \in DOMAIN heap : heap[i] = 1 => heap'[i] = 1
      /\ strm' \in [Streams -> StreamRecord]
      /\ \A x \in Streams : strm'[x].st = "IDLE" => strm[x].st = "IDLE"
  BY <1>1, <1>2, CloseKeeps
<1>4. TypeOK'
  BY <1>1, <1>3 DEF TypeOK, StreamRecord
<1>5. NameInv'
  BY <1>1, <1>3, NamesSame
<1>6. FloodCounted'
  BY <1>1, <1>4, FloodSame
<1> QED BY <1>3, <1>5, <1>6 DEF OInv

\* An item goes to the regular queue.
LEMMA RegAdds ==
  ASSUME OInv, NEW i \in Items, i \notin DOMAIN heap, i.type \in {"GOAWAY", "RST_STREAM", "HEADERS"},
         AddItem(i), aob' = aob, \A x \in Streams : strm'[x].item = strm[x].item
  PROVE  /\ urgent' = urgent /\ reg' \in Seq(Items) /\ Range(reg') = Range(reg) \cup {i}
         /\ QueueInv' /\ ItemsOwned' /\ DOMAIN heap' = DOMAIN heap \cup {i}
         /\ \A j \in DOMAIN heap : heap[j] = 1 => heap'[j] = 1
<1>1. /\ TypeOK /\ QueueInv /\ ItemsOwned /\ urgent' = urgent /\ reg' = Append(reg, i)
      /\ heap' = Alloc(heap, i) /\ reg \in Seq(Items)
  BY DEF OInv, FloodCounted, TypeOK, AddItem, IsUrgent
<1>2. i \notin Held
  <2>1. i # None
    BY ItemKinds
  <2> QED BY <1>1, <2>1 DEF ItemsOwned
<1>3. /\ reg' \in Seq(Items) /\ Range(reg') = Range(reg) \cup {i} /\ IsInjective(reg')
      /\ i \notin Range(urgent) /\ i \notin Range(reg) /\ i # aob.item
  <2>1. i \notin Range(urgent) /\ i \notin Range(reg) /\ i # aob.item
    BY <1>2, HeldIs
  <2> QED BY <1>1, <2>1, AppendItem DEF QueueInv
<1>4. QueueInv'
  BY <1>1, <1>3 DEF QueueInv
<1>5. Held' \cup {None} = Held \cup {i} \cup {None}
  <2>1. Attached' = Attached
    BY AttachedSame
  <2> QED BY <1>1, <1>3, <2>1, HeldIs
<1>6. ItemsOwned' /\ DOMAIN heap' = DOMAIN heap \cup {i} /\ \A j \in DOMAIN heap : heap[j] = 1 => heap'[j] = 1
  BY <1>1, <1>5, OwnAdd
<1> QED BY <1>1, <1>3, <1>4, <1>6

\* A stream is about to be reset.
LEMMA AddRstStreamKeeps ==
  ASSUME OInv, NEW s \in Streams, AddRstStream(s)
  PROVE  OInv'
<1> DEFINE i == New("RST_STREAM", s)
           e == [strm[s] EXCEPT !.st = "CLOSING"]
<1>1. /\ TypeOK /\ NameInv /\ StreamInv /\ FloodCounted
      /\ events < MaxEvents /\ events' = events + 1 /\ events' \in Nat
      /\ aob' = aob /\ pc' = pc /\ AddItem(i) /\ strm' = [strm EXCEPT ![s] = e]
      /\ UNCHANGED <<flood, goaway>> /\ Live(s)
  BY DEF OInv, FloodCounted, TypeOK, AddRstStream, Receives, Event, Calm
<1>2. /\ i \in Items /\ i \notin DOMAIN heap /\ i.type = "RST_STREAM" /\ i.s = s
      /\ \E k \in 0 .. events + 1 :
           {j \in DOMAIN heap \cup {i} : j.type = "RST_STREAM" /\ j.s = s}
             = {Item("RST_STREAM", s, j) : j \in 1 .. k}
  <2>1. Numbered("RST_STREAM", s)
    BY <1>1 DEF NameInv
  <2> QED BY <1>1, <2>1, NewItem
<1> HIDE DEF i
<1>3. strm[s] \in StreamRecord
  BY <1>1 DEF TypeOK, StreamRecord
<1>4. e \in StreamRecord /\ e.st = "CLOSING" /\ e.item = strm[s].item /\ e.left = strm[s].left
      /\ e.win = strm[s].win
  BY <1>3 DEF StreamRecord
<1> HIDE DEF e
<1>5. strm' \in [Streams -> StreamRecord] /\ strm'[s] = e /\ \A x \in Streams \ {s} : strm'[x] = strm[x]
  BY <1>1, <1>4, StreamChange
<1>6. \A x \in Streams : strm'[x].item = strm[x].item
  <2>1. ASSUME NEW x \in Streams PROVE strm'[x].item = strm[x].item
    BY <1>4, <1>5
  <2> QED BY <2>1
<1>7. /\ urgent' = urgent /\ reg' \in Seq(Items) /\ Range(reg') = Range(reg) \cup {i}
      /\ QueueInv' /\ ItemsOwned' /\ DOMAIN heap' = DOMAIN heap \cup {i}
      /\ \A j \in DOMAIN heap : heap[j] = 1 => heap'[j] = 1
  <2>1. i.type \in {"GOAWAY", "RST_STREAM", "HEADERS"}
    BY <1>2
  <2> QED BY <1>1, <1>2, <1>6, <2>1, RegAdds
<1>8. TypeOK'
  BY <1>1, <1>2, <1>5, <1>7 DEF TypeOK, StreamRecord
<1>9. StreamInv'
  <2>1. StreamOwes(s)'
    <3>1. StreamOwes(s) /\ Live(s)'
      BY <1>1, <1>4, <1>5 DEF StreamInv, Live
    <3> QED BY <1>1, <1>2, <1>4, <1>5, <1>7, <3>1 DEF StreamOwes
  <2> QED BY <1>1, <1>2, <1>5, <1>7, <2>1, OthersOwe
<1>10. NameInv'
  <2> DEFINE A == {i}
  <2>1. A \in SUBSET Items /\ DOMAIN heap' = DOMAIN heap \cup A /\ \A j \in A : j.type = "RST_STREAM" /\ j.s = s
    BY <1>2, <1>7
  <2> HIDE DEF A
  <2>2. Numbered("RST_STREAM", s)'
    BY <1>1, <1>2, <1>7 DEF Numbered
  <2>3. /\ \A j \in A : j.type \in AckTypes \cup {"RST_STREAM"} => Numbered(j.type, j.s)'
        /\ \A j \in A : j.type # "GOAWAY" /\ j.type # "HEADERS" /\ j.type # "DATA"
    BY <2>1, <2>2
  <2>4. events <= events' /\ events' <= MaxEvents /\ goaway \subseteq goaway'
    BY <1>1, OutboundAssumption DEF TypeOK
  <2>5. \A x \in Streams : strm'[x].st = "IDLE" => strm[x].st = "IDLE"
    <3>1. ASSUME NEW x \in Streams PROVE strm'[x].st = "IDLE" => strm[x].st = "IDLE"
      BY <1>4, <1>5
    <3> QED BY <3>1
  <2> QED BY <1>1, <1>7, <2>1, <2>3, <2>4, <2>5, NamesStep
<1>11. FloodCounted'
  BY <1>1, <1>7, <1>8, FloodSame
<1> QED BY <1>7, <1>9, <1>10, <1>11 DEF OInv

\* The session is to be terminated.
LEMMA TerminateKeeps ==
  ASSUME OInv, Terminate
  PROVE  OInv'
<1> DEFINE i == Item("GOAWAY", 0, 0)
<1>1. /\ TypeOK /\ NameInv /\ StreamInv /\ FloodCounted
      /\ events < MaxEvents /\ events' = events + 1 /\ events' \in Nat
      /\ aob' = aob /\ pc' = pc /\ AddItem(i) /\ strm' = strm
      /\ flood' = flood /\ "TERM_ON_SEND" \notin goaway /\ goaway' = goaway \cup {"TERM_ON_SEND"}
  BY DEF OInv, FloodCounted, TypeOK, Terminate, Receives, Event, Calm
<1>2. i \in Items /\ i \notin DOMAIN heap /\ i.type = "GOAWAY"
  BY <1>1, ItemFields DEF Items, NameInv
<1> HIDE DEF i
<1>3. /\ urgent' = urgent /\ reg' \in Seq(Items) /\ Range(reg') = Range(reg) \cup {i}
      /\ QueueInv' /\ ItemsOwned' /\ DOMAIN heap' = DOMAIN heap \cup {i}
      /\ \A j \in DOMAIN heap : heap[j] = 1 => heap'[j] = 1
  <2>1. i.type \in {"GOAWAY", "RST_STREAM", "HEADERS"} /\ \A x \in Streams : strm'[x].item = strm[x].item
    BY <1>1, <1>2
  <2> QED BY <1>1, <1>2, <2>1, RegAdds
<1>4. TypeOK'
  BY <1>1, <1>2, <1>3 DEF TypeOK
<1>5. StreamInv'
  BY <1>1, <1>2, <1>3, StreamsSame
<1>6. NameInv'
  <2> DEFINE A == {i}
  <2>1. A \in SUBSET Items /\ DOMAIN heap' = DOMAIN heap \cup A /\ \A j \in A : j.type = "GOAWAY"
    BY <1>2, <1>3
  <2> HIDE DEF A
  <2>2. /\ \A j \in A : j.type # "HEADERS" /\ j.type # "DATA" /\ j.type \notin AckTypes \cup {"RST_STREAM"}
        /\ \A j \in A : j.type = "GOAWAY" => "TERM_ON_SEND" \in goaway'
    BY <1>1, <2>1 DEF AckTypes
  <2>3. events <= events' /\ events' <= MaxEvents /\ goaway \subseteq goaway'
    BY <1>1, OutboundAssumption DEF TypeOK
  <2> QED BY <1>1, <1>3, <2>1, <2>2, <2>3, NamesStep
<1>7. FloodCounted'
  BY <1>1, <1>3, <1>4, FloodSame
<1> QED BY <1>3, <1>5, <1>6, <1>7 DEF OInv

\* A response is submitted.
LEMMA SubmitResponseKeeps ==
  ASSUME OInv, NEW s \in Streams, NEW block \in Blocks, NEW body \in Bodies, SubmitResponse(s, block, body)
  PROVE  OInv'
<1> DEFINE i == Item("HEADERS", s, block)
           e == [strm[s] EXCEPT !.left = body]
<1>1. /\ TypeOK /\ NameInv /\ StreamInv /\ FloodCounted
      /\ events < MaxEvents /\ events' = events + 1 /\ events' \in Nat
      /\ aob' = aob /\ pc' = pc /\ AddItem(i) /\ strm' = [strm EXCEPT ![s] = e]
      /\ UNCHANGED <<flood, goaway>> /\ strm[s].st # "IDLE" /\ strm[s].left = 0
      /\ \A j \in DOMAIN heap : ~(j.type = "HEADERS" /\ j.s = s)
  BY DEF OInv, FloodCounted, TypeOK, SubmitResponse, Event, Calm
<1>2. i \in Items /\ i.type = "HEADERS" /\ i.s = s
  BY ItemFields DEF Items
<1>3. i \notin DOMAIN heap
  BY <1>1, <1>2
<1> HIDE DEF i
<1>4. strm[s] \in StreamRecord /\ body \in Nat /\ body > 0
  BY <1>1, OutboundAssumption DEF TypeOK, StreamRecord
<1>5. e \in StreamRecord /\ e.st = strm[s].st /\ e.item = strm[s].item /\ e.left = body /\ e.win = strm[s].win
  BY <1>4 DEF StreamRecord
<1> HIDE DEF e
<1>6. strm' \in [Streams -> StreamRecord] /\ strm'[s] = e /\ \A x \in Streams \ {s} : strm'[x] = strm[x]
  BY <1>1, <1>5, StreamChange
<1>7. /\ \A x \in Streams : strm'[x].item = strm[x].item
      /\ \A x \in Streams : strm'[x].st = strm[x].st
  <2>1. ASSUME NEW x \in Streams PROVE strm'[x].item = strm[x].item /\ strm'[x].st = strm[x].st
    BY <1>5, <1>6
  <2> QED BY <2>1
<1>8. /\ urgent' = urgent /\ reg' \in Seq(Items) /\ Range(reg') = Range(reg) \cup {i}
      /\ QueueInv' /\ ItemsOwned' /\ DOMAIN heap' = DOMAIN heap \cup {i}
      /\ \A j \in DOMAIN heap : heap[j] = 1 => heap'[j] = 1
  <2>1. i.type \in {"GOAWAY", "RST_STREAM", "HEADERS"}
    BY <1>2
  <2> QED BY <1>1, <1>2, <1>3, <1>7, <2>1, RegAdds
<1>9. TypeOK'
  BY <1>1, <1>2, <1>6, <1>8 DEF TypeOK, StreamRecord
<1>10. StreamInv'
  <2>1. StreamOwes(s)'
    <3>1. StreamOwes(s) /\ (Live(s) => Live(s)') /\ (Live(s)' => Live(s))
      BY <1>1, <1>5, <1>6 DEF StreamInv, Live
    <3> QED BY <1>1, <1>4, <1>5, <1>6, <3>1 DEF StreamOwes
  <2> QED BY <1>1, <1>2, <1>6, <1>8, <2>1, OthersOwe
<1>11. NameInv'
  <2> DEFINE A == {i}
  <2>1. A \in SUBSET Items /\ DOMAIN heap' = DOMAIN heap \cup A /\ \A j \in A : j = i
    BY <1>2, <1>8
  <2> HIDE DEF A
  <2>2. /\ \A j \in A : j.type \notin AckTypes \cup {"RST_STREAM"} /\ j.type # "GOAWAY" /\ j.type # "DATA"
        /\ \A j \in A : j.type = "HEADERS" =>
             strm'[j.s].st # "IDLE" /\ \A l \in DOMAIN heap \cup A : l.type = "HEADERS" /\ l.s = j.s => l = j
    <3>1. strm'[i.s].st # "IDLE"
      BY <1>1, <1>2, <1>7
    <3> QED BY <1>1, <1>2, <2>1, <3>1 DEF AckTypes
  <2>3. events <= events' /\ events' <= MaxEvents /\ goaway \subseteq goaway'
    BY <1>1, OutboundAssumption DEF TypeOK
  <2> QED BY <1>1, <1>7, <1>8, <2>1, <2>2, <2>3, NamesStep
<1>12. FloodCounted'
  BY <1>1, <1>8, <1>9, FloodSame
<1> QED BY <1>8, <1>10, <1>11, <1>12 DEF OInv

AobRecord == [item : Items \cup {None}, chunks : Nat, cur : Nat \ {0}, pos : 0 .. FrameOctets]

\* The frame that was packed, or that there is none.
LEMMA AobAfter ==
  ASSUME TypeOK
  PROVE  /\ aob' = NoItem => aob' \in AobRecord /\ aob'.item = None
         /\ \A i \in Items, n \in Nat : Pack(i, n) => aob' \in AobRecord /\ aob'.item = i
<1>1. 0 \in 0 .. FrameOctets /\ aob \in AobRecord
  BY OutboundAssumption DEF TypeOK, AobRecord
<1>2. aob' = NoItem => aob' \in AobRecord /\ aob'.item = None
  BY <1>1 DEF NoItem, AobRecord
<1>3. ASSUME NEW i \in Items, NEW n \in Nat, Pack(i, n) PROVE aob' \in AobRecord /\ aob'.item = i
  <2> DEFINE c == IF aob.chunks > n THEN aob.chunks ELSE n
  <2>1. c \in Nat
    BY <1>1 DEF AobRecord
  <2>2. aob' = [item |-> i, chunks |-> c, cur |-> 1, pos |-> 0]
    BY <1>3 DEF Pack
  <2> HIDE DEF c
  <2> QED BY <1>1, <2>1, <2>2 DEF AobRecord
<1> QED BY <1>2, <1>3

\* The session is deleted, with whatever it holds.
LEMMA SessionDelKeeps ==
  ASSUME OInv, SessionDel
  PROVE  OInv'
<1>1. /\ TypeOK /\ NameInv /\ ItemsOwned
      /\ pc' = "deleted" /\ heap' = Free(heap, Held)
      /\ urgent' = << >> /\ reg' = << >> /\ aob' = NoItem
      /\ strm' = [s \in Streams |-> [strm[s] EXCEPT !.st = "CLOSED", !.item = FALSE]]
      /\ UNCHANGED <<flood, goaway, events>>
  BY DEF OInv, FloodCounted, SessionDel, outside
<1>2. ASSUME NEW s \in Streams
      PROVE  strm'[s] \in StreamRecord /\ strm'[s].st = "CLOSED" /\ strm'[s].item = FALSE
  <2> DEFINE d == [strm[s] EXCEPT !.st = "CLOSED"]
             e == [d EXCEPT !.item = FALSE]
  <2>1. strm[s] \in StreamRecord /\ strm'[s] = e
    BY <1>1 DEF TypeOK, StreamRecord
  <2>2. d \in StreamRecord /\ d.st = "CLOSED"
    BY <2>1 DEF StreamRecord
  <2> HIDE DEF d
  <2>3. e \in StreamRecord /\ e.st = "CLOSED" /\ e.item = FALSE
    BY <2>2 DEF StreamRecord
  <2> HIDE DEF e
  <2> QED BY <2>1, <2>3
<1>3. strm' \in [Streams -> StreamRecord]
  BY <1>1, <1>2
<1>4. Range(urgent') = {} /\ Range(reg') = {} /\ IsInjective(urgent') /\ IsInjective(reg')
      /\ urgent' \in Seq(Items) /\ reg' \in Seq(Items)
  BY <1>1, EmptyQueue
<1>5. aob'.item = None /\ aob' \in AobRecord
  BY <1>1, AobAfter
<1>6. DOMAIN heap' = DOMAIN heap
  BY <1>1 DEF Free
<1>7. TypeOK'
  BY <1>1, <1>3, <1>4, <1>5, <1>6 DEF TypeOK, StreamRecord, AobRecord
<1>8. QueueInv'
  BY <1>4 DEF QueueInv
<1>9. StreamInv'
  <2>1. ASSUME NEW s \in Streams PROVE StreamOwes(s)'
    BY <1>2, <1>4, <1>5, ItemFields DEF StreamOwes, Live
  <2> QED BY <2>1 DEF StreamInv
<1>10. ItemsOwned'
  <2> DEFINE G == Held \ {None}
  <2>1. None \notin DOMAIN heap
    BY <1>1, ItemKinds DEF TypeOK
  <2>2. heap' = Free(heap, G)
    BY <1>1, <2>1 DEF Free
  <2>3. Held' \cup {None} = (Held \ G) \cup {None}
    <3>1. Attached' = {}
      BY <1>2 DEF Attached
    <3> QED BY <1>4, <1>5, <3>1, HeldIs
  <2>4. G \in SUBSET Held /\ None \notin G
    OBVIOUS
  <2> HIDE DEF G
  <2> QED BY <1>1, <2>2, <2>3, <2>4, OwnFree
<1>11. NameInv'
  <2>1. \A i \in DOMAIN heap : heap[i] = 1 => heap'[i] = 1
    <3>1. ASSUME NEW i \in DOMAIN heap, heap[i] = 1 PROVE heap'[i] = 1
      <4>1. i \notin Held
        <5>1. heap[i] = IF i \in Held THEN 0 ELSE 1
          BY <1>1 DEF ItemsOwned
        <5> QED BY <3>1, <5>1
      <4>2. heap' = Free(heap, Held)
        BY <1>1
      <4> QED BY <3>1, <4>1, <4>2 DEF Free
    <3> QED BY <3>1
  <2>2. \A s \in Streams : strm'[s].st = "IDLE" => strm[s].st = "IDLE"
    BY <1>2
  <2> QED BY <1>1, <1>6, <2>1, <2>2, NamesSame
<1>12. FloodCounted'
  BY <1>1, <1>7 DEF FloodCounted
<1> QED BY <1>8, <1>9, <1>10, <1>11, <1>12 DEF OInv

-----------------------------------------------------------------------------
(* nghttp2_session_send. *)

\* It is called, and returns, and gives a part of a frame to the callback, and goes on to the
\* next frame of a header block.
LEMMA QuietSteps ==
  ASSUME OInv, SessionSend \/ SendDone \/ HeadersContinue \/ \E n \in Takes : Write(n)
  PROVE  OInv'
<1>1. TypeOK /\ StreamInv /\ aob \in AobRecord
  BY DEF OInv, FloodCounted, TypeOK, AobRecord
<1>2. /\ UNCHANGED <<urgent, reg, flood, heap, strm, goaway, events>>
      /\ pc' \in {"idle", "sending"} /\ pc # "deleted"
  BY <1>1 DEF SessionSend, SendDone, Pops, HeadersContinue, Sent, Sending, Write, outside, TypeOK
<1>3. aob'.item = aob.item /\ aob' \in AobRecord
  <2>1. CASE SessionSend \/ SendDone
    BY <1>1, <2>1 DEF SessionSend, SendDone
  <2>2. CASE HeadersContinue
    <3> DEFINE d == [aob EXCEPT !.cur = aob.cur + 1]
               e == [d EXCEPT !.pos = 0]
    <3>1. aob' = e
      BY <2>2 DEF HeadersContinue
    <3>2. d \in AobRecord /\ d.item = aob.item
      BY <1>1 DEF AobRecord
    <3> HIDE DEF d
    <3>3. 0 \in 0 .. FrameOctets
      BY OutboundAssumption
    <3>4. e \in AobRecord /\ e.item = aob.item
      BY <3>2, <3>3 DEF AobRecord
    <3> HIDE DEF e
    <3> QED BY <3>1, <3>4
  <2>3. CASE \E n \in Takes : Write(n)
    <3>1. PICK n \in Takes : Write(n)
      BY <2>3
    <3>2. aob' = [aob EXCEPT !.pos = aob.pos + n] /\ n <= FrameOctets - aob.pos
      BY <3>1 DEF Write, PosAfter
    <3>3. aob.pos \in 0 .. FrameOctets
      BY <1>1 DEF AobRecord
    <3>4. aob.pos + n \in 0 .. FrameOctets
      <4>1. FrameOctets \in Nat /\ n \in Nat
        BY OutboundAssumption
      <4> QED BY <3>2, <3>3, <4>1
    <3> QED BY <1>1, <3>2, <3>4 DEF AobRecord
  <2> QED BY <2>1, <2>2, <2>3
<1>4. TypeOK'
  BY <1>1, <1>2, <1>3 DEF TypeOK, AobRecord
<1>5. StreamInv'
  BY <1>1, <1>2, <1>3, StreamsSame
<1> QED BY <1>2, <1>3, <1>4, <1>5, QuietQueues

\* An item leaves a queue and is sent, or dropped.
LEMMA ItemTaken ==
  ASSUME TypeOK, NEW i \in Items, NEW n \in Nat,
         \/ Pack(i, n) /\ UNCHANGED heap
         \/ Drop(i)
  PROVE  /\ aob' \in AobRecord /\ aob'.item \in {i, None}
         /\ Freed({i} \ {aob'.item})
<1>1. ASSUME Drop(i) PROVE aob' \in AobRecord /\ aob'.item = None /\ Freed({i} \ {aob'.item})
  <2>1. aob' = NoItem /\ heap' = Free(heap, {i})
    BY <1>1 DEF Drop
  <2>2. aob' \in AobRecord /\ aob'.item = None
    BY <2>1, AobAfter
  <2>3. {i} \ {aob'.item} = {i}
    BY <2>2, ItemKinds
  <2> QED BY <2>1, <2>2, <2>3 DEF Freed, Free
<1>2. ASSUME Pack(i, n), UNCHANGED heap PROVE aob' \in AobRecord /\ aob'.item = i /\ Freed({i} \ {aob'.item})
  BY <1>2, AobAfter DEF Freed
<1> QED BY <1>1, <1>2

\* The rest of the invariant, when an item is taken from a queue.
LEMMA TakenKeeps ==
  ASSUME OInv, NEW i \in Items, NEW n \in Nat, (Pack(i, n) /\ UNCHANGED heap) \/ Drop(i),
         aob.item = None, UNCHANGED <<strm, goaway, events, pc>>,
         Range(urgent) \cup Range(reg) = Range(urgent') \cup Range(reg') \cup {i},
         i \notin Range(urgent') \cup Range(reg'), i.type # "DATA", i.type = "HEADERS" => i \in Range(reg),
         Range(urgent') \subseteq Range(urgent), Range(reg') \subseteq Range(reg),
         urgent' \in Seq(Items), reg' \in Seq(Items), IsInjective(urgent'), IsInjective(reg'), flood' \in Nat
  PROVE  TypeOK' /\ QueueInv' /\ StreamInv' /\ NameInv' /\ ItemsOwned'
<1>1. TypeOK /\ QueueInv /\ StreamInv /\ NameInv /\ ItemsOwned
  BY DEF OInv, FloodCounted
<1> DEFINE G == {i} \ {aob'.item}
<1>2. aob' \in AobRecord /\ aob'.item \in {i, None} /\ Freed(G)
  BY <1>1, ItemTaken
<1>3. \A x : Data(x) # i /\ Data(x) # None
  BY DEF Data, Item, None
<1>4. None \notin Range(urgent) \cup Range(reg)
  BY <1>1, ItemKinds DEF TypeOK, Range
<1>5. Held' \cup {None} = (Held \ G) \cup {None}
  <2>1. Attached' = Attached /\ i \notin Attached
    BY <1>3, AttachedSame DEF Attached
  <2>2. CASE aob'.item = i
    BY <2>1, <2>2, HeldIs
  <2>3. CASE aob'.item = None
    <3>1. G = {i}
      BY <2>3, ItemKinds
    <3> HIDE DEF G
    <3> QED BY <2>1, <2>3, <3>1, HeldIs
  <2> QED BY <1>2, <2>2, <2>3
<1>6. G \in SUBSET Held /\ None \notin G
  BY HeldIs, ItemKinds
<1> HIDE DEF G
<1>7. ItemsOwned' /\ DOMAIN heap' = DOMAIN heap /\ \A j \in DOMAIN heap : heap[j] = 1 => heap'[j] = 1
  BY <1>1, <1>2, <1>5, <1>6, OwnFree
<1>8. TypeOK'
  BY <1>1, <1>2, <1>7 DEF TypeOK, AobRecord
<1>9. QueueInv'
  <2>1. aob'.item \notin Range(urgent') \cup Range(reg')
    BY <1>2, <1>4
  <2> QED BY <1>1, <2>1 DEF QueueInv
<1>10. StreamInv'
  <2>1. \A j \in Range(reg') \cup {aob'.item} : j.type = "HEADERS" => j \in Range(reg) \cup {aob.item}
    BY <1>2, ItemFields
  <2> QED BY <1>1, <1>2, <1>3, <2>1, StreamsSame
<1>11. NameInv'
  BY <1>1, <1>7, NamesSame
<1> QED BY <1>7, <1>8, <1>9, <1>10, <1>11

\* The next of the urgent items.
LEMMA SendUrgentKeeps ==
  ASSUME OInv, SendUrgent
  PROVE  OInv'
<1> DEFINE i == Head(urgent)
           ok == i.type = "SETTINGS" \/ ~IsClosing(Tail(urgent), reg, None)
<1>1. /\ TypeOK /\ QueueInv /\ FloodCounted /\ aob.item = None /\ pc = "sending"
      /\ UNCHANGED <<strm, goaway, events, pc, reg>> /\ urgent # << >>
      /\ urgent' = Tail(urgent) /\ flood' = FloodAfter(i, ok)
      /\ (Pack(i, 1) /\ UNCHANGED heap) \/ Drop(i)
  BY DEF OInv, FloodCounted, SendUrgent, Pops, outside
<1> HIDE DEF ok
<1>2. /\ i \in Items /\ urgent' \in Seq(Items) /\ IsInjective(urgent')
      /\ Range(urgent) = Range(urgent') \cup {i} /\ i \notin Range(urgent')
  BY <1>1, TakeItem DEF TypeOK, QueueInv
<1>3. flood' \in Nat /\ (TypeOK' => FloodCounted')
  BY <1>1, FloodTake DEF QueueInv
<1> HIDE DEF i
<1>4. IsUrgent(i)
  BY <1>1, <1>2 DEF QueueInv
<1>5. i.type # "DATA" /\ i.type # "HEADERS" /\ i \notin Range(reg)
  BY <1>1, <1>4 DEF IsUrgent, QueueInv
<1>6. reg' \in Seq(Items) /\ IsInjective(reg') /\ Range(reg') = Range(reg)
  BY <1>1 DEF TypeOK, QueueInv
<1>7. 1 \in Nat
  OBVIOUS
<1>8. TypeOK' /\ QueueInv' /\ StreamInv' /\ NameInv' /\ ItemsOwned'
  <2>1. /\ Range(urgent) \cup Range(reg) = Range(urgent') \cup Range(reg') \cup {i}
        /\ i \notin Range(urgent') \cup Range(reg')
        /\ Range(urgent') \subseteq Range(urgent) /\ Range(reg') \subseteq Range(reg)
        /\ UNCHANGED <<strm, goaway, events, pc>>
    BY <1>1, <1>2, <1>5, <1>6
  <2> QED BY <1>1, <1>2, <1>3, <1>5, <1>6, <1>7, <2>1, TakenKeeps
<1> QED BY <1>3, <1>8 DEF OInv

\* The next of the regular items.
LEMMA SendRegKeeps ==
  ASSUME OInv, SendReg
  PROVE  OInv'
<1> DEFINE i == Head(reg)
           n == IF i.type = "HEADERS" THEN i.n ELSE 1
<1>1. /\ TypeOK /\ QueueInv /\ FloodCounted /\ aob.item = None /\ pc = "sending"
      /\ UNCHANGED <<strm, goaway, events, pc, urgent, flood>> /\ reg # << >>
      /\ reg' = Tail(reg)
      /\ (Pack(i, n) /\ UNCHANGED heap) \/ Drop(i)
  BY DEF OInv, FloodCounted, SendReg, Pops, outside
<1>2. /\ i \in Items /\ reg' \in Seq(Items) /\ IsInjective(reg')
      /\ Range(reg) = Range(reg') \cup {i} /\ i \notin Range(reg')
  BY <1>1, TakeItem DEF TypeOK, QueueInv
<1> HIDE DEF i
<1>3. n \in Nat
  BY <1>2, ItemKinds, OutboundAssumption
<1> HIDE DEF n
<1>4. i.type \in {"GOAWAY", "RST_STREAM", "HEADERS"} /\ i \in Range(reg)
  BY <1>1, <1>2 DEF QueueInv
<1>5. i.type # "DATA" /\ i \notin Range(urgent)
  BY <1>1, <1>4 DEF IsUrgent, QueueInv
<1>6. urgent' \in Seq(Items) /\ IsInjective(urgent') /\ Range(urgent') = Range(urgent) /\ flood' \in Nat
  BY <1>1 DEF TypeOK, QueueInv
<1>7. TypeOK' /\ QueueInv' /\ StreamInv' /\ NameInv' /\ ItemsOwned'
  <2>1. /\ Range(urgent) \cup Range(reg) = Range(urgent') \cup Range(reg') \cup {i}
        /\ i \notin Range(urgent') \cup Range(reg')
        /\ Range(urgent') \subseteq Range(urgent) /\ Range(reg') \subseteq Range(reg)
        /\ UNCHANGED <<strm, goaway, events, pc>>
    BY <1>1, <1>2, <1>5, <1>6
  <2> QED BY <1>1, <1>2, <1>3, <1>4, <1>5, <1>6, <2>1, TakenKeeps
<1>8. FloodCounted'
  BY <1>1, <1>7, FloodSame
<1> QED BY <1>7, <1>8 DEF OInv

\* What becomes of a DATA item and of its stream, which is e after the step
DataGoes(s, e) ==
  /\ strm' = [strm EXCEPT ![s] = e] /\ e.st = strm[s].st /\ e.win = strm[s].win
  /\ \/ e.item = FALSE /\ e.left = strm[s].left /\ Drop(Data(s))
     \/ e.item = TRUE /\ e.left = strm[s].left /\ aob' = NoItem /\ UNCHANGED heap
     \/ e.item = TRUE /\ strm[s].win > 0 /\ Pack(Data(s), 1) /\ UNCHANGED heap

\* The DATA of a stream: dropped with its item, deferred, or packed.
LEMMA SendDataKeeps ==
  ASSUME OInv, NEW s \in Streams, SendData(s)
  PROVE  OInv'
<1>1. /\ TypeOK /\ QueueInv /\ StreamInv /\ NameInv /\ ItemsOwned /\ FloodCounted
      /\ aob.item = None /\ pc = "sending"
      /\ UNCHANGED <<goaway, events, pc, urgent, reg, flood>> /\ strm[s].item /\ Live(s)
      /\ strm[s] \in StreamRecord
  BY DEF OInv, FloodCounted, TypeOK, StreamRecord, SendData, Pops, outside, Ready
<1>2. strm[s].left > 0 /\ strm[s].left - 1 \in Nat
  <2>1. Data(s) # None
    BY DEF Data, None, Item
  <2>2. strm[s].left > 0 /\ strm[s].left \in Nat
    BY <1>1, <2>1 DEF StreamInv, StreamOwes, StreamRecord
  <2> QED BY <2>2
<1>3. Data(s) \in Items /\ Data(s) # None /\ 1 \in Nat
  BY ItemFields DEF Items, None
<1>4. None \notin Range(urgent) \cup Range(reg) /\ Data(s) \notin Range(urgent) \cup Range(reg)
  <2>1. None \notin Range(urgent) \cup Range(reg)
    BY <1>1, ItemKinds DEF TypeOK, Range
  <2>2. Data(s) \notin Range(urgent) \cup Range(reg)
    BY <1>1, ItemFields DEF QueueInv, IsUrgent
  <2> QED BY <2>1, <2>2
<1>5. \E e \in StreamRecord : DataGoes(s, e)
  <2>1. ASSUME strm' = [strm EXCEPT ![s].item = FALSE], Drop(Data(s))
        PROVE  \E e \in StreamRecord : DataGoes(s, e)
    <3> DEFINE e == [strm[s] EXCEPT !.item = FALSE]
    <3>1. strm' = [strm EXCEPT ![s] = e]
      BY <2>1
    <3>2. e \in StreamRecord /\ e.st = strm[s].st /\ e.win = strm[s].win /\ e.left = strm[s].left /\ e.item = FALSE
      BY <1>1 DEF StreamRecord
    <3> HIDE DEF e
    <3> QED BY <2>1, <3>1, <3>2 DEF DataGoes
  <2>2. ASSUME strm' = [strm EXCEPT ![s].deferred = TRUE], aob' = NoItem, UNCHANGED heap
        PROVE  \E e \in StreamRecord : DataGoes(s, e)
    <3> DEFINE e == [strm[s] EXCEPT !.deferred = TRUE]
    <3>1. strm' = [strm EXCEPT ![s] = e]
      BY <2>2
    <3>2. e \in StreamRecord /\ e.st = strm[s].st /\ e.win = strm[s].win /\ e.left = strm[s].left
          /\ e.item = strm[s].item
      BY <1>1 DEF StreamRecord
    <3> HIDE DEF e
    <3> QED BY <1>1, <2>2, <3>1, <3>2 DEF DataGoes
  <2>3. ASSUME strm' = [strm EXCEPT ![s].left = @ - 1], strm[s].win > 0, Pack(Data(s), 1), UNCHANGED heap
        PROVE  \E e \in StreamRecord : DataGoes(s, e)
    <3> DEFINE e == [strm[s] EXCEPT !.left = strm[s].left - 1]
    <3>1. strm' = [strm EXCEPT ![s] = e]
      BY <2>3
    <3>2. e \in StreamRecord /\ e.st = strm[s].st /\ e.win = strm[s].win /\ e.item = strm[s].item
      BY <1>1, <1>2 DEF StreamRecord
    <3> HIDE DEF e
    <3> QED BY <1>1, <2>3, <3>1, <3>2 DEF DataGoes
  <2>4. \/ strm' = [strm EXCEPT ![s].item = FALSE] /\ Drop(Data(s))
        \/ strm' = [strm EXCEPT ![s].deferred = TRUE] /\ aob' = NoItem /\ UNCHANGED heap
        \/ strm' = [strm EXCEPT ![s].left = @ - 1] /\ strm[s].win > 0 /\ Pack(Data(s), 1) /\ UNCHANGED heap
    BY DEF SendData
  <2> QED BY <2>1, <2>2, <2>3, <2>4
<1>6. PICK e \in StreamRecord : DataGoes(s, e)
  BY <1>5
<1>7. strm' \in [Streams -> StreamRecord] /\ strm'[s] = e /\ \A x \in Streams \ {s} : strm'[x] = strm[x]
  BY <1>1, <1>6, StreamChange DEF DataGoes
<1>8. \E G \in SUBSET {Data(s)} :
        /\ Freed(G) /\ aob' \in AobRecord
        /\ \/ G = {Data(s)} /\ aob'.item = None /\ e.item = FALSE
           \/ G = {} /\ aob'.item = None /\ e.item = TRUE /\ e.left > 0
           \/ G = {} /\ aob'.item = Data(s) /\ e.item = TRUE /\ e.win > 0
  <2>1. ASSUME e.item = FALSE, Drop(Data(s))
        PROVE  Freed({Data(s)}) /\ aob' \in AobRecord /\ aob'.item = None
    BY <1>1, <2>1, AobAfter DEF Drop, Freed, Free
  <2>2. ASSUME aob' = NoItem, UNCHANGED heap
        PROVE  Freed({}) /\ aob' \in AobRecord /\ aob'.item = None
    BY <1>1, <2>2, AobAfter DEF Freed
  <2>3. ASSUME Pack(Data(s), 1), UNCHANGED heap
        PROVE  Freed({}) /\ aob' \in AobRecord /\ aob'.item = Data(s)
    BY <1>1, <1>3, <2>3, AobAfter DEF Freed
  <2> QED BY <1>2, <1>6, <2>1, <2>2, <2>3 DEF DataGoes
<1>9. PICK G \in SUBSET {Data(s)} :
        /\ Freed(G) /\ aob' \in AobRecord
        /\ \/ G = {Data(s)} /\ aob'.item = None /\ e.item = FALSE
           \/ G = {} /\ aob'.item = None /\ e.item = TRUE /\ e.left > 0
           \/ G = {} /\ aob'.item = Data(s) /\ e.item = TRUE /\ e.win > 0
  BY <1>8
<1>10. Range(urgent') = Range(urgent) /\ Range(reg') = Range(reg) /\ aob'.item \in {None, Data(s)}
  BY <1>1, <1>9
<1>11. ItemsOwned' /\ DOMAIN heap' = DOMAIN heap /\ \A j \in DOMAIN heap : heap[j] = 1 => heap'[j] = 1
  <2>1. Data(s) \in Attached
    BY <1>1 DEF Attached
  <2>2. e.item = FALSE => Attached' = Attached \ {Data(s)}
    BY <1>7, AttachedStep
  <2>3. e.item = TRUE => Attached' = Attached
    BY <1>1, <1>7, AttachedStep
  <2>4. Held' \cup {None} = (Held \ G) \cup {None}
    <3>1. CASE G = {Data(s)}
      BY <1>1, <1>4, <1>9, <1>10, <2>2, <3>1, HeldIs
    <3>2. CASE G = {}
      BY <1>1, <1>9, <1>10, <2>1, <2>3, <3>2, HeldIs
    <3> QED BY <1>9, <3>1, <3>2
  <2>5. G \in SUBSET Held /\ None \notin G
    BY <1>3, <2>1, HeldIs
  <2> QED BY <1>1, <1>9, <2>4, <2>5, OwnFree
<1>12. TypeOK'
  BY <1>1, <1>7, <1>9, <1>11 DEF TypeOK, AobRecord, StreamRecord
<1>13. QueueInv'
  BY <1>1, <1>4, <1>10 DEF QueueInv
<1>14. StreamInv'
  <2>1. StreamOwes(s)'
    <3>1. StreamOwes(s) /\ Live(s)'
      BY <1>1, <1>6, <1>7 DEF StreamInv, Live, DataGoes
    <3>2. \A i \in Range(reg') \cup {aob'.item} : i.type = "HEADERS" => i \in Range(reg)
      BY <1>10 DEF Data, Item, None
    <3>3. (\A i \in Range(reg) \cup {aob.item} : i.type = "HEADERS" /\ i.s = s => strm[s].left > 0)'
      <4>1. ASSUME NEW i \in Range(reg), i.type = "HEADERS", i.s = s PROVE FALSE
        <5>1. PICK j \in DOMAIN heap : j.type = "HEADERS" /\ j.s = s /\ heap[j] = 1
          <6>1. Data(s) \in Held
            BY <1>1, HeldIs DEF Attached
          <6> QED BY <6>1, DataAfterHeaders
        <5>2. i \in Held /\ i # None
          BY <1>4, <4>1, HeldIs
        <5>3. i \in DOMAIN heap /\ heap[i] = 0
          BY <1>1, <5>2 DEF ItemsOwned
        <5>4. i = j
          BY <1>1, <4>1, <5>1, <5>3 DEF NameInv
        <5> QED BY <5>1, <5>3, <5>4
      <4> QED BY <3>2, <4>1
    <3> QED BY <1>3, <1>7, <1>9, <3>1, <3>3 DEF StreamOwes
  <2>2. \A x \in Streams \ {s} : aob'.item # Data(x) /\ aob.item # Data(x)
    <3>1. \A x : Data(x) # None /\ (x # s => Data(x) # Data(s))
      BY DEF Data, None, Item
    <3> QED BY <1>1, <1>10, <3>1
  <2>3. \A i \in Range(reg') \cup {aob'.item} : i.type = "HEADERS" => i \in Range(reg)
    BY <1>10 DEF Data, Item, None
  <2> QED BY <1>1, <1>7, <2>1, <2>2, <2>3, OthersOwe
<1>15. NameInv'
  <2>1. \A x \in Streams : strm'[x].st = "IDLE" => strm[x].st = "IDLE"
    <3>1. ASSUME NEW x \in Streams PROVE strm'[x].st = "IDLE" => strm[x].st = "IDLE"
      BY <1>6, <1>7 DEF DataGoes
    <3> QED BY <3>1
  <2> QED BY <1>1, <1>11, <2>1, NamesSame
<1>16. FloodCounted'
  BY <1>1, <1>12, FloodSame
<1> QED BY <1>11, <1>13, <1>14, <1>15, <1>16 DEF OInv

-----------------------------------------------------------------------------
(* A frame is complete. *)

\* The item of a frame is freed, and nothing else.
LEMMA ItemLeaves ==
  ASSUME OInv, aob.item # None, \A x : aob.item # Data(x), aob' = NoItem, heap' = Free(heap, {aob.item}),
         UNCHANGED <<strm, urgent, reg, flood, events, pc>>, goaway \subseteq goaway',
         goaway' \subseteq {"TERM_ON_SEND", "TERM_SENT", "SENT", "RECV"}
  PROVE  OInv'
<1>1. /\ TypeOK /\ QueueInv /\ StreamInv /\ NameInv /\ ItemsOwned /\ FloodCounted
  BY DEF OInv, FloodCounted
<1>2. aob' \in AobRecord /\ aob'.item = None
  BY <1>1, AobAfter
<1> DEFINE G == {aob.item}
<1>3. Held' \cup {None} = (Held \ G) \cup {None}
  <2>1. Attached' = Attached /\ aob.item \notin Attached
    BY AttachedSame DEF Attached
  <2>2. aob.item \notin Range(urgent) \cup Range(reg)
    BY <1>1 DEF QueueInv
  <2> QED BY <1>2, <2>1, <2>2, HeldIs
<1>4. G \in SUBSET Held /\ None \notin G
  BY HeldIs
<1> HIDE DEF G
<1>5. heap' = Free(heap, G)
  BY DEF G
<1>6. ItemsOwned' /\ DOMAIN heap' = DOMAIN heap /\ \A j \in DOMAIN heap : heap[j] = 1 => heap'[j] = 1
  BY <1>1, <1>3, <1>4, <1>5, OwnFree
<1>7. TypeOK'
  BY <1>1, <1>2, <1>6 DEF TypeOK, AobRecord
<1>8. QueueInv'
  <2>1. None \notin Range(urgent) \cup Range(reg)
    BY <1>1, ItemKinds DEF TypeOK, Range
  <2> QED BY <1>1, <1>2, <2>1 DEF QueueInv
<1>9. StreamInv'
  <2>1. /\ \A x : aob'.item # Data(x)
        /\ \A i \in Range(reg') \cup {aob'.item} : i.type = "HEADERS" => i \in Range(reg) \cup {aob.item}
    BY <1>2 DEF Data, Item, None
  <2> QED BY <1>1, <2>1, StreamsSame
<1>10. NameInv'
  BY <1>1, <1>6, NamesSame
<1>11. FloodCounted'
  BY <1>1, <1>7, FloodSame
<1> QED BY <1>6, <1>8, <1>9, <1>10, <1>11 DEF OInv

\* A header block is out.
LEMMA HeadersSentKeeps ==
  ASSUME OInv, HeadersSent
  PROVE  OInv'
<1> DEFINE i == aob.item
<1>1. /\ TypeOK /\ QueueInv /\ StreamInv /\ NameInv /\ ItemsOwned /\ FloodCounted
      /\ i.type = "HEADERS" /\ i # None /\ aob' = NoItem
      /\ UNCHANGED <<urgent, reg, flood, events, pc, goaway>>
  BY DEF OInv, FloodCounted, HeadersSent, Sent, Sending, outside
<1>0. i \in Items /\ i.s \in Streams
  <2>1. i \in Items
    BY <1>1 DEF TypeOK
  <2> QED BY <1>1, <2>1, ItemKinds
<1>2. PICK s \in Streams : s = i.s
  BY <1>0
<1>3. \A x : i # Data(x)
  BY <1>1 DEF Data, Item
<1>4. CASE ~Live(s)
  <2>1. heap' = Free(heap, {aob.item}) /\ strm' = strm
    BY <1>2, <1>4 DEF HeadersSent
  <2>2. goaway' \subseteq {"TERM_ON_SEND", "TERM_SENT", "SENT", "RECV"} /\ goaway \subseteq goaway'
    BY <1>1 DEF TypeOK
  <2> QED BY <1>1, <1>3, <2>1, <2>2, ItemLeaves
<1>5. CASE Live(s)
  <2> DEFINE d == [strm[s] EXCEPT !.st = "OPENED"]
             e == [d EXCEPT !.item = TRUE]
  <2>1. strm[s] \in StreamRecord /\ strm \in [Streams -> StreamRecord]
    BY <1>1, <1>2 DEF TypeOK, StreamRecord
  <2>2. /\ strm' = [strm EXCEPT ![s].st = "OPENED", ![s].item = TRUE]
        /\ heap' = Alloc(Free(heap, {i}), Data(s))
    BY <1>2, <1>5 DEF HeadersSent
  <2>3. strm' = [strm EXCEPT ![s] = e]
    BY <1>2, <2>1, <2>2
  <2>4. d \in StreamRecord /\ d.st = "OPENED" /\ d.left = strm[s].left
    BY <2>1 DEF StreamRecord
  <2> HIDE DEF d
  <2>5. e \in StreamRecord /\ e.st = "OPENED" /\ e.left = strm[s].left /\ e.item = TRUE
    BY <2>4 DEF StreamRecord
  <2> HIDE DEF e
  <2>6. strm' \in [Streams -> StreamRecord] /\ strm'[s] = e /\ \A x \in Streams \ {s} : strm'[x] = strm[x]
    BY <1>1, <1>2, <2>3, <2>5, StreamChange
  <2>7. aob' \in AobRecord /\ aob'.item = None
    BY <1>1, AobAfter
  <2>8. i \in Held /\ i \in DOMAIN heap /\ heap[i] = 0
    <3>1. i \in Held
      BY HeldIs
    <3>2. i \in DOMAIN heap
      BY <1>1, <3>1 DEF ItemsOwned
    <3> QED BY <1>1, <3>1, <3>2 DEF ItemsOwned
  <2>9. Data(s) \notin DOMAIN heap
    <3>1. ASSUME Data(s) \in DOMAIN heap PROVE FALSE
      <4>1. PICK j \in DOMAIN heap : j.type = "HEADERS" /\ j.s = s /\ heap[j] = 1
        BY <1>1, <3>1 DEF NameInv
      <4>2. i = j
        BY <1>1, <1>2, <2>8, <4>1 DEF NameInv
      <4> QED BY <2>8, <4>1, <4>2
    <3> QED BY <3>1
  <2>10. /\ DOMAIN heap' = DOMAIN heap \cup {Data(s)} /\ heap'[Data(s)] = 0
         /\ \A j \in DOMAIN heap : heap'[j] = IF j \in {i} THEN heap[j] + 1 ELSE heap[j]
    <3>1. \A j \in DOMAIN heap : j # Data(s)
      BY <2>9
    <3> QED BY <2>2, <3>1 DEF Alloc, Free
  <2>11. heap'[i] = 1 /\ \A j \in DOMAIN heap : heap[j] = 1 => heap'[j] = 1
    BY <2>8, <2>10
  <2> DEFINE A == {Data(s)}
             G == {i}
  <2>12. A \in SUBSET Items /\ A \cap DOMAIN heap = {} /\ G \in SUBSET Held /\ None \notin G
    BY <1>1, <1>2, <2>8, <2>9 DEF Items
  <2>13. Held' \cup {None} = (Held \ G) \cup A \cup {None}
    <3>1. Attached' = Attached \cup {Data(s)}
      BY <1>2, <2>5, <2>6, AttachedStep
    <3>2. i \notin Range(urgent) \cup Range(reg) \cup Attached \cup {Data(s)}
      BY <1>1, <1>3 DEF QueueInv, Attached
    <3> QED BY <1>1, <2>7, <3>1, <3>2, HeldIs
  <2>14. ItemsOwned'
    <3>1. /\ DOMAIN heap' = DOMAIN heap \cup A /\ \A j \in A : heap'[j] = 0
          /\ \A j \in DOMAIN heap : heap'[j] = IF j \in G THEN heap[j] + 1 ELSE heap[j]
      BY <2>10
    <3> HIDE DEF A, G
    <3> QED BY <1>1, <2>12, <2>13, <3>1, OwnStep
  <2>15. TypeOK'
    BY <1>1, <2>6, <2>7, <2>10, <2>12 DEF TypeOK, StreamRecord, AobRecord
  <2>16. QueueInv'
    <3>1. None \notin Range(urgent) \cup Range(reg)
      BY <1>1, ItemKinds DEF TypeOK, Range
    <3> QED BY <1>1, <2>7, <3>1 DEF QueueInv
  <2>17. StreamInv'
    <3>1. \A x : None # Data(x)
      BY DEF Data, Item, None
    <3>2. \A j \in Range(reg') \cup {aob'.item} : j.type = "HEADERS" => j \in Range(reg) \cup {aob.item}
      BY <1>1, <2>7 DEF Item, None
    <3>3. StreamOwes(s)'
      <4>1. StreamOwes(s) /\ strm[s].left > 0
        BY <1>1, <1>2 DEF StreamInv, StreamOwes
      <4>2. Live(s)'
        BY <2>5, <2>6 DEF Live
      <4> QED BY <2>5, <2>6, <2>7, <3>1, <4>1, <4>2 DEF StreamOwes
    <3>4. \A x \in Streams \ {s} : aob'.item # Data(x) /\ aob.item # Data(x)
      BY <1>3, <2>7, <3>1
    <3> QED BY <1>1, <2>6, <3>2, <3>3, <3>4, OthersOwe
  <2>18. NameInv'
    <3>1. \A x \in Streams : strm'[x].st = "IDLE" => strm[x].st = "IDLE"
      <4>1. ASSUME NEW x \in Streams PROVE strm'[x].st = "IDLE" => strm[x].st = "IDLE"
        BY <2>5, <2>6
      <4> QED BY <4>1
    <3>2. \A j \in A : j.type = "DATA" /\ j.s = s
      BY ItemFields
    <3>3. DOMAIN heap' = DOMAIN heap \cup A
      BY <2>10
    <3>4. events' \in Nat /\ events <= events' /\ events' <= MaxEvents /\ goaway \subseteq goaway'
      BY <1>1, OutboundAssumption DEF TypeOK, NameInv
    <3> HIDE DEF A
    <3>5. /\ \A j \in A : j.type \notin AckTypes \cup {"RST_STREAM"} /\ j.type # "GOAWAY" /\ j.type # "HEADERS"
          /\ \A j \in A : j.type = "DATA" =>
               \E l \in DOMAIN heap : l.type = "HEADERS" /\ l.s = j.s /\ heap'[l] = 1
      BY <1>1, <1>2, <2>8, <2>11, <3>2 DEF AckTypes
    <3> QED BY <1>1, <2>11, <2>12, <3>1, <3>3, <3>4, <3>5, NamesStep
  <2>19. FloodCounted'
    BY <1>1, <2>15, FloodSame
  <2> QED BY <2>14, <2>16, <2>17, <2>18, <2>19 DEF OInv
<1> QED BY <1>4, <1>5

\* A frame that is neither HEADERS nor DATA is out.
LEMMA OtherSentKeeps ==
  ASSUME OInv, OtherSent
  PROVE  OInv'
<1> DEFINE i == aob.item
<1>1. /\ TypeOK /\ QueueInv /\ StreamInv /\ NameInv /\ ItemsOwned /\ FloodCounted
      /\ i.type \notin {"HEADERS", "DATA"} /\ i # None /\ aob' = NoItem
      /\ UNCHANGED <<urgent, reg, flood, events, pc>>
  BY DEF OInv, FloodCounted, OtherSent, Sent, Sending, outside
<1>2. i \in Items /\ (i.type = "RST_STREAM" => i.s \in Streams)
  <2>1. i \in Items
    BY <1>1 DEF TypeOK
  <2> QED BY <1>1, <2>1, ItemKinds
<1>3. \A x : i # Data(x)
  BY <1>1 DEF Data, Item
<1>4. goaway \subseteq goaway' /\ goaway' \subseteq {"TERM_ON_SEND", "TERM_SENT", "SENT", "RECV"}
  BY <1>1 DEF TypeOK, OtherSent
<1>5. CASE ~(i.type = "RST_STREAM" /\ Live(i.s))
  <2>1. strm' = strm
    BY <1>5 DEF OtherSent, StreamReset
  <2>2. heap' = Free(heap, {aob.item})
    <3>1. heap' = Free(heap, {aob.item} \cup {})
      BY <1>5 DEF OtherSent
    <3>2. {aob.item} \cup {} = {aob.item}
      OBVIOUS
    <3> QED BY <3>1, <3>2
  <2> QED BY <1>1, <1>3, <1>4, <2>1, <2>2, ItemLeaves
<1>6. CASE i.type = "RST_STREAM" /\ Live(i.s)
  <2>1. PICK s \in Streams : s = i.s
    BY <1>2, <1>6
  <2> DEFINE G == {aob.item}
  <2>2. strm' = Closed(s) /\ heap' = Free(heap, G \cup ItemGone(s))
    BY <1>6, <2>1 DEF OtherSent, StreamReset
  <2>3. aob' \in AobRecord /\ aob'.item = None
    BY <1>1, AobAfter
  <2>4. /\ G \in SUBSET {aob.item} /\ None \notin G /\ \A x \in Streams : Data(x) \notin G
        /\ (G = {} => aob'.item = aob.item) /\ (G # {} => aob'.item = None)
    BY <1>1, <1>3, <2>3
  <2> HIDE DEF G
  <2>5. /\ QueueInv' /\ StreamInv' /\ ItemsOwned' /\ DOMAIN heap' = DOMAIN heap
        /\ \A j \in DOMAIN heap : heap[j] = 1 => heap'[j] = 1
        /\ strm' \in [Streams -> StreamRecord]
        /\ \A x \in Streams : strm'[x].st = "IDLE" => strm[x].st = "IDLE"
    BY <1>1, <2>2, <2>4, CloseKeeps
  <2>6. TypeOK'
    BY <1>1, <1>4, <2>3, <2>5 DEF TypeOK, StreamRecord, AobRecord
  <2>7. NameInv'
    BY <1>1, <1>4, <2>5, NamesSame
  <2>8. FloodCounted'
    BY <1>1, <2>6, FloodSame
  <2> QED BY <2>5, <2>7, <2>8 DEF OInv
<1> QED BY <1>5, <1>6

\* What becomes of the stream whose DATA is out, which is e after the step: its item stays with
\* it, or goes
DataOut(s, e) ==
  /\ strm' = [strm EXCEPT ![s] = e] /\ e.left = strm[s].left /\ (e.st = "IDLE" => strm[s].st = "IDLE")
  /\ \/ Stays(s) /\ heap' = heap /\ e.item = TRUE /\ e.st = strm[s].st
     \/ ~Stays(s) /\ heap' = Free(heap, {Data(s)}) /\ e.item = FALSE

\* A DATA frame is out.
LEMMA DataSentKeeps ==
  ASSUME OInv, DataSent
  PROVE  OInv'
<1>1. /\ TypeOK /\ QueueInv /\ StreamInv /\ NameInv /\ ItemsOwned /\ FloodCounted
      /\ aob.item.type = "DATA" /\ aob.item # None /\ aob' = NoItem
      /\ UNCHANGED <<urgent, reg, flood, events, pc, goaway>>
  BY DEF OInv, FloodCounted, DataSent, Sent, Sending, outside
<1>2. PICK s \in Streams : s = aob.item.s /\ aob.item = Data(s)
  <2>1. aob.item \in Items
    BY <1>1 DEF TypeOK
  <2> QED BY <1>1, <2>1, ItemKinds
<1>3. aob' \in AobRecord /\ aob'.item = None
  BY <1>1, AobAfter
<1>4. strm[s] \in StreamRecord /\ strm \in [Streams -> StreamRecord] /\ StreamOwes(s)
  BY <1>1 DEF TypeOK, StreamRecord, StreamInv
<1>5. Live(s) => strm[s].item /\ strm[s].win - 1 \in Nat
  BY <1>2, <1>4 DEF StreamOwes, StreamRecord
<1>6. \E e \in StreamRecord : DataOut(s, e)
  <2> DEFINE w == IF Live(s) THEN strm[s].win - 1 ELSE strm[s].win
             d == [strm[s] EXCEPT !.win = w]
             paid == [strm EXCEPT ![s].win = IF Live(s) THEN @ - 1 ELSE @]
  <2>1. d \in StreamRecord /\ d.st = strm[s].st /\ d.item = strm[s].item /\ d.left = strm[s].left
    <3>1. w \in Nat
      BY <1>4, <1>5 DEF StreamRecord
    <3> HIDE DEF w
    <3> QED BY <1>4, <3>1 DEF StreamRecord
  <2>2. paid = [strm EXCEPT ![s] = d] /\ paid \in [Streams -> StreamRecord] /\ paid[s] = d
    <3>1. paid = [strm EXCEPT ![s] = d]
      BY <1>4
    <3> HIDE DEF d, paid
    <3> QED BY <1>4, <2>1, <3>1
  <2>3. /\ strm' = IF strm[s].left = 0 /\ Live(s)
                   THEN [paid EXCEPT ![s].st = "CLOSED", ![s].item = FALSE]
                   ELSE [paid EXCEPT ![s].item = @ /\ Stays(s)]
        /\ heap' = IF Stays(s) THEN heap ELSE Free(heap, {Data(s)})
    BY <1>2 DEF DataSent
  <2> HIDE DEF d, paid
  <2>4. ASSUME strm[s].left = 0 /\ Live(s)
        PROVE  \E e \in StreamRecord : DataOut(s, e)
    <3> DEFINE c == [d EXCEPT !.st = "CLOSED"]
               e == [c EXCEPT !.item = FALSE]
    <3>1. strm' = [paid EXCEPT ![s] = e]
      BY <2>2, <2>3, <2>4
    <3>2. c \in StreamRecord /\ c.st = "CLOSED" /\ c.left = strm[s].left
      BY <2>1 DEF StreamRecord
    <3> HIDE DEF c
    <3>3. e \in StreamRecord /\ e.st = "CLOSED" /\ e.left = strm[s].left /\ e.item = FALSE
      BY <3>2 DEF StreamRecord
    <3> HIDE DEF e
    <3>4. strm' = [strm EXCEPT ![s] = e]
      BY <1>4, <2>1, <2>2, <3>1, <3>3
    <3>5. ~Stays(s)
      BY <2>4 DEF Stays
    <3> QED BY <2>3, <3>3, <3>4, <3>5 DEF DataOut
  <2>5. ASSUME ~(strm[s].left = 0 /\ Live(s))
        PROVE  \E e \in StreamRecord : DataOut(s, e)
    <3> DEFINE b == d.item /\ Stays(s)
               e == [d EXCEPT !.item = b]
    <3>1. strm' = [paid EXCEPT ![s] = e]
      BY <2>2, <2>3, <2>5
    <3>2. b \in BOOLEAN
      BY <2>1 DEF StreamRecord
    <3>3. Stays(s) => b = TRUE
      BY <1>5, <2>1 DEF Stays
    <3>4. ~Stays(s) => b = FALSE
      OBVIOUS
    <3> HIDE DEF b
    <3>5. e \in StreamRecord /\ e.st = strm[s].st /\ e.left = strm[s].left /\ e.item = b
      BY <2>1, <3>2 DEF StreamRecord
    <3> HIDE DEF e
    <3>6. strm' = [strm EXCEPT ![s] = e]
      BY <1>4, <2>1, <2>2, <3>1, <3>5
    <3> QED BY <2>3, <3>3, <3>4, <3>5, <3>6 DEF DataOut
  <2> QED BY <2>4, <2>5
<1>7. PICK e \in StreamRecord : DataOut(s, e)
  BY <1>6
<1>8. strm' \in [Streams -> StreamRecord] /\ strm'[s] = e /\ \A x \in Streams \ {s} : strm'[x] = strm[x]
  BY <1>1, <1>7, StreamChange DEF DataOut
<1>9. Data(s) \notin Range(urgent) \cup Range(reg) /\ None \notin Range(urgent) \cup Range(reg)
  <2>1. None \notin Range(urgent) \cup Range(reg)
    BY <1>1, ItemKinds DEF TypeOK, Range
  <2> QED BY <1>1, <1>2, <2>1 DEF QueueInv
<1>10. ItemsOwned' /\ DOMAIN heap' = DOMAIN heap /\ \A j \in DOMAIN heap : heap[j] = 1 => heap'[j] = 1
  <2>1. CASE Stays(s)
    <3>1. heap' = heap /\ e.item = TRUE /\ Live(s)
      BY <1>7, <2>1 DEF DataOut, Stays
    <3>2. Attached' = Attached /\ Data(s) \in Attached
      BY <1>5, <1>8, <3>1, AttachedStep DEF Attached
    <3>3. Held' \cup {None} = Held \cup {None}
      BY <1>1, <1>2, <1>3, <3>2, HeldIs
    <3> QED BY <1>1, <3>1, <3>3, OwnSame
  <2>2. CASE ~Stays(s)
    <3> DEFINE G == {Data(s)}
    <3>1. heap' = Free(heap, G) /\ e.item = FALSE
      BY <1>7, <2>2 DEF DataOut
    <3>2. Attached' = Attached \ {Data(s)}
      BY <1>8, <3>1, AttachedStep
    <3>3. Held' \cup {None} = (Held \ G) \cup {None}
      BY <1>1, <1>2, <1>3, <1>9, <3>2, HeldIs
    <3>4. G \in SUBSET Held /\ None \notin G
      BY <1>1, <1>2, HeldIs
    <3> HIDE DEF G
    <3> QED BY <1>1, <3>1, <3>3, <3>4, OwnFree
  <2> QED BY <2>1, <2>2
<1>11. TypeOK'
  BY <1>1, <1>3, <1>8, <1>10 DEF TypeOK, AobRecord, StreamRecord
<1>12. QueueInv'
  BY <1>1, <1>3, <1>9 DEF QueueInv
<1>13. StreamInv'
  <2>1. /\ \A x : None # Data(x)
        /\ \A x : x # s => Data(s) # Data(x)
    BY DEF Data, Item, None
  <2>2. \A j \in Range(reg') \cup {aob'.item} : j.type = "HEADERS" => j \in Range(reg) \cup {aob.item}
    BY <1>1, <1>3 DEF Item, None
  <2>3. StreamOwes(s)'
    <3>1. e.item => Live(s)' /\ strm[s].left > 0
      <4>1. ASSUME Stays(s), e.st = strm[s].st PROVE Live(s)' /\ strm[s].left > 0
        BY <1>8, <4>1 DEF Live, Stays
      <4> QED BY <1>7, <4>1 DEF DataOut
    <3>2. e.left = strm[s].left
      BY <1>7 DEF DataOut
    <3> QED BY <1>3, <1>4, <1>8, <2>1, <2>2, <3>1, <3>2 DEF StreamOwes
  <2>4. \A x \in Streams \ {s} : aob'.item # Data(x) /\ aob.item # Data(x)
    BY <1>2, <1>3, <2>1
  <2> QED BY <1>1, <1>8, <2>2, <2>3, <2>4, OthersOwe
<1>14. NameInv'
  <2>1. \A x \in Streams : strm'[x].st = "IDLE" => strm[x].st = "IDLE"
    <3>1. ASSUME NEW x \in Streams PROVE strm'[x].st = "IDLE" => strm[x].st = "IDLE"
      BY <1>7, <1>8 DEF DataOut
    <3> QED BY <3>1
  <2> QED BY <1>1, <1>10, <2>1, NamesSame
<1>15. FloodCounted'
  BY <1>1, <1>11, FloodSame
<1> QED BY <1>10, <1>12, <1>13, <1>14, <1>15 DEF OInv

-----------------------------------------------------------------------------
(* The theorems. *)

\* The connection begins with a SETTINGS that waits.
LEMMA InitO == Init => OInv
<1> SUFFICES ASSUME Init PROVE OInv
  OBVIOUS
<1> DEFINE i == Item("SETTINGS", 0, 0)
<1>1. /\ urgent = <<i>> /\ reg = << >> /\ aob = [item |-> None, chunks |-> 0, cur |-> 1, pos |-> 0]
      /\ strm = [s \in Streams |-> [st |-> "IDLE", item |-> FALSE, deferred |-> FALSE, win |-> InitialWindow, left |-> 0]]
      /\ flood = 0 /\ goaway = {} /\ pc = "sending" /\ events = 0 /\ heap = [j \in {i} |-> 0]
  BY DEF Init
<1>2. i \in Items /\ i.type = "SETTINGS" /\ IsUrgent(i) /\ ~IsAck(i)
  BY DEF Items, Item, IsUrgent, IsAck
<1> HIDE DEF i
<1>3. /\ urgent \in Seq(Items) /\ Range(urgent) = {i} /\ IsInjective(urgent)
  <2>1. << >> \in Seq(Items) /\ urgent = Append(<< >>, i)
    BY <1>1
  <2>2. Range(<< >>) = {} /\ IsInjective(<< >>)
    BY EmptyQueue
  <2> QED BY <1>2, <2>1, <2>2, AppendItem
<1>4. reg \in Seq(Items) /\ Range(reg) = {} /\ IsInjective(reg)
  BY <1>1, EmptyQueue
<1>5. aob \in AobRecord /\ aob.item = None
  <2>1. 0 \in 0 .. FrameOctets
    BY OutboundAssumption
  <2> QED BY <1>1, <2>1 DEF AobRecord
<1>6. strm \in [Streams -> StreamRecord] /\ \A s \in Streams : strm[s].st = "IDLE" /\ strm[s].item = FALSE
  <2> DEFINE e == [st |-> "IDLE", item |-> FALSE, deferred |-> FALSE, win |-> InitialWindow, left |-> 0]
  <2>1. e \in StreamRecord /\ e.st = "IDLE" /\ e.item = FALSE
    BY OutboundAssumption DEF StreamRecord
  <2> HIDE DEF e
  <2>2. strm = [s \in Streams |-> e]
    BY <1>1 DEF e
  <2> QED BY <2>1, <2>2
<1>7. DOMAIN heap = {i} /\ heap[i] = 0
  BY <1>1
<1>8. TypeOK
  BY <1>1, <1>2, <1>3, <1>4, <1>5, <1>6, <1>7 DEF TypeOK, AobRecord, StreamRecord
<1>9. QueueInv
  <2>1. i # None
    BY <1>2, ItemKinds
  <2> QED BY <1>2, <1>3, <1>4, <1>5, <2>1 DEF QueueInv
<1>10. StreamInv
  <2>1. ASSUME NEW s \in Streams PROVE StreamOwes(s)
    <3>1. ~Live(s) /\ None.type # "HEADERS"
      BY <1>6 DEF Live, None, Item
    <3> QED BY <1>4, <1>5, <1>6, <3>1 DEF StreamOwes
  <2> QED BY <2>1 DEF StreamInv
<1>11. NameInv
  <2>1. ASSUME NEW type, NEW s, type # "SETTINGS" PROVE Numbered(type, s)
    <3>1. {j \in DOMAIN heap : j.type = type /\ j.s = s} = {}
      BY <1>2, <1>7, <2>1
    <3>2. {Item(type, s, j) : j \in 1 .. 0} = {} /\ 0 \in 0 .. events
      BY <1>1
    <3> QED BY <3>1, <3>2 DEF Numbered
  <2>2. events <= MaxEvents
    BY <1>1, OutboundAssumption
  <2>3. Item("GOAWAY", 0, 0) # i /\ \A s : Data(s) # i
    BY <1>2 DEF Item, Data
  <2> QED BY <1>2, <1>7, <2>1, <2>2, <2>3 DEF NameInv
<1>12. ItemsOwned
  <2>1. Attached = {}
    BY <1>6 DEF Attached
  <2>2. Held = {i, None}
    BY <1>3, <1>4, <1>5, <2>1, HeldIs
  <2> QED BY <1>7, <2>2 DEF ItemsOwned
<1>13. FloodCounted
  <2>1. {j \in Range(urgent) : IsAck(j)} = {}
    BY <1>2, <1>3
  <2>2. Cardinality({}) = 0 /\ 0 <= MaxFlood
    BY FS_EmptySet, OutboundAssumption
  <2> QED BY <1>1, <1>8, <2>1, <2>2 DEF FloodCounted
<1> QED BY <1>9, <1>10, <1>11, <1>12, <1>13 DEF OInv

\* Every step keeps the invariant.
LEMMA NextO == OInv /\ [Next]_vars => OInv'
<1> SUFFICES ASSUME OInv, [Next]_vars PROVE OInv'
  OBVIOUS
<1>1. CASE UNCHANGED vars
  <2>1. /\ UNCHANGED <<urgent, reg, flood, heap, aob, strm, goaway, pc, events>>
        /\ TypeOK /\ StreamInv
    BY <1>1 DEF vars, OInv, FloodCounted
  <2>2. TypeOK'
    BY <2>1 DEF TypeOK
  <2>3. StreamInv'
    BY <2>1, StreamsSame
  <2> QED BY <2>1, <2>2, <2>3, QuietQueues
<1>2. ASSUME NEW type \in AckTypes, OnAcknowledged(type) PROVE OInv'
  BY <1>2, OnAcknowledgedKeeps
<1>3. ASSUME NEW s \in Streams,
             \/ OnRequest(s) \/ OnRst(s) \/ OnWindowUpdate(s) \/ AddRstStream(s)
             \/ \E block \in Blocks, body \in Bodies : SubmitResponse(s, block, body)
             \/ SendData(s)
      PROVE  OInv'
  BY <1>3, OnRequestKeeps, OnRstKeeps, OnWindowUpdateKeeps, AddRstStreamKeeps, SubmitResponseKeeps,
     SendDataKeeps
<1>4. CASE OnGoaway \/ Terminate \/ SessionDel
  BY <1>4, OnGoawayKeeps, TerminateKeeps, SessionDelKeeps
<1>5. CASE SessionSend \/ SendDone \/ HeadersContinue \/ \E n \in Takes : Write(n)
  BY <1>5, QuietSteps
<1>6. CASE SendUrgent \/ SendReg \/ HeadersSent \/ OtherSent \/ DataSent
  BY <1>6, SendUrgentKeeps, SendRegKeeps, HeadersSentKeeps, OtherSentKeeps, DataSentKeeps
<1>7. "PING_ACK" \in AckTypes /\ "SETTINGS_ACK" \in AckTypes
  BY DEF AckTypes
<1> QED BY <1>1, <1>2, <1>3, <1>4, <1>5, <1>6, <1>7 DEF Next, Steps

\* The invariant of the frames that leave the session.
LEMMA OutboundInvariance == Spec => []OInv
<1>1. Init => OInv
  BY InitO
<1>2. OInv /\ [Next]_vars => OInv'
  BY NextO
<1> QED BY <1>1, <1>2, PTL DEF Spec

\* Every item that was allocated and not freed is in exactly one hand and is freed once, for
\* any number of streams and frames, whatever the callback takes, though streams are reset with
\* their DATA half sent and the session may be deleted between any two calls of it
\* (nghttp2_session.c:653, 1155, 1970, 2803-2831, 2957).
THEOREM EveryItemIsOwned == Spec => []ItemsOwned
<1>1. OInv => ItemsOwned
  BY DEF OInv
<1> QED BY <1>1, OutboundInvariance, PTL

\* The flood counter is the number of acknowledgements that wait and never passes its limit
\* (nghttp2_session.c:2172, 2230, 6630, 6775).
THEOREM FloodIsCounted == Spec => []FloodCounted
<1>1. OInv => FloodCounted
  BY DEF OInv
<1> QED BY <1>1, OutboundInvariance, PTL

-----------------------------------------------------------------------------
(* The octets on the wire are whole frames in an order that RFC 7540        *)
(* allows: OutboundQueue implements SentFrames.                             *)

\* The frames that are on the wire as a whole, the one that is being sent, and what has been
\* sent of it
Whole == Len(wire) \div FrameOctets
Frames == [j \in 1 .. Whole |-> FrameAt(j)]
Now == FrameOf(aob.item, aob.cur, aob.chunks, IF aob.item.type = "DATA" THEN strm[aob.item.s].left ELSE 0)
Out == aob.item # None /\ aob.pos = FrameOctets
Part == IF aob.item = None \/ Out THEN 0 ELSE aob.pos

Octets == [frame : Promise!Frame, k : 1 .. FrameOctets]

\* The octets are those of whole frames and of a part of the one that is being sent
WireInv ==
  /\ Len(wire) = Whole * FrameOctets + Part
  /\ \A j \in 1 .. Whole : \A k \in 1 .. FrameOctets :
       wire[(j - 1) * FrameOctets + k] = [frame |-> wire[(j - 1) * FrameOctets + 1].frame, k |-> k]
  /\ \A k \in 1 .. Part : wire[Whole * FrameOctets + k] = [frame |-> Now, k |-> k]

\* The chunks of the active item are the frames of its header block, or one frame
AobInv ==
  /\ aob.item = None => aob = NoItem
  /\ aob.item # None =>
       aob.cur <= aob.chunks /\ aob.chunks = IF aob.item.type = "HEADERS" THEN aob.item.n ELSE 1

\* A chunk of the active item has been sent before this one
Continued == aob.item.type = "HEADERS" /\ ~Out /\ aob.cur > 1

\* The last frame is the one that just went out, the one before the chunk that is being sent, or one
\* that ends what it belongs to; the first is SETTINGS
LastInv ==
  /\ Out => Whole > 0 /\ Frames[Whole] = Now
  /\ Continued => Whole > 0 /\ Frames[Whole] = FrameOf(aob.item, aob.cur - 1, aob.chunks, 0)
  /\ Whole > 0 /\ ~Out /\ ~Continued =>
       Frames[Whole].type \notin {"HEADERS", "CONTINUATION"} \/ Frames[Whole].end
  /\ Whole = 0 => \/ aob.item.type = "SETTINGS"
                  \/ aob.item = None /\ urgent # <<>> /\ Head(urgent).type = "SETTINGS"

\* Acknowledgements were numbered as they were queued, are queued in their order, and those that
\* went out came before those that wait
AckOrder ==
  /\ \A k, l \in DOMAIN urgent :
       k < l /\ IsAck(urgent[k]) /\ urgent[l].type = urgent[k].type => urgent[k].n < urgent[l].n
  /\ \A i \in Range(urgent) : IsAck(aob.item) /\ i.type = aob.item.type => aob.item.n < i.n
  /\ \A j \in 1 .. Whole : Frames[j].type \in AckTypes =>
       /\ Item(Frames[j].type, 0, Frames[j].n) \in DOMAIN heap
       /\ \A i \in Range(urgent) : i.type = Frames[j].type => Frames[j].n < i.n
       /\ aob.item.type = Frames[j].type /\ ~Out => Frames[j].n < aob.item.n

\* After a GOAWAY nothing is packed but SETTINGS or a GOAWAY
GoawayOrder ==
  /\ "TERM_SENT" \in goaway => aob.item.type \in {"none", "SETTINGS", "GOAWAY"}
  /\ \A j \in 1 .. Whole : Frames[j].type = "GOAWAY" =>
       "TERM_SENT" \in goaway \/ (aob.item.type = "GOAWAY" /\ Out)

\* What the frames on the wire say of a stream is what the session knows of it
Ended(g, s) == g.s = s /\ (g.type = "RST_STREAM" \/ (g.type = "DATA" /\ g.end))
HeadersOut(s) == \E j \in 1 .. Whole : Frames[j].s = s /\ Frames[j].type = "HEADERS"
EndOut(s) == \E j \in 1 .. Whole : Ended(Frames[j], s)
Begun(s) == aob.item.type = "HEADERS" /\ aob.item.s = s /\ (Out \/ Continued)
StreamOrder ==
  \A s \in Streams :
    /\ strm[s].st = "OPENED" \/ Data(s) \in DOMAIN heap \/ Begun(s) => HeadersOut(s)
    /\ HeadersOut(s) =>
         \E i \in DOMAIN heap : /\ i.type = "HEADERS" /\ i.s = s
                                /\ heap[i] = 1 \/ (aob.item = i /\ Begun(s))
    /\ EndOut(s) => strm[s].st = "CLOSED" \/ (Out /\ Ended(Now, s))
    /\ aob.item.s = s /\ (aob.item.type = "HEADERS" \/ (aob.item.type = "DATA" /\ ~Out)) => ~EndOut(s)
    /\ (\E i \in DOMAIN heap : i.type = "RST_STREAM" /\ i.s = s) => strm[s].st # "IDLE"

OrderInv == AobInv /\ LastInv /\ AckOrder /\ GoawayOrder /\ StreamOrder

SentInv == wire \in Seq(Octets) /\ (pc # "deleted" => WireInv /\ OrderInv)

-----------------------------------------------------------------------------
(* The octets of the wire. *)

\* Where the octets of the j-th frame are.
LEMMA BlockAt ==
  ASSUME NEW q \in Nat, NEW j \in 1 .. q, NEW k \in 1 .. FrameOctets
  PROVE  /\ (j - 1) * FrameOctets \in Nat /\ j * FrameOctets = (j - 1) * FrameOctets + FrameOctets
         /\ (j - 1) * FrameOctets + k \in 1 .. q * FrameOctets /\ q * FrameOctets \in Nat
BY OutboundAssumption

\* How many frames are on the wire.
LEMMA WholeIs ==
  ASSUME NEW q \in Nat, NEW r \in Nat, r < FrameOctets, NEW n, n = q * FrameOctets + r
  PROVE  n \div FrameOctets = q
BY OutboundAssumption

\* The j-th frame on a wire that holds its octets.
LEMMA FrameThere ==
  ASSUME NEW w \in Seq(Octets), NEW q \in Nat, q * FrameOctets <= Len(w), NEW j \in 1 .. q,
         \A k \in 1 .. FrameOctets :
           w[(j - 1) * FrameOctets + k] = [frame |-> w[(j - 1) * FrameOctets + 1].frame, k |-> k]
  PROVE  LET octets == SubSeq(w, (j - 1) * FrameOctets + 1, j * FrameOctets)
             f == octets[1].frame
         IN  /\ f = w[(j - 1) * FrameOctets + 1].frame /\ f \in Promise!Frame
             /\ (IF octets = [k \in 1 .. FrameOctets |-> [frame |-> f, k |-> k]] THEN f ELSE Garbled) = f
<1> DEFINE a == (j - 1) * FrameOctets
           b == j * FrameOctets
<1>1. a \in Nat /\ b = a + FrameOctets /\ FrameOctets \in Nat /\ FrameOctets > 0
  BY OutboundAssumption, BlockAt
<1>2. ASSUME NEW k \in 1 .. FrameOctets PROVE a + k \in 1 .. Len(w)
  <2> DEFINE e == q * FrameOctets
  <2>1. e \in Nat /\ a + k \in 1 .. e
    BY BlockAt
  <2>2. e <= Len(w) /\ Len(w) \in Nat
    OBVIOUS
  <2> HIDE DEF a, e
  <2> QED BY <2>1, <2>2
<1>3. \A k \in 1 .. FrameOctets : w[a + k] = [frame |-> w[a + 1].frame, k |-> k]
  OBVIOUS
<1> HIDE DEF a, b
<1> DEFINE octets == SubSeq(w, a + 1, b)
<1>4. octets = [k \in 1 .. FrameOctets |-> w[a + k]]
  <2>1. DOMAIN octets = 1 .. FrameOctets
    BY <1>1, <1>2
  <2>2. \A k \in 1 .. FrameOctets : octets[k] = w[a + k]
    BY <1>1, <1>2
  <2> QED BY <1>1, <1>2, <2>1, <2>2
<1>5. octets[1] = w[a + 1] /\ w[a + 1] \in Octets
  <2>1. 1 \in 1 .. FrameOctets
    BY <1>1
  <2>2. w[a + 1] \in Octets
    BY <1>2, <2>1
  <2> HIDE DEF octets
  <2> QED BY <1>4, <2>1, <2>2
<1> HIDE DEF octets
<1>6. w[a + 1].frame \in Promise!Frame
  BY <1>5 DEF Octets
<1>7. octets = [k \in 1 .. FrameOctets |-> [frame |-> octets[1].frame, k |-> k]]
  BY <1>3, <1>4, <1>5
<1> QED BY <1>5, <1>6, <1>7 DEF octets, a, b

\* The frames of a wire that is whole frames and a part of one.
LEMMA FramesThere ==
  ASSUME NEW w \in Seq(Octets), NEW q \in Nat, NEW r \in Nat, r < FrameOctets,
         Len(w) = q * FrameOctets + r,
         \A j \in 1 .. q : \A k \in 1 .. FrameOctets :
           w[(j - 1) * FrameOctets + k] = [frame |-> w[(j - 1) * FrameOctets + 1].frame, k |-> k]
  PROVE  /\ Len(w) \div FrameOctets = q /\ q * FrameOctets <= Len(w)
         /\ \A j \in 1 .. q :
              LET octets == SubSeq(w, (j - 1) * FrameOctets + 1, j * FrameOctets)
                  f == octets[1].frame
              IN  /\ f = w[(j - 1) * FrameOctets + 1].frame /\ f \in Promise!Frame
                  /\ (IF octets = [k \in 1 .. FrameOctets |-> [frame |-> f, k |-> k]] THEN f ELSE Garbled) = f
<1>1. Len(w) \div FrameOctets = q
  BY WholeIs
<1>2. q * FrameOctets <= Len(w)
  <2> DEFINE e == q * FrameOctets
  <2>1. e \in Nat
    BY OutboundAssumption
  <2> HIDE DEF e
  <2>2. Len(w) = e + r
    BY DEF e
  <2> QED BY <2>1, <2>2 DEF e
<1> QED BY <1>1, <1>2, FrameThere

\* What is in flight of the active item.
LEMMA PartIs ==
  ASSUME TypeOK
  PROVE  Part \in Nat /\ Part < FrameOctets
BY OutboundAssumption DEF TypeOK, Part, Out

\* The frames on the wire.
LEMMA FramesNow ==
  ASSUME TypeOK, wire \in Seq(Octets), WireInv
  PROVE  /\ Whole \in Nat /\ Whole * FrameOctets <= Len(wire)
         /\ Frames \in Seq(Promise!Frame) /\ Len(Frames) = Whole
         /\ \A j \in 1 .. Whole : Frames[j] = wire[(j - 1) * FrameOctets + 1].frame
<1>1. Len(wire) \in Nat /\ FrameOctets \in Nat /\ FrameOctets > 0
  BY OutboundAssumption
<1>2. Whole \in Nat
  BY <1>1 DEF Whole
<1>3. Part \in Nat /\ Part < FrameOctets
  BY PartIs
<1>4. /\ Whole * FrameOctets <= Len(wire)
      /\ \A j \in 1 .. Whole :
           FrameAt(j) = wire[(j - 1) * FrameOctets + 1].frame /\ FrameAt(j) \in Promise!Frame
  <2> DEFINE q == Whole
             r == Part
  <2>1. /\ q \in Nat /\ r \in Nat /\ r < FrameOctets /\ Len(wire) = q * FrameOctets + r
        /\ \A j \in 1 .. q : \A k \in 1 .. FrameOctets :
             wire[(j - 1) * FrameOctets + k] = [frame |-> wire[(j - 1) * FrameOctets + 1].frame, k |-> k]
    BY <1>2, <1>3 DEF WireInv
  <2> HIDE DEF q, r
  <2>2. /\ q * FrameOctets <= Len(wire)
        /\ \A j \in 1 .. q :
             LET octets == SubSeq(wire, (j - 1) * FrameOctets + 1, j * FrameOctets)
                 f == octets[1].frame
             IN  /\ f = wire[(j - 1) * FrameOctets + 1].frame /\ f \in Promise!Frame
                 /\ (IF octets = [k \in 1 .. FrameOctets |-> [frame |-> f, k |-> k]] THEN f ELSE Garbled) = f
    BY <2>1, FramesThere
  <2>3. ASSUME NEW j \in 1 .. q
        PROVE  FrameAt(j) = wire[(j - 1) * FrameOctets + 1].frame /\ FrameAt(j) \in Promise!Frame
    BY <2>2 DEF FrameAt
  <2> QED BY <2>2, <2>3 DEF q
<1> QED BY <1>2, <1>4 DEF Frames

\* Nothing is written: the frames are the same.
LEMMA WireSame ==
  ASSUME WireInv, wire' = wire, Part' = Part, Part > 0 => Now' = Now, Part \in Nat
  PROVE  WireInv' /\ Frames' = Frames /\ Whole' = Whole
<1>1. Whole' = Whole
  BY DEF Whole
<1>2. Frames' = Frames
  BY <1>1 DEF Frames, FrameAt, Whole
<1>3. WireInv'
  <2>1. \A k \in 1 .. Part' : wire'[Whole' * FrameOctets + k] = [frame |-> Now', k |-> k]
    BY <1>1 DEF WireInv
  <2> QED BY <1>1, <2>1 DEF WireInv
<1> QED BY <1>1, <1>2, <1>3

\* What is packed is a frame.
LEMMA NowIsFrame ==
  ASSUME TypeOK, AobInv, aob.item # None
  PROVE  /\ Now \in Promise!Frame /\ Now.s = aob.item.s
         /\ Now.type = IF aob.cur > 1 THEN "CONTINUATION" ELSE aob.item.type
         /\ aob.cur > 1 => aob.item.type = "HEADERS"
         /\ IsAck(aob.item) => Now.n = aob.item.n
<1> DEFINE i == aob.item
           left == IF i.type = "DATA" THEN strm[i.s].left ELSE 0
<1>1. i \in Items /\ aob.cur \in Nat \ {0}
  BY DEF TypeOK
<1>2. Now = FrameOf(i, aob.cur, aob.chunks, left)
  BY DEF Now
<1>3. aob.cur > 1 => i.type = "HEADERS"
  <2>1. aob.cur <= aob.chunks /\ (i.type # "HEADERS" => aob.chunks = 1)
    BY DEF AobInv
  <2> QED BY <1>1, <2>1
<1> HIDE DEF left, i
<1>4. /\ Now.s = i.s /\ Now.type = (IF aob.cur > 1 THEN "CONTINUATION" ELSE i.type)
      /\ IsAck(i) => Now.n = i.n
  BY <1>2 DEF FrameOf
<1>5. Now \in Promise!Frame
  <2>1. CASE i.type = "HEADERS"
    <3>1. i.s \in Streams /\ ~IsAck(i)
      BY <1>1, <2>1, ItemKinds DEF IsAck
    <3> QED BY <1>2, <2>1, <3>1 DEF FrameOf, Promise!Frame
  <2>2. CASE i.type = "DATA"
    <3>1. i.s \in Streams /\ ~IsAck(i)
      BY <1>1, <2>2, ItemKinds DEF IsAck
    <3> QED BY <1>2, <1>3, <2>2, <3>1 DEF FrameOf, Promise!Frame
  <2>3. CASE i.type = "RST_STREAM"
    <3>1. i.s \in Streams /\ ~IsAck(i)
      BY <1>1, <2>3, ItemKinds DEF IsAck
    <3> QED BY <1>2, <1>3, <2>3, <3>1 DEF FrameOf, Promise!Frame
  <2>4. CASE i.type \in {"SETTINGS", "GOAWAY"}
    <3>1. i.s = 0 /\ ~IsAck(i)
      BY <1>1, <2>4 DEF IsAck, Items, Item, Data
    <3> QED BY <1>2, <1>3, <2>4, <3>1 DEF FrameOf, Promise!Frame
  <2>5. CASE i.type \in {"SETTINGS_ACK", "PING_ACK"}
    <3>1. i.s = 0 /\ IsAck(i) /\ i.n \in 1 .. MaxEvents
      BY <1>1, <2>5 DEF IsAck, Items, Item, Data
    <3> QED BY <1>2, <1>3, <2>5, <3>1 DEF FrameOf, Promise!Frame
  <2> QED BY <1>1, <2>1, <2>2, <2>3, <2>4, <2>5, ItemKinds
<1> QED BY <1>3, <1>4, <1>5 DEF i

\* A sequence of octets goes out: the wire is longer by them.
LEMMA OctetsAppended ==
  ASSUME NEW w \in Seq(Octets), NEW f \in Promise!Frame, NEW p \in Nat, NEW n \in Nat,
         p + n <= FrameOctets
  PROVE  LET v == w \o [k \in 1 .. n |-> [frame |-> f, k |-> p + k]]
         IN  /\ v \in Seq(Octets) /\ Len(v) = Len(w) + n
             /\ \A k \in 1 .. Len(w) : v[k] = w[k]
             /\ \A k \in 1 .. n : v[Len(w) + k] = [frame |-> f, k |-> p + k]
<1> DEFINE u == [k \in 1 .. n |-> [frame |-> f, k |-> p + k]]
<1>1. u \in Seq(Octets) /\ Len(u) = n
  <2>1. \A k \in 1 .. n : [frame |-> f, k |-> p + k] \in Octets
    BY OutboundAssumption DEF Octets
  <2>2. u \in [1 .. n -> Octets]
    BY <2>1
  <2> HIDE DEF u
  <2> QED BY <2>2
<1>2. \A k \in 1 .. n : u[k] = [frame |-> f, k |-> p + k]
  OBVIOUS
<1> HIDE DEF u
<1>3. /\ w \o u \in Seq(Octets) /\ Len(w \o u) = Len(w) + n
      /\ \A k \in 1 .. Len(w) : (w \o u)[k] = w[k]
      /\ \A k \in 1 .. n : (w \o u)[Len(w) + k] = u[k]
  BY <1>1
<1> QED BY <1>2, <1>3 DEF u

\* The send callback takes n octets: when they are the last of the frame, there is one more.
LEMMA WriteFrames ==
  ASSUME TypeOK, wire \in Seq(Octets), WireInv, AobInv, NEW n \in Takes, Write(n)
  PROVE  /\ wire' \in Seq(Octets) /\ WireInv' /\ Now' = Now
         /\ ~Out' => Whole' = Whole /\ Frames' = Frames
         /\ Out' => Whole' = Whole + 1 /\ Frames' = Append(Frames, Now)
<1> DEFINE q == Whole
           p == aob.pos
           v == wire'
           f == Now
           L == Len(wire)
<1>1. /\ n \in Nat /\ p \in Nat /\ p < FrameOctets /\ n <= FrameOctets - p
      /\ FrameOctets \in Nat /\ FrameOctets > 0
      /\ aob.item # None /\ ~Out /\ Part = p
  BY OutboundAssumption DEF Write, Sending, TypeOK, Out, Part
<1>2. f \in Promise!Frame
  BY <1>1, NowIsFrame
<1>3. v = wire \o [k \in 1 .. n |-> [frame |-> f, k |-> p + k]]
  BY DEF Write, Sending, Now
<1>4. /\ aob' = [aob EXCEPT !.pos = p + n] /\ strm' = strm
      /\ aob'.item = aob.item /\ aob'.cur = aob.cur /\ aob'.chunks = aob.chunks
      /\ aob'.pos = p + n
  BY DEF Write, PosAfter, TypeOK
<1>5. Now' = Now
  BY <1>4 DEF Now
<1>6. /\ Out' <=> p + n = FrameOctets
      /\ Part' = IF Out' THEN 0 ELSE p + n
  BY <1>1, <1>4 DEF Out, Part
<1>7. /\ q \in Nat /\ q * FrameOctets \in Nat /\ Len(wire) = q * FrameOctets + p
      /\ Frames \in Seq(Promise!Frame) /\ Len(Frames) = q
  BY <1>1, FramesNow, OutboundAssumption DEF WireInv
<1>8. /\ v \in Seq(Octets) /\ Len(v) = L + n
      /\ \A k \in 1 .. L : v[k] = wire[k]
      /\ \A k \in 1 .. n : v[L + k] = [frame |-> f, k |-> p + k]
  <2> DEFINE u == wire \o [k \in 1 .. n |-> [frame |-> f, k |-> p + k]]
  <2> HIDE DEF v, f, p
  <2>1. p + n <= FrameOctets
    BY <1>1
  <2>2. /\ u \in Seq(Octets) /\ Len(u) = L + n
        /\ \A k \in 1 .. L : u[k] = wire[k]
        /\ \A k \in 1 .. n : u[L + k] = [frame |-> f, k |-> p + k]
    BY <1>1, <1>2, <2>1, OctetsAppended
  <2>3. v = u
    BY <1>3
  <2> HIDE DEF u
  <2> QED BY <2>2, <2>3
<1>13. \A j \in 1 .. q : Frames[j] = wire[(j - 1) * FrameOctets + 1].frame
  BY FramesNow
<1>14. q \in Nat
  BY <1>7
<1> DEFINE e == q * FrameOctets
<1>9. \A k \in 1 .. p + n : v[e + k] = [frame |-> f, k |-> k]
  <2> SUFFICES ASSUME NEW k \in 1 .. p + n PROVE v[e + k] = [frame |-> f, k |-> k]
    OBVIOUS
  <2> e \in Nat /\ L = e + p
    BY <1>7
  <2>1. CASE k <= p
    <3>1. wire[e + k] = [frame |-> f, k |-> k]
      BY <1>1, <2>1 DEF WireInv
    <3>2. e + k \in 1 .. L
      <4> HIDE DEF e, L, p
      <4> QED BY <1>1, <2>1
    <3> HIDE DEF e, L, p, v, f
    <3> QED BY <1>8, <3>1, <3>2
  <2>2. CASE k > p
    <3> HIDE DEF e, L, p, v, f
    <3> DEFINE l == k - p
    <3>1. l \in 1 .. n /\ e + k = L + l /\ p + l = k
      BY <1>1, <2>2
    <3> HIDE DEF l
    <3> QED BY <1>8, <3>1
  <2> QED BY <1>1, <2>1, <2>2
<1>10. ASSUME NEW j \in 1 .. q
       PROVE  /\ (j - 1) * FrameOctets + 1 \in 1 .. L /\ v[(j - 1) * FrameOctets + 1] = wire[(j - 1) * FrameOctets + 1]
              /\ \A k \in 1 .. FrameOctets :
                   v[(j - 1) * FrameOctets + k] = [frame |-> v[(j - 1) * FrameOctets + 1].frame, k |-> k]
  <2> DEFINE a == (j - 1) * FrameOctets
  <2>1. a \in Nat /\ \A k \in 1 .. FrameOctets : a + k \in 1 .. e
    <3> HIDE DEF q
    <3>1. 1 \in 1 .. FrameOctets
      BY <1>1
    <3>2. a \in Nat
      BY <1>14, <3>1, BlockAt
    <3>3. \A k \in 1 .. FrameOctets : a + k \in 1 .. e
      BY <1>14, BlockAt
    <3> QED BY <3>2, <3>3
  <2>2. e \in Nat /\ L = e + p
    BY <1>7
  <2>3. \A k \in 1 .. FrameOctets : wire[a + k] = [frame |-> wire[a + 1].frame, k |-> k]
    BY DEF WireInv
  <2> HIDE DEF a, e, L, p, v, f, q
  <2>4. \A k \in 1 .. FrameOctets : a + k \in 1 .. L
    BY <1>1, <2>1, <2>2
  <2>5. 1 \in 1 .. FrameOctets
    BY <1>1
  <2> QED BY <1>8, <2>3, <2>4, <2>5 DEF a
<1> HIDE DEF v, f, p, L, q
<1>11. CASE ~Out'
  <2>1. p + n < FrameOctets /\ Part' = p + n /\ Len(v) = e + (p + n)
    BY <1>1, <1>6, <1>7, <1>8, <1>11 DEF L
  <2>2. /\ Len(v) \div FrameOctets = q
        /\ \A j \in 1 .. q :
             LET octets == SubSeq(v, (j - 1) * FrameOctets + 1, j * FrameOctets)
                 g == octets[1].frame
             IN  /\ g = v[(j - 1) * FrameOctets + 1].frame /\ g \in Promise!Frame
                 /\ (IF octets = [k \in 1 .. FrameOctets |-> [frame |-> g, k |-> k]] THEN g ELSE Garbled) = g
    <3> DEFINE r == p + n
    <3>1. r \in Nat /\ r < FrameOctets /\ Len(v) = q * FrameOctets + r
      BY <1>1, <2>1
    <3> HIDE DEF r, e
    <3> QED BY <1>7, <1>8, <1>10, <3>1, FramesThere
  <2>3. Whole' = q
    BY <2>2 DEF Whole, v
  <2>4. ASSUME NEW j \in 1 .. q PROVE FrameAt(j)' = Frames[j]
    <3>1. FrameAt(j)' = v[(j - 1) * FrameOctets + 1].frame
      BY <2>2 DEF FrameAt, v
    <3> QED BY <1>10, <1>13, <3>1
  <2>5. Frames' = Frames
    BY <2>3, <2>4 DEF Frames, q
  <2>6. WireInv'
    BY <1>5, <1>9, <1>10, <2>1, <2>3 DEF WireInv, v, f, e
  <2> QED BY <1>5, <1>8, <1>11, <2>3, <2>5, <2>6 DEF q, v
<1>12. CASE Out'
  <2>1. p + n = FrameOctets /\ Part' = 0 /\ Len(v) = (q + 1) * FrameOctets + 0
    <3>1. p + n = FrameOctets /\ Part' = 0 /\ Len(v) = e + FrameOctets
      BY <1>1, <1>6, <1>7, <1>8, <1>12 DEF L
    <3> QED BY <1>7, <3>1, OutboundAssumption
  <2>2. ASSUME NEW j \in 1 .. q + 1, NEW k \in 1 .. FrameOctets
        PROVE  v[(j - 1) * FrameOctets + k] = [frame |-> v[(j - 1) * FrameOctets + 1].frame, k |-> k]
    <3>1. CASE j \in 1 .. q
      BY <1>10, <3>1
    <3>2. CASE j = q + 1
      <4> DEFINE a == (j - 1) * FrameOctets
      <4>1. a = e
        BY <1>7, <3>2
      <4>2. 1 \in 1 .. p + n /\ k \in 1 .. p + n
        BY <1>1, <2>1
      <4> HIDE DEF a, e
      <4>3. v[a + k] = [frame |-> f, k |-> k] /\ v[a + 1] = [frame |-> f, k |-> 1]
        BY <1>9, <4>1, <4>2
      <4> QED BY <4>3 DEF a
    <3> QED BY <1>7, <3>1, <3>2
  <2>3. /\ Len(v) \div FrameOctets = q + 1
        /\ \A j \in 1 .. q + 1 :
             LET octets == SubSeq(v, (j - 1) * FrameOctets + 1, j * FrameOctets)
                 g == octets[1].frame
             IN  /\ g = v[(j - 1) * FrameOctets + 1].frame /\ g \in Promise!Frame
                 /\ (IF octets = [k \in 1 .. FrameOctets |-> [frame |-> g, k |-> k]] THEN g ELSE Garbled) = g
    <3> DEFINE q1 == q + 1
               r == 0
    <3>1. q1 \in Nat /\ r \in Nat /\ r < FrameOctets /\ Len(v) = q1 * FrameOctets + r
      BY <1>1, <1>7, <2>1
    <3>2. \A j \in 1 .. q1 : \A k \in 1 .. FrameOctets :
            v[(j - 1) * FrameOctets + k] = [frame |-> v[(j - 1) * FrameOctets + 1].frame, k |-> k]
      BY <2>2
    <3> HIDE DEF q1, r, e
    <3>3. /\ Len(v) \div FrameOctets = q1
          /\ \A j \in 1 .. q1 :
               LET octets == SubSeq(v, (j - 1) * FrameOctets + 1, j * FrameOctets)
                   g == octets[1].frame
               IN  /\ g = v[(j - 1) * FrameOctets + 1].frame /\ g \in Promise!Frame
                   /\ (IF octets = [k \in 1 .. FrameOctets |-> [frame |-> g, k |-> k]] THEN g ELSE Garbled) = g
      BY <1>8, <3>1, <3>2, FramesThere
    <3> QED BY <3>3 DEF q1
  <2>4. Whole' = q + 1
    BY <2>3 DEF Whole, v
  <2>9. ASSUME NEW j \in 1 .. q + 1 PROVE FrameAt(j)' = v[(j - 1) * FrameOctets + 1].frame
    BY <2>3 DEF FrameAt, v
  <2>5. ASSUME NEW j \in 1 .. q PROVE FrameAt(j)' = Frames[j]
    <3>1. j \in 1 .. q + 1
      BY <1>14
    <3> QED BY <1>10, <1>13, <2>9, <3>1
  <2>6. ASSUME NEW j, j = q + 1 PROVE FrameAt(j)' = Now
    <3> DEFINE a == (j - 1) * FrameOctets
    <3>1. j \in 1 .. q + 1 /\ a = e
      BY <1>14, <2>6
    <3>2. 1 \in 1 .. p + n
      BY <1>1, <2>1
    <3>3. FrameAt(j)' = v[a + 1].frame
      BY <2>9, <3>1
    <3> HIDE DEF a, e
    <3>4. v[a + 1] = [frame |-> f, k |-> 1]
      BY <1>9, <3>1, <3>2
    <3> QED BY <3>3, <3>4 DEF f
  <2>7. Frames' = Append(Frames, Now)
    <3> DEFINE G == Append(Frames, Now)
    <3>1. /\ G \in Seq(Promise!Frame) /\ Len(G) = q + 1 /\ G[q + 1] = Now
          /\ \A j \in 1 .. q : G[j] = Frames[j]
      BY <1>2, <1>7 DEF f
    <3>2. DOMAIN G = 1 .. q + 1
      BY <1>7, <3>1
    <3>3. Frames' = [j \in 1 .. q + 1 |-> FrameAt(j)']
      BY <2>4 DEF Frames
    <3> HIDE DEF G
    <3>4. ASSUME NEW j \in 1 .. q + 1 PROVE FrameAt(j)' = G[j]
      <4>1. j \in 1 .. q \/ j = q + 1
        BY <1>14
      <4> QED BY <2>5, <2>6, <3>1, <4>1
    <3>5. G = [j \in 1 .. q + 1 |-> G[j]]
      BY <3>1, <3>2
    <3>6. [j \in 1 .. q + 1 |-> FrameAt(j)'] = [j \in 1 .. q + 1 |-> G[j]]
      BY <3>4
    <3> QED BY <3>3, <3>5, <3>6 DEF G
  <2>8. WireInv'
    <3>1. \A k \in 1 .. Part' : FALSE
      BY <2>1
    <3>2. Len(v) = Whole' * FrameOctets + Part'
      BY <2>1, <2>4
    <3> QED BY <2>2, <2>4, <3>1, <3>2 DEF WireInv, v
  <2> QED BY <1>5, <1>8, <1>12, <2>4, <2>7, <2>8 DEF q, v
<1> QED BY <1>11, <1>12

-----------------------------------------------------------------------------
(* The order of frames. *)

\* When the promise allows one more frame.
LEMMA AllowedIf ==
  ASSUME Whole \in Nat, Frames \in Seq(Promise!Frame), Len(Frames) = Whole, NEW f,
         Whole = 0 => f.type = "SETTINGS",
         Whole > 0 =>
           LET g == Frames[Whole]
           IN  IF g.type \in {"HEADERS", "CONTINUATION"} /\ ~g.end
               THEN f.type = "CONTINUATION" /\ f.s = g.s
               ELSE \/ f.type \in {"SETTINGS", "GOAWAY"}
                    \/ /\ \A j \in 1 .. Whole : Frames[j].type # "GOAWAY"
                       /\ \/ /\ f.type \in AckTypes
                             /\ \A j \in 1 .. Whole : ~(Frames[j].type = f.type /\ Frames[j].n >= f.n)
                          \/ f.type = "RST_STREAM"
                          \/ /\ f.type \in {"HEADERS", "DATA"} /\ ~EndOut(f.s)
                             /\ f.type = "DATA" <=> HeadersOut(f.s)
  PROVE  Promise!Allowed(f)
<1> DEFINE S == [j \in 1 .. (Len(wire) \div FrameOctets) |-> FrameAt(j)]
<1>1. S = Frames
  BY DEF Frames, Whole
<1>2. DOMAIN S = 1 .. Whole /\ Len(S) = Whole /\ (S = << >> <=> Whole = 0)
  <2> HIDE DEF S
  <2> QED BY <1>1
<1>3. Promise!InBlock <=>
        Whole > 0 /\ Frames[Whole].type \in {"HEADERS", "CONTINUATION"} /\ ~Frames[Whole].end
  <2>1. Promise!InBlock <=> S # << >> /\ S[Len(S)].type \in {"HEADERS", "CONTINUATION"} /\ ~S[Len(S)].end
    BY DEF Promise!InBlock
  <2> HIDE DEF S
  <2> QED BY <1>1, <1>2, <2>1
<1>4. Promise!Before(LAMBDA g : g.type = "GOAWAY") <=> \E j \in 1 .. Whole : Frames[j].type = "GOAWAY"
  <2>1. Promise!Before(LAMBDA g : g.type = "GOAWAY") <=> \E j \in DOMAIN S : S[j].type = "GOAWAY"
    BY DEF Promise!Before
  <2> HIDE DEF S
  <2> QED BY <1>1, <1>2, <2>1
<1>5. CASE Whole = 0
  <2>1. Promise!Allowed(f) <=>
          IF Promise!InBlock THEN f.type = "CONTINUATION" /\ f.s = S[Len(S)].s
          ELSE IF S = << >> THEN f.type = "SETTINGS"
          ELSE \/ Promise!OnConnection(f)
               \/ /\ ~Promise!Before(LAMBDA g : g.type = "GOAWAY")
                  /\ Promise!Answers(f) \/ Promise!OnStream(f)
    BY DEF Promise!Allowed
  <2> HIDE DEF S
  <2> QED BY <1>2, <1>3, <1>5, <2>1
<1>6. CASE Whole > 0
  <2>1. Promise!Allowed(f) <=>
          IF Promise!InBlock THEN f.type = "CONTINUATION" /\ f.s = S[Len(S)].s
          ELSE IF S = << >> THEN f.type = "SETTINGS"
          ELSE \/ Promise!OnConnection(f)
               \/ /\ ~Promise!Before(LAMBDA g : g.type = "GOAWAY")
                  /\ Promise!Answers(f) \/ Promise!OnStream(f)
    BY DEF Promise!Allowed
  <2>2. Promise!OnConnection(f) <=> f.type \in {"SETTINGS", "GOAWAY"}
    BY DEF Promise!OnConnection
  <2>3. Promise!Answers(f) <=>
          f.type \in AckTypes /\ ~\E j \in DOMAIN S : S[j].type = f.type /\ S[j].n >= f.n
    BY DEF Promise!Answers, Promise!Before, AckTypes
  <2>4. f.type = "RST_STREAM" => Promise!OnStream(f)
    BY DEF Promise!OnStream
  <2>5. (/\ f.type \in {"HEADERS", "DATA"}
         /\ ~\E j \in DOMAIN S : Ended(S[j], f.s)
         /\ f.type = "DATA" <=> \E j \in DOMAIN S : S[j].s = f.s /\ S[j].type = "HEADERS")
          => Promise!OnStream(f)
    BY DEF Promise!OnStream, Promise!Before, Promise!Ends, Ended
  <2> HIDE DEF S
  <2>6. DOMAIN S = 1 .. Whole /\ S # << >> /\ S[Len(S)] = Frames[Whole]
    BY <1>1, <1>2, <1>6
  <2>7. CASE Promise!InBlock
    BY <1>3, <1>6, <2>1, <2>6, <2>7
  <2>8. CASE ~Promise!InBlock
    <3>1. CASE f.type \in {"SETTINGS", "GOAWAY"}
      BY <2>1, <2>2, <2>6, <2>8, <3>1
    <3>2. CASE f.type \notin {"SETTINGS", "GOAWAY"}
      <4>1. /\ \A j \in 1 .. Whole : Frames[j].type # "GOAWAY"
            /\ \/ /\ f.type \in AckTypes
                  /\ \A j \in 1 .. Whole : ~(Frames[j].type = f.type /\ Frames[j].n >= f.n)
               \/ f.type = "RST_STREAM"
               \/ /\ f.type \in {"HEADERS", "DATA"} /\ ~EndOut(f.s)
                  /\ f.type = "DATA" <=> HeadersOut(f.s)
        BY <1>3, <1>6, <2>8, <3>2
      <4>2. Promise!Answers(f) \/ Promise!OnStream(f)
        <5>1. CASE /\ f.type \in AckTypes
                   /\ \A j \in 1 .. Whole : ~(Frames[j].type = f.type /\ Frames[j].n >= f.n)
          BY <1>1, <2>3, <2>6, <5>1
        <5>2. CASE f.type = "RST_STREAM"
          BY <2>4, <5>2
        <5>3. CASE /\ f.type \in {"HEADERS", "DATA"} /\ ~EndOut(f.s)
                   /\ f.type = "DATA" <=> HeadersOut(f.s)
          BY <1>1, <2>5, <2>6, <5>3 DEF EndOut, HeadersOut
        <5> QED BY <4>1, <5>1, <5>2, <5>3
      <4> QED BY <1>4, <2>1, <2>6, <2>8, <4>1, <4>2
    <3> QED BY <3>1, <3>2
  <2> QED BY <2>7, <2>8
<1> QED BY <1>5, <1>6

\* The frame that is being sent may follow those that were.
LEMMA WriteAllowed ==
  ASSUME OInv, wire \in Seq(Octets), WireInv, OrderInv, aob.item # None, aob.pos < FrameOctets
  PROVE  Promise!Allowed(Now)
<1> DEFINE i == aob.item
           f == Now
<1>1. TypeOK /\ AobInv
  BY DEF OInv, FloodCounted, OrderInv
<1>2. /\ Whole \in Nat /\ Frames \in Seq(Promise!Frame) /\ Len(Frames) = Whole
      /\ \A j \in 1 .. Whole : Frames[j] \in Promise!Frame
  BY <1>1, FramesNow
<1>3. i \in Items /\ aob.cur \in Nat \ {0} /\ ~Out
  BY <1>1, OutboundAssumption DEF TypeOK, Out
<1>4. i \in DOMAIN heap /\ heap[i] = 0
  BY DEF OInv, ItemsOwned, Held
<1>5. /\ f \in Promise!Frame /\ f.s = i.s
      /\ f.type = (IF aob.cur > 1 THEN "CONTINUATION" ELSE i.type)
      /\ aob.cur > 1 => i.type = "HEADERS"
      /\ IsAck(i) => f.n = i.n
  BY <1>1, NowIsFrame
<1> HIDE DEF f
<1>6. Whole = 0 => f.type = "SETTINGS"
  BY <1>3, <1>5 DEF OrderInv, LastInv
<1>7. ASSUME Whole > 0
      PROVE  LET g == Frames[Whole]
             IN  IF g.type \in {"HEADERS", "CONTINUATION"} /\ ~g.end
                 THEN f.type = "CONTINUATION" /\ f.s = g.s
                 ELSE \/ f.type \in {"SETTINGS", "GOAWAY"}
                      \/ /\ \A j \in 1 .. Whole : Frames[j].type # "GOAWAY"
                         /\ \/ /\ f.type \in AckTypes
                               /\ \A j \in 1 .. Whole : ~(Frames[j].type = f.type /\ Frames[j].n >= f.n)
                            \/ f.type = "RST_STREAM"
                            \/ /\ f.type \in {"HEADERS", "DATA"} /\ ~EndOut(f.s)
                               /\ f.type = "DATA" <=> HeadersOut(f.s)
  <2> DEFINE g == Frames[Whole]
  <2>1. CASE Continued
    <3>1. aob.cur > 1 /\ i.type = "HEADERS" /\ g = FrameOf(i, aob.cur - 1, aob.chunks, 0)
      BY <1>7, <2>1 DEF Continued, OrderInv, LastInv
    <3>2. aob.cur <= i.n /\ i.n \in Nat
      BY <1>1, <1>3, <3>1, ItemKinds, OutboundAssumption DEF AobInv
    <3> HIDE DEF g, i
    <3>3. g.type \in {"HEADERS", "CONTINUATION"} /\ ~g.end /\ g.s = i.s
      <4> DEFINE c == aob.cur - 1
      <4>1. c # i.n /\ i.type = "HEADERS" /\ g = FrameOf(i, c, aob.chunks, 0)
        BY <1>3, <3>1, <3>2 DEF i
      <4> HIDE DEF c
      <4>2. g.type \in {"HEADERS", "CONTINUATION"} /\ g.s = i.s
        BY <4>1 DEF FrameOf
      <4>3. ~g.end
        BY <4>1 DEF FrameOf
      <4> QED BY <4>2, <4>3
    <3>4. f.type = "CONTINUATION" /\ f.s = g.s
      BY <1>5, <3>1, <3>3
    <3> QED BY <3>3, <3>4 DEF g
  <2>2. CASE ~Continued
    <3>1. ~(g.type \in {"HEADERS", "CONTINUATION"} /\ ~g.end)
      BY <1>3, <1>7, <2>2 DEF OrderInv, LastInv
    <3>2. aob.cur = 1 /\ f.type = i.type
      BY <1>3, <1>5, <2>2 DEF Continued
    <3>3. i.type \notin {"SETTINGS", "GOAWAY"} => \A j \in 1 .. Whole : Frames[j].type # "GOAWAY"
      <4>1. i.type # "none"
        BY <1>3, ItemKinds
      <4> QED BY <1>3, <4>1 DEF OrderInv, GoawayOrder
    <3>4. i.type \in AckTypes => \A j \in 1 .. Whole : ~(Frames[j].type = f.type /\ Frames[j].n >= f.n)
      <4> SUFFICES ASSUME i.type \in AckTypes, NEW j \in 1 .. Whole, Frames[j].type = f.type
                   PROVE  ~(Frames[j].n >= f.n)
        OBVIOUS
      <4>1. f.n = i.n /\ Frames[j].n < i.n
        BY <1>3, <1>5, <3>2 DEF AckTypes, IsAck, OrderInv, AckOrder
      <4>2. i.n \in Nat /\ Frames[j].n \in Nat
        <5>1. i.n \in 1 .. MaxEvents
          BY <1>3 DEF AckTypes, Items, Item, Data
        <5>2. Frames[j].n \in 1 .. MaxEvents
          BY <1>2, <3>2 DEF AckTypes, Promise!Frame
        <5> QED BY <5>1, <5>2
      <4> QED BY <4>1, <4>2
    <3>5. i.type = "HEADERS" => ~EndOut(i.s) /\ ~HeadersOut(i.s)
      <4> SUFFICES ASSUME i.type = "HEADERS" PROVE ~EndOut(i.s) /\ ~HeadersOut(i.s)
        OBVIOUS
      <4>1. i.s \in Streams
        BY <1>3, ItemKinds
      <4>2. ~EndOut(i.s)
        BY <4>1 DEF OrderInv, StreamOrder
      <4>3. ASSUME HeadersOut(i.s) PROVE FALSE
        <5>1. PICK h \in DOMAIN heap : /\ h.type = "HEADERS" /\ h.s = i.s
                                       /\ heap[h] = 1 \/ (i = h /\ Begun(i.s))
          BY <4>1, <4>3 DEF OrderInv, StreamOrder
        <5>2. h = i
          BY <1>4, <5>1 DEF OInv, NameInv
        <5> QED BY <1>3, <1>4, <2>2, <5>1, <5>2 DEF Begun
      <4> QED BY <4>2, <4>3
    <3>6. i.type = "DATA" => ~EndOut(i.s) /\ HeadersOut(i.s)
      <4> SUFFICES ASSUME i.type = "DATA" PROVE ~EndOut(i.s) /\ HeadersOut(i.s)
        OBVIOUS
      <4>1. i.s \in Streams /\ i = Data(i.s)
        BY <1>3, ItemKinds
      <4> QED BY <1>3, <1>4, <4>1 DEF OrderInv, StreamOrder
    <3>7. i.type \in {"SETTINGS", "GOAWAY", "HEADERS", "RST_STREAM", "DATA"} \cup AckTypes
      BY <1>3, ItemKinds DEF AckTypes
    <3> HIDE DEF g, i
    <3> QED BY <1>5, <3>1, <3>2, <3>3, <3>4, <3>5, <3>6, <3>7 DEF g, AckTypes
  <2> QED BY <2>1, <2>2
<1> QED BY <1>2, <1>6, <1>7, AllowedIf DEF f

\* A new acknowledgement comes after all there were.
LEMMA AckNext ==
  ASSUME TypeOK, NEW type \in AckTypes, Numbered(type, 0)
  PROVE  \A j \in DOMAIN heap : j.type = type => j.n < New(type, 0).n
<1> DEFINE S == {j \in DOMAIN heap : j.type = type /\ j.s = 0}
<1>1. PICK k \in 0 .. events : S = {Item(type, 0, j) : j \in 1 .. k}
  BY DEF Numbered
<1>2. k \in Nat
  BY DEF TypeOK
<1>3. Cardinality(S) = k
  BY <1>1, <1>2, NumbersCount
<1>4. New(type, 0).n = 1 + k
  BY <1>3 DEF New, Item
<1> SUFFICES ASSUME NEW j \in DOMAIN heap, j.type = type PROVE j.n < 1 + k
  BY <1>4
<1>5. j.s = 0
  BY DEF TypeOK, AckTypes, Items, Item, Data
<1>6. j \in {Item(type, 0, l) : l \in 1 .. k}
  BY <1>1, <1>5
<1> HIDE DEF S
<1>7. PICK l \in 1 .. k : j = Item(type, 0, l)
  BY <1>6
<1>8. j.n = l
  BY <1>7 DEF Item
<1> QED BY <1>2, <1>8

\* It is queued behind them.
LEMMA AckQueued ==
  ASSUME TypeOK, ItemsOwned, AckOrder, aob' = aob, Whole' = Whole, Frames' = Frames, NEW i \in Items,
         urgent' = Append(urgent, i), DOMAIN heap \subseteq DOMAIN heap',
         IsAck(i) => \A j \in DOMAIN heap : j.type = i.type => j.n < i.n
  PROVE  AckOrder'
<1>1. urgent \in Seq(Items)
  BY DEF TypeOK
<1>2. Range(urgent') = Range(urgent) \cup {i}
  BY <1>1, AppendItem
<1>3. Range(urgent) \subseteq DOMAIN heap /\ (IsAck(aob.item) => aob.item \in DOMAIN heap)
  <2>1. None \notin Range(urgent) /\ ~IsAck(None)
    BY <1>1, ItemKinds DEF Range, IsAck, None, Item
  <2> QED BY <2>1 DEF ItemsOwned, Held
<1>4. Out' = Out
  BY DEF Out
<1>5. ASSUME NEW k \in DOMAIN urgent', NEW l \in DOMAIN urgent', k < l, IsAck(urgent'[k]),
             urgent'[l].type = urgent'[k].type
      PROVE  urgent'[k].n < urgent'[l].n
  <2>1. /\ DOMAIN urgent' = 1 .. Len(urgent) + 1 /\ DOMAIN urgent = 1 .. Len(urgent)
        /\ Len(urgent) \in Nat
        /\ urgent'[Len(urgent) + 1] = i /\ \A m \in 1 .. Len(urgent) : urgent'[m] = urgent[m]
    BY <1>1
  <2>2. k \in 1 .. Len(urgent)
    BY <1>5, <2>1
  <2>3. CASE l \in 1 .. Len(urgent)
    BY <1>5, <2>1, <2>2, <2>3 DEF AckOrder
  <2>4. CASE l = Len(urgent) + 1
    <3>1. urgent'[k] \in Range(urgent) /\ urgent'[l] = i
      BY <2>1, <2>2, <2>4 DEF Range
    <3> QED BY <1>3, <1>5, <3>1 DEF IsAck
  <2> QED BY <2>1, <2>3, <2>4
<1>6. ASSUME NEW j \in Range(urgent'), IsAck(aob'.item), j.type = aob'.item.type
      PROVE  aob'.item.n < j.n
  BY <1>2, <1>3, <1>6 DEF AckOrder, IsAck
<1>7. ASSUME NEW j \in 1 .. Whole', Frames'[j].type \in AckTypes
      PROVE  /\ Item(Frames'[j].type, 0, Frames'[j].n) \in DOMAIN heap'
             /\ \A h \in Range(urgent') : h.type = Frames'[j].type => Frames'[j].n < h.n
             /\ aob'.item.type = Frames'[j].type /\ ~Out' => Frames'[j].n < aob'.item.n
  <2> DEFINE g == Frames[j]
             h == Item(g.type, 0, g.n)
  <2>1. /\ h \in DOMAIN heap /\ \A x \in Range(urgent) : x.type = g.type => g.n < x.n
        /\ aob.item.type = g.type /\ ~Out => g.n < aob.item.n
    BY <1>7 DEF AckOrder
  <2>2. h.type = g.type /\ h.n = g.n
    BY ItemFields
  <2>3. g.type = i.type => g.n < i.n
    BY <1>7, <2>1, <2>2 DEF IsAck, AckTypes
  <2> QED BY <1>2, <1>4, <2>1, <2>3
<1> QED BY <1>5, <1>6, <1>7 DEF AckOrder

\* Peer or application act while nothing is written.
LEMMA QuietKeeps ==
  ASSUME OInv, wire' = wire, aob' = aob, WireInv, OrderInv,
         aob.item.type = "DATA" => strm'[aob.item.s].left = strm[aob.item.s].left,
         \A s \in Streams : /\ strm'[s].st = "OPENED" => strm[s].st = "OPENED"
                            /\ strm[s].st = "CLOSED" => strm'[s].st = "CLOSED"
                            /\ strm[s].st # "IDLE" => strm'[s].st # "IDLE",
         DOMAIN heap \subseteq DOMAIN heap', \A i \in DOMAIN heap : heap[i] = 1 => heap'[i] = 1,
         \A i \in DOMAIN heap' : i \notin DOMAIN heap =>
           i.type # "DATA" /\ (i.type = "RST_STREAM" => strm'[i.s].st # "IDLE"),
         "TERM_SENT" \in goaway' <=> "TERM_SENT" \in goaway,
         \/ urgent' = urgent
         \/ \E i \in Items : /\ urgent' = Append(urgent, i)
                             /\ IsAck(i) => \A j \in DOMAIN heap : j.type = i.type => j.n < i.n
  PROVE  WireInv' /\ OrderInv'
<1>1. TypeOK /\ ItemsOwned
  BY DEF OInv, FloodCounted
<1>2. Now' = Now /\ Part' = Part /\ Out' = Out /\ (Continued' <=> Continued)
  BY DEF Now, Part, Out, Continued
<1>3. WireInv' /\ Frames' = Frames /\ Whole' = Whole
  BY <1>1, <1>2, PartIs, WireSame
<1>4. AobInv'
  BY DEF OrderInv, AobInv
<1>5. LastInv'
  <2>1. ASSUME aob.item = None, urgent # << >>, Head(urgent).type = "SETTINGS"
        PROVE  urgent' # << >> /\ Head(urgent').type = "SETTINGS"
    <3>1. CASE urgent' = urgent
      BY <2>1, <3>1
    <3>2. ASSUME NEW i \in Items, urgent' = Append(urgent, i)
          PROVE  urgent' # << >> /\ Head(urgent') = Head(urgent)
      <4>1. urgent \in Seq(Items)
        BY <1>1 DEF TypeOK
      <4>2. Append(urgent, i) # << >> /\ Head(Append(urgent, i)) = Head(urgent)
        BY ONLY <2>1, <3>2, <4>1
      <4> QED BY <3>2, <4>2
    <3> QED BY <2>1, <3>1, <3>2
  <2> QED BY <1>2, <1>3, <2>1 DEF OrderInv, LastInv
<1>6. AckOrder'
  <2>1. CASE urgent' = urgent
    BY <1>2, <1>3, <2>1 DEF OrderInv, AckOrder
  <2>2. ASSUME NEW i \in Items, urgent' = Append(urgent, i),
               IsAck(i) => \A j \in DOMAIN heap : j.type = i.type => j.n < i.n
        PROVE  AckOrder'
    BY <1>1, <1>3, <2>2, AckQueued DEF OrderInv
  <2> QED BY <2>1, <2>2
<1>7. GoawayOrder'
  BY <1>2, <1>3 DEF OrderInv, GoawayOrder
<1>8. StreamOrder'
  <2> SUFFICES ASSUME NEW s \in Streams
               PROVE  /\ strm'[s].st = "OPENED" \/ Data(s) \in DOMAIN heap' \/ Begun(s)' => HeadersOut(s)'
                      /\ HeadersOut(s)' =>
                           \E i \in DOMAIN heap' : /\ i.type = "HEADERS" /\ i.s = s
                                                   /\ heap'[i] = 1 \/ (aob'.item = i /\ Begun(s)')
                      /\ EndOut(s)' => strm'[s].st = "CLOSED" \/ (Out' /\ Ended(Now', s))
                      /\ aob'.item.s = s /\ (aob'.item.type = "HEADERS" \/ (aob'.item.type = "DATA" /\ ~Out'))
                           => ~EndOut(s)'
                      /\ (\E i \in DOMAIN heap' : i.type = "RST_STREAM" /\ i.s = s) => strm'[s].st # "IDLE"
    BY DEF StreamOrder, Ended
  <2>1. (HeadersOut(s)' <=> HeadersOut(s)) /\ (EndOut(s)' <=> EndOut(s)) /\ (Begun(s)' <=> Begun(s))
    BY <1>2, <1>3 DEF HeadersOut, EndOut, Begun, Ended
  <2>2. Data(s) \in DOMAIN heap' => Data(s) \in DOMAIN heap
    BY ItemFields
  <2>3. (\E i \in DOMAIN heap' : i.type = "RST_STREAM" /\ i.s = s) => strm'[s].st # "IDLE"
    BY DEF OrderInv, StreamOrder
  <2>4. HeadersOut(s) =>
          \E i \in DOMAIN heap' : /\ i.type = "HEADERS" /\ i.s = s
                                  /\ heap'[i] = 1 \/ (aob'.item = i /\ Begun(s)')
    BY <2>1 DEF OrderInv, StreamOrder
  <2>5. EndOut(s) => strm'[s].st = "CLOSED" \/ (Out /\ Ended(Now, s))
    BY DEF OrderInv, StreamOrder
  <2>6. aob'.item.s = s /\ (aob'.item.type = "HEADERS" \/ (aob'.item.type = "DATA" /\ ~Out)) => ~EndOut(s)
    BY DEF OrderInv, StreamOrder
  <2>7. strm'[s].st = "OPENED" \/ Data(s) \in DOMAIN heap' \/ Begun(s)' => HeadersOut(s)
    BY <2>1, <2>2 DEF OrderInv, StreamOrder
  <2> QED BY <1>2, <2>1, <2>3, <2>4, <2>5, <2>6, <2>7
<1> QED BY <1>3, <1>4, <1>5, <1>6, <1>7, <1>8 DEF OrderInv

\* Nothing is being sent, and an item is packed, or dropped.
LEMMA PackKeeps ==
  ASSUME OInv, wire' = wire, WireInv, OrderInv, aob.item = None, goaway' = goaway,
         \A s \in Streams : strm'[s].st = strm[s].st,
         DOMAIN heap' = DOMAIN heap, \A h \in DOMAIN heap : heap[h] = 1 => heap'[h] = 1,
         urgent' = urgent \/ (urgent # << >> /\ urgent' = Tail(urgent)), NEW i,
         \/ aob' = NoItem /\ Whole > 0
         \/ /\ aob' = [item |-> i, chunks |-> IF i.type = "HEADERS" THEN i.n ELSE 1, cur |-> 1, pos |-> 0]
            /\ i \in Items
            /\ i.type = "HEADERS" => i.n >= 1
            /\ Whole = 0 => i.type = "SETTINGS"
            /\ "TERM_SENT" \in goaway => i.type \in {"SETTINGS", "GOAWAY"}
            /\ IsAck(i) => urgent # << >> /\ i = Head(urgent) /\ urgent' = Tail(urgent)
            /\ i.type \in {"HEADERS", "DATA"} => strm[i.s].st \in {"OPENING", "OPENED"}
  PROVE  WireInv' /\ OrderInv'
<1>1. TypeOK
  BY DEF OInv, FloodCounted
<1>2. aob'.item # None => aob'.item = i /\ i \in Items
  BY DEF NoItem
<1>3. aob'.cur = 1 /\ aob'.pos = 0 /\ FrameOctets # 0
  BY OutboundAssumption DEF NoItem
<1>4. Part = 0 /\ Part' = 0 /\ ~Out /\ ~Out' /\ ~Continued /\ ~Continued'
  BY <1>3, ItemKinds DEF Part, Out, Continued, None, Item
<1>5. WireInv' /\ Frames' = Frames /\ Whole' = Whole
  BY <1>4, WireSame
<1>6. AobInv'
  <2>1. CASE aob' = NoItem
    BY <2>1 DEF AobInv, NoItem
  <2>2. CASE aob' # NoItem
    BY <1>2, <2>2, ItemKinds DEF AobInv
  <2> QED BY <2>1, <2>2
<1>7. LastInv'
  <2>1. Whole = 0 => aob'.item.type = "SETTINGS"
    BY <1>1, <1>5 DEF NoItem
  <2> QED BY <1>4, <1>5, <2>1 DEF OrderInv, LastInv
<1>8. AckOrder'
  <2>1. urgent \in Seq(Items) /\ IsInjective(urgent)
    BY <1>1 DEF TypeOK, OInv, QueueInv
  <2>2. Range(urgent') \subseteq Range(urgent)
    BY <2>1, TakeItem
  <2>3. IsAck(aob'.item) => /\ aob'.item = i /\ urgent # << >> /\ i = Head(urgent) /\ urgent' = Tail(urgent)
                            /\ i \in Range(urgent)
    <3>1. ~IsAck(NoItem.item)
      BY ItemFields DEF IsAck, NoItem
    <3> QED BY <2>1, <3>1, TakeItem
  <2>4. ASSUME urgent # << >>, urgent' = Tail(urgent)
        PROVE  /\ Head(urgent) = urgent[1] /\ 1 \in DOMAIN urgent
               /\ \A k \in DOMAIN urgent' : /\ k + 1 \in DOMAIN urgent /\ k \in Nat /\ 1 < k + 1
                                            /\ urgent'[k] = urgent[k + 1]
    BY <2>1, <2>4
  <2>5. ASSUME NEW k \in DOMAIN urgent', NEW l \in DOMAIN urgent', k < l, IsAck(urgent'[k]),
               urgent'[l].type = urgent'[k].type
        PROVE  urgent'[k].n < urgent'[l].n
    <3>1. CASE urgent' = urgent
      BY <2>5, <3>1 DEF OrderInv, AckOrder
    <3>2. CASE urgent # << >> /\ urgent' = Tail(urgent)
      <4> DEFINE k1 == k + 1
                 l1 == l + 1
      <4>1. k1 \in DOMAIN urgent /\ urgent'[k] = urgent[k1] /\ k \in Nat
        BY <2>4, <3>2
      <4>2. l1 \in DOMAIN urgent /\ urgent'[l] = urgent[l1] /\ l \in Nat
        BY <2>4, <3>2
      <4>3. k1 < l1
        BY <2>5, <4>1, <4>2
      <4> HIDE DEF k1, l1
      <4> QED BY <2>5, <4>1, <4>2, <4>3 DEF OrderInv, AckOrder
    <3> QED BY <3>1, <3>2
  <2>6. ASSUME NEW h \in Range(urgent'), IsAck(aob'.item), h.type = aob'.item.type
        PROVE  aob'.item.n < h.n
    <3>1. urgent # << >> /\ i = Head(urgent) /\ urgent' = Tail(urgent)
      BY <2>3, <2>6
    <3>2. PICK k \in DOMAIN urgent' : h = urgent'[k]
      BY <3>1 DEF Range
    <3> DEFINE k1 == k + 1
    <3>3. k1 \in DOMAIN urgent /\ 1 < k1 /\ urgent[1] = i /\ 1 \in DOMAIN urgent /\ h = urgent[k1]
      BY <2>4, <3>1, <3>2
    <3> HIDE DEF k1
    <3> QED BY <2>3, <2>6, <3>3 DEF OrderInv, AckOrder
  <2>7. ASSUME NEW j \in 1 .. Whole', Frames'[j].type \in AckTypes
        PROVE  /\ Item(Frames'[j].type, 0, Frames'[j].n) \in DOMAIN heap'
               /\ \A h \in Range(urgent') : h.type = Frames'[j].type => Frames'[j].n < h.n
               /\ aob'.item.type = Frames'[j].type /\ ~Out' => Frames'[j].n < aob'.item.n
    <3>1. /\ Item(Frames[j].type, 0, Frames[j].n) \in DOMAIN heap
          /\ \A h \in Range(urgent) : h.type = Frames[j].type => Frames[j].n < h.n
      BY <1>5, <2>7 DEF OrderInv, AckOrder
    <3>2. aob'.item.type = Frames[j].type => aob'.item \in Range(urgent)
      BY <1>5, <2>3, <2>7 DEF AckTypes, IsAck
    <3> QED BY <1>5, <2>2, <3>1, <3>2
  <2> QED BY <2>5, <2>6, <2>7 DEF AckOrder
<1>9. GoawayOrder'
  <2>1. "TERM_SENT" \in goaway' => aob'.item.type \in {"none", "SETTINGS", "GOAWAY"}
    BY ItemFields DEF NoItem
  <2>2. \A j \in 1 .. Whole' : Frames'[j].type = "GOAWAY" => "TERM_SENT" \in goaway'
    BY <1>4, <1>5 DEF OrderInv, GoawayOrder
  <2> QED BY <2>1, <2>2 DEF GoawayOrder
<1>10. StreamOrder'
  <2> SUFFICES ASSUME NEW s \in Streams
               PROVE  /\ strm'[s].st = "OPENED" \/ Data(s) \in DOMAIN heap' \/ Begun(s)' => HeadersOut(s)'
                      /\ HeadersOut(s)' =>
                           \E h \in DOMAIN heap' : /\ h.type = "HEADERS" /\ h.s = s
                                                   /\ heap'[h] = 1 \/ (aob'.item = h /\ Begun(s)')
                      /\ EndOut(s)' => strm'[s].st = "CLOSED" \/ (Out' /\ Ended(Now', s))
                      /\ aob'.item.s = s /\ (aob'.item.type = "HEADERS" \/ (aob'.item.type = "DATA" /\ ~Out'))
                           => ~EndOut(s)'
                      /\ (\E h \in DOMAIN heap' : h.type = "RST_STREAM" /\ h.s = s) => strm'[s].st # "IDLE"
    BY DEF StreamOrder, Ended
  <2>1. (HeadersOut(s)' <=> HeadersOut(s)) /\ (EndOut(s)' <=> EndOut(s)) /\ ~Begun(s)' /\ ~Begun(s)
    BY <1>4, <1>5 DEF HeadersOut, EndOut, Begun, Ended
  <2>2. strm'[s].st = "OPENED" \/ Data(s) \in DOMAIN heap' => HeadersOut(s)
    BY DEF OrderInv, StreamOrder
  <2>3. HeadersOut(s) =>
          \E h \in DOMAIN heap' : /\ h.type = "HEADERS" /\ h.s = s /\ heap'[h] = 1
    BY <2>1 DEF OrderInv, StreamOrder
  <2>4. EndOut(s) => strm'[s].st = "CLOSED"
    BY <1>4 DEF OrderInv, StreamOrder
  <2>5. aob'.item.s = s /\ aob'.item.type \in {"HEADERS", "DATA"} => ~EndOut(s)
    <3>1. aob'.item.type \in {"HEADERS", "DATA"} => aob'.item = i /\ strm[i.s].st \in {"OPENING", "OPENED"}
      BY ItemFields DEF NoItem
    <3> QED BY <2>4, <3>1
  <2>6. (\E h \in DOMAIN heap' : h.type = "RST_STREAM" /\ h.s = s) => strm'[s].st # "IDLE"
    BY DEF OrderInv, StreamOrder
  <2> QED BY <2>1, <2>2, <2>3, <2>4, <2>5, <2>6
<1> QED BY <1>5, <1>6, <1>7, <1>8, <1>9, <1>10 DEF OrderInv

\* The send callback takes octets: when they are the last of a frame, that frame was allowed.
LEMMA WriteKeeps ==
  ASSUME OInv, wire \in Seq(Octets), WireInv, OrderInv, NEW n \in Takes, Write(n)
  PROVE  /\ wire' \in Seq(Octets) /\ WireInv' /\ OrderInv'
         /\ \/ Frames' = Frames
            \/ Frames' = Append(Frames, Now) /\ Now \in Promise!Frame /\ Promise!Allowed(Now)
<1> DEFINE i == aob.item
<1>1. TypeOK /\ AobInv
  BY DEF OInv, FloodCounted, OrderInv
<1>2. /\ wire' \in Seq(Octets) /\ WireInv' /\ Now' = Now
      /\ ~Out' => Whole' = Whole /\ Frames' = Frames
      /\ Out' => Whole' = Whole + 1 /\ Frames' = Append(Frames, Now)
  BY <1>1, WriteFrames
<1>3. /\ i # None /\ aob.pos < FrameOctets /\ ~Out
      /\ aob'.item = i /\ aob'.cur = aob.cur /\ aob'.chunks = aob.chunks
      /\ urgent' = urgent /\ strm' = strm /\ heap' = heap /\ goaway' = goaway
  BY <1>1, OutboundAssumption DEF Write, Sending, TypeOK, Out
<1>6. AobInv'
  BY <1>1, <1>3 DEF AobInv
<1>4. CASE ~Out'
  <2>1. (Continued' <=> Continued) /\ \A s : (Begun(s)' <=> Begun(s))
    BY <1>3, <1>4 DEF Continued, Begun
  <2>2. LastInv'
    BY <1>2, <1>3, <1>4, <2>1 DEF OrderInv, LastInv
  <2>3. AckOrder'
    BY <1>2, <1>3, <1>4 DEF OrderInv, AckOrder
  <2>4. GoawayOrder'
    BY <1>2, <1>3, <1>4 DEF OrderInv, GoawayOrder
  <2>5. StreamOrder'
    <3>1. \A s : (HeadersOut(s)' <=> HeadersOut(s)) /\ (EndOut(s)' <=> EndOut(s))
      BY <1>2, <1>4 DEF HeadersOut, EndOut, Ended
    <3> QED BY <1>2, <1>3, <1>4, <2>1, <3>1 DEF OrderInv, StreamOrder, Ended
  <2> QED BY <1>6, <1>2, <1>4, <2>2, <2>3, <2>4, <2>5 DEF OrderInv
<1>5. CASE Out'
  <2> DEFINE f == Now
             W == Whole
  <2>1. /\ W \in Nat /\ Frames \in Seq(Promise!Frame) /\ Len(Frames) = W
    BY <1>1, FramesNow
  <2>2. /\ f \in Promise!Frame /\ f.s = i.s
        /\ f.type = (IF aob.cur > 1 THEN "CONTINUATION" ELSE i.type)
        /\ aob.cur > 1 => i.type = "HEADERS"
        /\ IsAck(i) => f.n = i.n
    BY <1>1, <1>3, NowIsFrame
  <2>3. i \in Items /\ aob.cur \in Nat \ {0} /\ i \in DOMAIN heap
    BY <1>1, <1>3 DEF TypeOK, OInv, ItemsOwned, Held
  <2> HIDE DEF f, W, i
  <2>4. /\ Whole' = W + 1 /\ Frames'[W + 1] = f /\ W + 1 \in 1 .. W + 1
        /\ \A j \in 1 .. W + 1 : j \in 1 .. W \/ j = W + 1
        /\ \A j \in 1 .. W : j \in 1 .. W + 1 /\ Frames'[j] = Frames[j]
    <3> DEFINE G == Append(Frames, f)
    <3>1. /\ G[W + 1] = f /\ \A j \in 1 .. W : G[j] = Frames[j]
      BY <2>1, <2>2
    <3>2. Whole' = W + 1 /\ Frames' = G
      BY <1>2, <1>5 DEF f, W
    <3> HIDE DEF G
    <3>3. /\ W + 1 \in 1 .. W + 1
          /\ \A j \in 1 .. W + 1 : j \in 1 .. W \/ j = W + 1
          /\ \A j \in 1 .. W : j \in 1 .. W + 1
      BY <2>1
    <3> QED BY <3>1, <3>2, <3>3
  <2>5. ~Continued' /\ (aob.cur > 1 => Continued)
    BY <1>3, <1>5, <2>2 DEF Continued, i
  <2>6. LastInv'
    BY <1>2, <1>3, <1>5, <2>1, <2>4, <2>5 DEF LastInv, f
  <2>7. AckOrder'
    <3>1. ASSUME NEW j \in 1 .. Whole', Frames'[j].type \in AckTypes
          PROVE  /\ Item(Frames'[j].type, 0, Frames'[j].n) \in DOMAIN heap
                 /\ \A h \in Range(urgent) : h.type = Frames'[j].type => Frames'[j].n < h.n
      <4>1. CASE j \in 1 .. W
        BY <2>4, <3>1, <4>1 DEF OrderInv, AckOrder, W
      <4>2. CASE j = W + 1
        <5>1. f.type = i.type /\ IsAck(i) /\ f.n = i.n
          BY <2>2, <2>4, <3>1, <4>2 DEF AckTypes, IsAck
        <5>2. Item(f.type, 0, f.n) = i
          BY <2>3, <5>1 DEF IsAck, Items, Item, Data
        <5>3. \A h \in Range(urgent) : h.type = i.type => i.n < h.n
          BY <5>1 DEF OrderInv, AckOrder, i
        <5> QED BY <2>3, <2>4, <4>2, <5>1, <5>2, <5>3
      <4> QED BY <2>4, <4>1, <4>2
    <3> QED BY <1>3, <1>5, <3>1 DEF OrderInv, AckOrder, i
  <2>8. GoawayOrder'
    <3>1. \A j \in 1 .. W : Frames[j].type = "GOAWAY" => "TERM_SENT" \in goaway
      BY <1>3 DEF OrderInv, GoawayOrder, W
    <3>2. f.type = "GOAWAY" => i.type = "GOAWAY"
      BY <2>2
    <3> QED BY <1>3, <1>5, <2>4, <3>1, <3>2 DEF OrderInv, GoawayOrder, i
  <2>9. StreamOrder'
    <3> SUFFICES ASSUME NEW s \in Streams
                 PROVE  /\ strm'[s].st = "OPENED" \/ Data(s) \in DOMAIN heap' \/ Begun(s)' => HeadersOut(s)'
                        /\ HeadersOut(s)' =>
                             \E h \in DOMAIN heap' : /\ h.type = "HEADERS" /\ h.s = s
                                                     /\ heap'[h] = 1 \/ (aob'.item = h /\ Begun(s)')
                        /\ EndOut(s)' => strm'[s].st = "CLOSED" \/ (Out' /\ Ended(Now', s))
                        /\ aob'.item.s = s /\ (aob'.item.type = "HEADERS" \/ (aob'.item.type = "DATA" /\ ~Out'))
                             => ~EndOut(s)'
                        /\ (\E h \in DOMAIN heap' : h.type = "RST_STREAM" /\ h.s = s) => strm'[s].st # "IDLE"
      BY DEF StreamOrder, Ended
    <3>1. HeadersOut(s)' <=> HeadersOut(s) \/ (f.s = s /\ f.type = "HEADERS")
      BY <2>4 DEF HeadersOut, W
    <3>2. EndOut(s)' <=> EndOut(s) \/ Ended(f, s)
      BY <2>4 DEF EndOut, Ended, W
    <3>3. /\ Begun(s)' <=> i.type = "HEADERS" /\ i.s = s
          /\ Begun(s) <=> i.type = "HEADERS" /\ i.s = s /\ Continued
      BY <1>3, <1>5 DEF Begun, i
    <3>4. strm[s].st = "OPENED" \/ Data(s) \in DOMAIN heap \/ Begun(s) => HeadersOut(s)
      BY DEF OrderInv, StreamOrder
    <3>5. Begun(s)' => HeadersOut(s)'
      BY <2>2, <2>3, <2>5, <3>1, <3>3, <3>4
    <3>6. HeadersOut(s) =>
            \E h \in DOMAIN heap : /\ h.type = "HEADERS" /\ h.s = s
                                   /\ heap[h] = 1 \/ (i = h /\ Begun(s))
      BY DEF OrderInv, StreamOrder, i
    <3>7. f.s = s /\ f.type = "HEADERS" => i.s = s /\ i.type = "HEADERS"
      BY <2>2
    <3>8. HeadersOut(s)' =>
            \E h \in DOMAIN heap : /\ h.type = "HEADERS" /\ h.s = s
                                   /\ heap[h] = 1 \/ (i = h /\ Begun(s)')
      BY <2>3, <3>1, <3>3, <3>6, <3>7
    <3>9. EndOut(s) => strm[s].st = "CLOSED"
      BY <1>3 DEF OrderInv, StreamOrder
    <3>10. i.s = s /\ i.type = "HEADERS" => ~EndOut(s) /\ ~Ended(f, s)
      BY <2>2 DEF OrderInv, StreamOrder, Ended, i
    <3>11. (\E h \in DOMAIN heap : h.type = "RST_STREAM" /\ h.s = s) => strm[s].st # "IDLE"
      BY DEF OrderInv, StreamOrder
    <3> QED BY <1>2, <1>3, <1>5, <3>1, <3>2, <3>4, <3>5, <3>8, <3>9, <3>10, <3>11 DEF f, i
  <2>10. Promise!Allowed(Now)
    BY <1>3, WriteAllowed DEF i
  <2> QED BY <1>6, <1>2, <1>5, <2>2, <2>6, <2>7, <2>8, <2>9, <2>10 DEF OrderInv, f
<1> QED BY <1>4, <1>5

\* The next chunk of a header block follows the one that is out.
LEMMA ContinueKeeps ==
  ASSUME OInv, WireInv, OrderInv, HeadersContinue
  PROVE  WireInv' /\ OrderInv' /\ Frames' = Frames
<1> DEFINE i == aob.item
<1>1. TypeOK
  BY DEF OInv, FloodCounted
<1>2. /\ i.type = "HEADERS" /\ Out /\ aob.cur < aob.chunks /\ i # None
      /\ aob'.item = i /\ aob'.cur = aob.cur + 1 /\ aob'.chunks = aob.chunks /\ aob'.pos = 0
      /\ wire' = wire /\ urgent' = urgent /\ strm' = strm /\ heap' = heap /\ goaway' = goaway
  BY <1>1 DEF HeadersContinue, Sent, Sending, NextPresent, Out, TypeOK
<1>3. aob.cur \in Nat \ {0} /\ aob.chunks \in Nat
  BY <1>1 DEF TypeOK
<1>4. Part = 0 /\ Part' = 0 /\ ~Out' /\ Continued' /\ ~Continued
  BY <1>2, <1>3, OutboundAssumption DEF Part, Out, Continued
<1>5. WireInv' /\ Frames' = Frames /\ Whole' = Whole
  BY <1>2, <1>4, WireSame
<1>6. AobInv'
  BY <1>2, <1>3 DEF OrderInv, AobInv
<1>7. Now = FrameOf(i, aob.cur, aob.chunks, 0) /\ ~Ended(Now, i.s)
  <2>1. Now = FrameOf(i, aob.cur, aob.chunks, 0)
    BY <1>2 DEF Now
  <2>2. Now.type \in {"HEADERS", "CONTINUATION"}
    BY <1>2, <2>1 DEF FrameOf
  <2> QED BY <2>1, <2>2 DEF Ended
<1>8. LastInv'
  <2>1. aob'.cur - 1 = aob.cur
    BY <1>2, <1>3
  <2>2. Whole > 0 /\ Frames[Whole] = FrameOf(aob'.item, aob'.cur - 1, aob'.chunks, 0)
    BY <1>2, <1>7, <2>1 DEF OrderInv, LastInv
  <2>3. Whole' # 0
    BY <1>5, <2>2
  <2> QED BY <1>4, <1>5, <2>2, <2>3 DEF LastInv
<1>9. AckOrder'
  BY <1>2, <1>5 DEF OrderInv, AckOrder, AckTypes
<1>10. GoawayOrder'
  BY <1>2, <1>5 DEF OrderInv, GoawayOrder
<1>11. StreamOrder'
  <2> SUFFICES ASSUME NEW s \in Streams
               PROVE  /\ strm'[s].st = "OPENED" \/ Data(s) \in DOMAIN heap' \/ Begun(s)' => HeadersOut(s)'
                      /\ HeadersOut(s)' =>
                           \E h \in DOMAIN heap' : /\ h.type = "HEADERS" /\ h.s = s
                                                   /\ heap'[h] = 1 \/ (aob'.item = h /\ Begun(s)')
                      /\ EndOut(s)' => strm'[s].st = "CLOSED" \/ (Out' /\ Ended(Now', s))
                      /\ aob'.item.s = s /\ (aob'.item.type = "HEADERS" \/ (aob'.item.type = "DATA" /\ ~Out'))
                           => ~EndOut(s)'
                      /\ (\E h \in DOMAIN heap' : h.type = "RST_STREAM" /\ h.s = s) => strm'[s].st # "IDLE"
    BY DEF StreamOrder, Ended
  <2>1. (HeadersOut(s)' <=> HeadersOut(s)) /\ (EndOut(s)' <=> EndOut(s)) /\ (Begun(s)' <=> Begun(s))
    BY <1>2, <1>4, <1>5 DEF HeadersOut, EndOut, Begun, Ended
  <2>2. EndOut(s) => strm[s].st = "CLOSED"
    <3>1. Now.s = i.s
      BY <1>7 DEF FrameOf
    <3>2. ~Ended(Now, s)
      BY <1>7, <3>1 DEF Ended
    <3> QED BY <3>2 DEF OrderInv, StreamOrder
  <2> QED BY <1>2, <2>1, <2>2 DEF OrderInv, StreamOrder
<1> QED BY <1>5, <1>6, <1>8, <1>9, <1>10, <1>11 DEF OrderInv

\* The frame is out and its item leaves the sender.
LEMMA DoneKeeps ==
  ASSUME OInv, WireInv, OrderInv, wire' = wire, Out, aob' = NoItem, urgent' = urgent,
         aob.item.type = "HEADERS" => aob.cur >= aob.chunks,
         \A s \in Streams :
           /\ strm'[s].st = "OPENED" => strm[s].st = "OPENED" \/ (aob.item.type = "HEADERS" /\ aob.item.s = s)
           /\ strm[s].st = "CLOSED" => strm'[s].st = "CLOSED"
           /\ strm[s].st # "IDLE" => strm'[s].st # "IDLE"
           /\ Ended(Now, s) => strm'[s].st = "CLOSED",
         DOMAIN heap \subseteq DOMAIN heap', \A h \in DOMAIN heap : heap[h] = 1 => heap'[h] = 1,
         \A h \in DOMAIN heap' : h \notin DOMAIN heap => h = Data(aob.item.s) /\ aob.item.type = "HEADERS",
         aob.item.type = "HEADERS" => heap'[aob.item] = 1,
         "TERM_SENT" \in goaway => "TERM_SENT" \in goaway',
         "TERM_SENT" \in goaway' => "TERM_SENT" \in goaway \/ aob.item.type = "GOAWAY",
         aob.item.type = "GOAWAY" => "TERM_SENT" \in goaway'
  PROVE  WireInv' /\ OrderInv' /\ Frames' = Frames
<1> DEFINE i == aob.item
<1>1. TypeOK /\ AobInv
  BY DEF OInv, FloodCounted, OrderInv
<1>2. i # None /\ i \in Items /\ aob.cur \in Nat \ {0} /\ i \in DOMAIN heap
  BY <1>1 DEF Out, TypeOK, OInv, ItemsOwned, Held
<1>3. aob'.item = None /\ aob'.item.type = "none"
  BY ItemFields DEF NoItem
<1>4. Part = 0 /\ Part' = 0 /\ ~Out' /\ ~Continued' /\ ~Continued
  BY <1>3 DEF Part, Out, Continued
<1>5. WireInv' /\ Frames' = Frames /\ Whole' = Whole
  BY <1>4, WireSame
<1>6. AobInv'
  BY <1>3 DEF AobInv, NoItem
<1>7. /\ Now.s = i.s /\ Now.type = (IF aob.cur > 1 THEN "CONTINUATION" ELSE i.type)
      /\ aob.cur > 1 => i.type = "HEADERS"
  BY <1>1, <1>2, NowIsFrame
<1>8. Now.type \in {"HEADERS", "CONTINUATION"} => Now.end
  <2> SUFFICES ASSUME Now.type \in {"HEADERS", "CONTINUATION"} PROVE Now.end
    OBVIOUS
  <2>1. i.type = "HEADERS"
    BY <1>7, <1>2, ItemKinds
  <2>2. i.n \in Blocks /\ i.n \in Nat /\ aob.chunks = i.n /\ aob.cur <= aob.chunks
    BY <1>1, <1>2, <2>1, ItemKinds, OutboundAssumption DEF AobInv
  <2>3. aob.cur = i.n
    BY <1>2, <2>1, <2>2
  <2> DEFINE left == IF i.type = "DATA" THEN strm[i.s].left ELSE 0
  <2>4. Now = FrameOf(i, aob.cur, aob.chunks, left)
    BY DEF Now
  <2> HIDE DEF left, i
  <2> QED BY <2>1, <2>3, <2>4 DEF FrameOf
<1>9. LastInv'
  <2>1. Whole > 0 /\ Frames[Whole] = Now
    BY DEF OrderInv, LastInv
  <2>2. Whole' # 0
    BY <1>5, <2>1
  <2> QED BY <1>4, <1>5, <1>8, <2>1, <2>2 DEF LastInv
<1>10. AckOrder'
  BY <1>3, <1>5 DEF OrderInv, AckOrder, AckTypes, IsAck
<1>11. GoawayOrder'
  BY <1>3, <1>5 DEF OrderInv, GoawayOrder
<1>12. StreamOrder'
  <2> SUFFICES ASSUME NEW s \in Streams
               PROVE  /\ strm'[s].st = "OPENED" \/ Data(s) \in DOMAIN heap' \/ Begun(s)' => HeadersOut(s)'
                      /\ HeadersOut(s)' =>
                           \E h \in DOMAIN heap' : /\ h.type = "HEADERS" /\ h.s = s
                                                   /\ heap'[h] = 1 \/ (aob'.item = h /\ Begun(s)')
                      /\ EndOut(s)' => strm'[s].st = "CLOSED" \/ (Out' /\ Ended(Now', s))
                      /\ aob'.item.s = s /\ (aob'.item.type = "HEADERS" \/ (aob'.item.type = "DATA" /\ ~Out'))
                           => ~EndOut(s)'
                      /\ (\E h \in DOMAIN heap' : h.type = "RST_STREAM" /\ h.s = s) => strm'[s].st # "IDLE"
    BY DEF StreamOrder, Ended
  <2>1. /\ HeadersOut(s)' <=> HeadersOut(s)
        /\ EndOut(s)' <=> EndOut(s)
        /\ ~Begun(s)'
        /\ Begun(s) <=> i.type = "HEADERS" /\ i.s = s
    BY <1>3, <1>5 DEF HeadersOut, EndOut, Begun, Ended
  <2>2. strm'[s].st = "OPENED" \/ Data(s) \in DOMAIN heap' => HeadersOut(s)
    <3>1. Data(s) \in DOMAIN heap' /\ Data(s) \notin DOMAIN heap => i.type = "HEADERS" /\ i.s = s
      <4>1. Data(s) = Data(i.s) => i.s = s
        BY DEF Data, Item
      <4> QED BY <4>1
    <3> QED BY <2>1, <3>1 DEF OrderInv, StreamOrder
  <2>3. HeadersOut(s) => \E h \in DOMAIN heap' : h.type = "HEADERS" /\ h.s = s /\ heap'[h] = 1
    <3>1. HeadersOut(s) =>
            \E h \in DOMAIN heap : /\ h.type = "HEADERS" /\ h.s = s
                                   /\ heap[h] = 1 \/ (aob.item = h /\ Begun(s))
      BY DEF OrderInv, StreamOrder
    <3> QED BY <3>1
  <2>4. EndOut(s) => strm'[s].st = "CLOSED"
    BY DEF OrderInv, StreamOrder
  <2>5. ~(aob'.item.type = "HEADERS" \/ aob'.item.type = "DATA")
    BY <1>3
  <2>6. (\E h \in DOMAIN heap' : h.type = "RST_STREAM" /\ h.s = s) => strm'[s].st # "IDLE"
    <3>1. \A h \in DOMAIN heap' : h.type = "RST_STREAM" => h \in DOMAIN heap
      <4>1. Data(aob.item.s).type = "DATA"
        BY DEF Data, Item
      <4> QED BY <4>1
    <3> QED BY <3>1 DEF OrderInv, StreamOrder
  <2> QED BY <2>1, <2>2, <2>3, <2>4, <2>5, <2>6
<1> QED BY <1>5, <1>6, <1>9, <1>10, <1>11, <1>12 DEF OrderInv

-----------------------------------------------------------------------------
(* Every step. *)

\* What is freed was held, and what was freed before stays so.
LEMMA FreeFacts ==
  ASSUME ItemsOwned, NEW G \in SUBSET Held
  PROVE  /\ DOMAIN Free(heap, G) = DOMAIN heap
         /\ \A h \in DOMAIN heap : heap[h] = 1 => Free(heap, G)[h] = 1
         /\ \A h \in DOMAIN heap \cap G : Free(heap, G)[h] = 1
BY DEF Free, ItemsOwned

\* What is made is new.
LEMMA AllocFacts ==
  ASSUME NEW h, NEW i, i \notin DOMAIN h
  PROVE  DOMAIN Alloc(h, i) = DOMAIN h \cup {i} /\ \A j \in DOMAIN h : Alloc(h, i)[j] = h[j]
BY DEF Alloc

\* A stream changes its state.
LEMMA StateChange ==
  ASSUME TypeOK, NEW s \in Streams, NEW state, strm' = [strm EXCEPT ![s].st = state]
  PROVE  /\ strm'[s].st = state
         /\ \A r \in Streams : (r # s => strm'[r].st = strm[r].st) /\ strm'[r].left = strm[r].left
BY DEF TypeOK

\* A stream is closed.
LEMMA ClosedChange ==
  ASSUME TypeOK, NEW s \in Streams, strm' = Closed(s)
  PROVE  /\ strm'[s].st = "CLOSED"
         /\ \A r \in Streams : (r # s => strm'[r].st = strm[r].st) /\ strm'[r].left = strm[r].left
BY DEF TypeOK, Closed

\* The stream of an item of DATA.
LEMMA DataStream ==
  ASSUME TypeOK, aob.item.type = "DATA"
  PROVE  aob.item.s \in Streams /\ aob.item = Data(aob.item.s)
<1>1. aob.item # None
  BY ItemFields
<1> QED BY <1>1, ItemKinds DEF TypeOK

\* An acknowledgement is queued, or not.
LEMMA AcknowledgedSent ==
  ASSUME OInv, WireInv, OrderInv, NEW type \in AckTypes, OnAcknowledged(type)
  PROVE  WireInv' /\ OrderInv'
<1> DEFINE i == New(type, 0)
<1>1. TypeOK /\ Numbered(type, 0) /\ events < MaxEvents
  BY DEF OInv, FloodCounted, NameInv, AckTypes, OnAcknowledged, Receives, Event
<1>2. wire' = wire /\ aob' = aob /\ strm' = strm /\ goaway' = goaway
  BY DEF OnAcknowledged, Calm
<1>3. CASE urgent' = urgent /\ heap' = heap
  BY <1>2, <1>3, QuietKeeps
<1>4. CASE AddItem(i)
  <2>1. i \in Items /\ i \notin DOMAIN heap /\ i.type = type
    BY <1>1, NewItem
  <2>2. \A j \in DOMAIN heap : j.type = i.type => j.n < i.n
    BY <1>1, <2>1, AckNext
  <2> HIDE DEF i
  <2>3. urgent' = Append(urgent, i) /\ heap' = Alloc(heap, i)
    BY <1>4, <2>1 DEF AddItem, IsUrgent, AckTypes
  <2>4. DOMAIN heap' = DOMAIN heap \cup {i} /\ \A j \in DOMAIN heap : heap'[j] = heap[j]
    BY ONLY <2>1, <2>3, AllocFacts
  <2>5. \A j \in DOMAIN heap' : j \notin DOMAIN heap => j.type \notin {"DATA", "RST_STREAM"}
    BY <2>1, <2>4 DEF AckTypes
  <2> QED BY <1>2, <2>1, <2>2, <2>3, <2>4, <2>5, QuietKeeps
<1> QED BY <1>3, <1>4 DEF OnAcknowledged

\* The peer opens a stream, resets one, widens a window or says goodbye.
LEMMA PeerSent ==
  ASSUME OInv, WireInv, OrderInv,
         \/ \E s \in Streams : OnRequest(s) \/ OnRst(s) \/ OnWindowUpdate(s)
         \/ OnGoaway
  PROVE  WireInv' /\ OrderInv'
<1>1. TypeOK /\ ItemsOwned
  BY DEF OInv, FloodCounted
<1>2. wire' = wire /\ aob' = aob /\ urgent' = urgent
  BY DEF OnRequest, OnRst, OnWindowUpdate, OnGoaway, Calm
<1>3. ASSUME NEW s \in Streams, OnRequest(s) PROVE WireInv' /\ OrderInv'
  <2>1. strm[s].st = "IDLE" /\ strm' = [strm EXCEPT ![s].st = "OPENING"] /\ heap' = heap /\ goaway' = goaway
    BY <1>3 DEF OnRequest
  <2>2. /\ strm'[s].st = "OPENING"
        /\ \A r \in Streams : (r # s => strm'[r].st = strm[r].st) /\ strm'[r].left = strm[r].left
    BY <1>1, <2>1, StateChange
  <2>3. \A r \in Streams : /\ strm'[r].st = "OPENED" => strm[r].st = "OPENED"
                           /\ strm[r].st = "CLOSED" => strm'[r].st = "CLOSED"
                           /\ strm[r].st # "IDLE" => strm'[r].st # "IDLE"
    BY <2>1, <2>2
  <2> QED BY <1>1, <1>2, <2>1, <2>2, <2>3, DataStream, QuietKeeps
<1>4. ASSUME NEW s \in Streams, OnRst(s) PROVE WireInv' /\ OrderInv'
  <2>1. strm' = Closed(s) /\ heap' = Free(heap, ItemGone(s)) /\ goaway' = goaway
    BY <1>4 DEF OnRst
  <2>2. /\ strm'[s].st = "CLOSED"
        /\ \A r \in Streams : (r # s => strm'[r].st = strm[r].st) /\ strm'[r].left = strm[r].left
    BY <1>1, <2>1, ClosedChange
  <2>3. \A r \in Streams : /\ strm'[r].st = "OPENED" => strm[r].st = "OPENED"
                           /\ strm[r].st = "CLOSED" => strm'[r].st = "CLOSED"
                           /\ strm[r].st # "IDLE" => strm'[r].st # "IDLE"
    BY <2>2
  <2>4. ItemGone(s) \in SUBSET Held
    BY DEF ItemGone, Held
  <2>5. DOMAIN heap' = DOMAIN heap /\ \A h \in DOMAIN heap : heap[h] = 1 => heap'[h] = 1
    BY <1>1, <2>1, <2>4, FreeFacts
  <2> QED BY <1>1, <1>2, <2>1, <2>2, <2>3, <2>5, DataStream, QuietKeeps
<1>5. ASSUME NEW s \in Streams, OnWindowUpdate(s) PROVE WireInv' /\ OrderInv'
  <2>1. heap' = heap /\ goaway' = goaway
    BY <1>5 DEF OnWindowUpdate
  <2>2. \A r \in Streams : strm'[r].st = strm[r].st /\ strm'[r].left = strm[r].left
    BY <1>1, <1>5 DEF OnWindowUpdate, TypeOK
  <2> QED BY <1>1, <1>2, <2>1, <2>2, DataStream, QuietKeeps
<1>6. CASE OnGoaway
  <2>1. heap' = heap /\ strm' = strm /\ goaway' = goaway \cup {"RECV"}
    BY <1>6 DEF OnGoaway
  <2> QED BY <1>2, <2>1, QuietKeeps
<1> QED BY <1>3, <1>4, <1>5, <1>6

\* The session resets a stream, ends, or answers.
LEMMA SessionSent ==
  ASSUME OInv, WireInv, OrderInv,
         \/ \E s \in Streams : \/ AddRstStream(s)
                               \/ \E block \in Blocks, body \in Bodies : SubmitResponse(s, block, body)
         \/ Terminate
  PROVE  WireInv' /\ OrderInv'
<1>1. TypeOK /\ ItemsOwned
  BY DEF OInv, FloodCounted
<1>2. wire' = wire /\ aob' = aob
  BY DEF AddRstStream, SubmitResponse, Terminate, Calm
<1>3. ASSUME NEW i, AddItem(i), ~IsUrgent(i)
      PROVE  urgent' = urgent /\ heap' = Alloc(heap, i)
  BY <1>3 DEF AddItem
<1>4. ASSUME NEW s \in Streams, AddRstStream(s) PROVE WireInv' /\ OrderInv'
  <2> DEFINE i == New("RST_STREAM", s)
  <2>1. events < MaxEvents /\ Numbered("RST_STREAM", s)
    BY <1>4 DEF OInv, NameInv, AddRstStream, Receives, Event
  <2>2. i \notin DOMAIN heap /\ i.type = "RST_STREAM" /\ i.s = s
    BY <1>1, <2>1, NewItem
  <2>3. /\ AddItem(i) /\ strm' = [strm EXCEPT ![s].st = "CLOSING"] /\ goaway' = goaway
        /\ strm[s].st \in {"OPENING", "OPENED"}
    BY <1>4 DEF AddRstStream, Live
  <2> HIDE DEF i
  <2>4. urgent' = urgent /\ heap' = Alloc(heap, i)
    BY <1>3, <2>2, <2>3 DEF IsUrgent
  <2>5. DOMAIN heap' = DOMAIN heap \cup {i} /\ \A j \in DOMAIN heap : heap'[j] = heap[j]
    BY <2>2, <2>4, AllocFacts
  <2>6. /\ strm'[s].st = "CLOSING"
        /\ \A r \in Streams : (r # s => strm'[r].st = strm[r].st) /\ strm'[r].left = strm[r].left
    BY <1>1, <2>3, StateChange
  <2>7. \A r \in Streams : /\ strm'[r].st = "OPENED" => strm[r].st = "OPENED"
                           /\ strm[r].st = "CLOSED" => strm'[r].st = "CLOSED"
                           /\ strm[r].st # "IDLE" => strm'[r].st # "IDLE"
    BY <2>3, <2>6
  <2>8. \A j \in DOMAIN heap' : j \notin DOMAIN heap =>
          j.type # "DATA" /\ (j.type = "RST_STREAM" => strm'[j.s].st # "IDLE")
    BY <2>2, <2>5, <2>6
  <2> QED BY <1>1, <1>2, <2>3, <2>4, <2>5, <2>6, <2>7, <2>8, DataStream, QuietKeeps
<1>5. ASSUME NEW s \in Streams, NEW block \in Blocks, NEW body \in Bodies, SubmitResponse(s, block, body)
      PROVE  WireInv' /\ OrderInv'
  <2> DEFINE i == Item("HEADERS", s, block)
  <2>1. i.type = "HEADERS" /\ i.s = s
    BY ItemFields
  <2>2. /\ \A h \in DOMAIN heap : ~(h.type = "HEADERS" /\ h.s = s)
        /\ AddItem(i) /\ strm' = [strm EXCEPT ![s].left = body] /\ goaway' = goaway
    BY <1>5 DEF SubmitResponse
  <2> HIDE DEF i
  <2>3. i \notin DOMAIN heap
    BY <2>1, <2>2
  <2>4. urgent' = urgent /\ heap' = Alloc(heap, i)
    BY <1>3, <2>1, <2>2 DEF IsUrgent
  <2>5. DOMAIN heap' = DOMAIN heap \cup {i} /\ \A j \in DOMAIN heap : heap'[j] = heap[j]
    BY <2>3, <2>4 DEF Alloc
  <2>6. \A r \in Streams : strm'[r].st = strm[r].st /\ (r # s => strm'[r].left = strm[r].left)
    BY <1>1, <2>2 DEF TypeOK
  <2>7. aob.item.type = "DATA" => aob.item.s \in Streams /\ aob.item.s # s
    <3> SUFFICES ASSUME aob.item.type = "DATA" PROVE aob.item.s \in Streams /\ aob.item.s # s
      OBVIOUS
    <3>1. aob.item.s \in Streams /\ aob.item = Data(aob.item.s)
      BY <1>1, DataStream
    <3>2. aob.item \in DOMAIN heap
      <4>1. aob.item # None
        BY ItemFields
      <4> QED BY <1>1, <4>1 DEF ItemsOwned, Held
    <3>3. \E h \in DOMAIN heap : h.type = "HEADERS" /\ h.s = aob.item.s
      BY <3>1, <3>2 DEF OInv, NameInv
    <3> QED BY <2>2, <3>1, <3>3
  <2>8. \A j \in DOMAIN heap' : j \notin DOMAIN heap => j.type \notin {"DATA", "RST_STREAM"}
    BY <2>1, <2>5
  <2> QED BY <1>2, <2>2, <2>4, <2>5, <2>6, <2>7, <2>8, QuietKeeps
<1>6. CASE Terminate
  <2> DEFINE i == Item("GOAWAY", 0, 0)
  <2>1. i.type = "GOAWAY" /\ i \notin DOMAIN heap
    BY <1>6, ItemFields DEF Terminate, OInv, NameInv
  <2>2. AddItem(i) /\ strm' = strm /\ goaway' = goaway \cup {"TERM_ON_SEND"}
    BY <1>6 DEF Terminate
  <2> HIDE DEF i
  <2>3. urgent' = urgent /\ heap' = Alloc(heap, i)
    BY <1>3, <2>1, <2>2 DEF IsUrgent
  <2>4. DOMAIN heap' = DOMAIN heap \cup {i} /\ \A j \in DOMAIN heap : heap'[j] = heap[j]
    BY <2>1, <2>3 DEF Alloc
  <2>5. \A j \in DOMAIN heap' : j \notin DOMAIN heap => j.type \notin {"DATA", "RST_STREAM"}
    BY <2>1, <2>4
  <2> QED BY <1>2, <2>2, <2>3, <2>4, <2>5, QuietKeeps
<1> QED BY <1>4, <1>5, <1>6

\* After a GOAWAY was sent the session is closing.
LEMMA TermCloses ==
  ASSUME "TERM_SENT" \in goaway, NEW uq, NEW rq, NEW i
  PROVE  IsClosing(uq, rq, i)
BY DEF IsClosing, WantRead, WantWrite

\* Nothing is being sent and nothing was: the first SETTINGS waits.
LEMMA IdleFacts ==
  ASSUME OInv, OrderInv, aob.item = None
  PROVE  /\ TypeOK /\ ItemsOwned /\ aob.chunks = 0 /\ aob = NoItem
         /\ Whole = 0 => urgent # << >> /\ Head(urgent).type = "SETTINGS"
BY ItemFields DEF OInv, FloodCounted, OrderInv, AobInv, NoItem, LastInv

\* An item is packed, or dropped.
LEMMA TakenFacts ==
  ASSUME OInv, OrderInv, aob.item = None, NEW i \in Held, NEW n \in Nat \ {0},
         \/ Pack(i, n) /\ UNCHANGED heap
         \/ Drop(i)
  PROVE  /\ DOMAIN heap' = DOMAIN heap /\ \A h \in DOMAIN heap : heap[h] = 1 => heap'[h] = 1
         /\ \/ Drop(i) /\ aob' = NoItem
            \/ Pack(i, n) /\ aob' = [item |-> i, chunks |-> n, cur |-> 1, pos |-> 0]
<1>1. ItemsOwned /\ aob.chunks = 0
  BY IdleFacts
<1>2. CASE Pack(i, n) /\ UNCHANGED heap
  BY <1>1, <1>2 DEF Pack
<1>3. CASE Drop(i)
  <2>1. heap' = Free(heap, {i}) /\ {i} \in SUBSET Held /\ aob' = NoItem
    BY <1>3 DEF Drop
  <2> QED BY <1>1, <1>3, <2>1, FreeFacts
<1> QED BY <1>2, <1>3

\* An item of the urgent queue.
LEMMA UrgentSent ==
  ASSUME OInv, WireInv, OrderInv, SendUrgent
  PROVE  WireInv' /\ OrderInv'
<1> DEFINE i == Head(urgent)
           ok == i.type = "SETTINGS" \/ ~IsClosing(Tail(urgent), reg, None)
<1>1. /\ aob.item = None /\ wire' = wire /\ goaway' = goaway /\ strm' = strm
      /\ urgent # << >> /\ urgent' = Tail(urgent)
      /\ IF ok THEN Pack(i, 1) /\ UNCHANGED heap ELSE Drop(i)
  BY DEF SendUrgent, Pops
<1>2. TypeOK /\ QueueInv /\ (Whole = 0 => i.type = "SETTINGS")
  BY <1>1, IdleFacts DEF OInv
<1>3. i \in Items /\ i \in Range(urgent) /\ Range(urgent) \subseteq Held
  BY <1>1, <1>2, TakeItem DEF TypeOK, QueueInv, Held
<1>4. i.type \in {"SETTINGS", "SETTINGS_ACK", "PING_ACK"}
  BY <1>2, <1>3 DEF QueueInv, IsUrgent
<1>5. "TERM_SENT" \in goaway /\ ok => i.type = "SETTINGS"
  BY TermCloses
<1>6. Whole \in Nat
  BY <1>2, OutboundAssumption DEF Whole, WireInv
<1>7. Whole = 0 => ok
  BY <1>2
<1> HIDE DEF i, ok
<1>8. /\ DOMAIN heap' = DOMAIN heap /\ \A h \in DOMAIN heap : heap[h] = 1 => heap'[h] = 1
      /\ \/ Drop(i) /\ aob' = NoItem
         \/ Pack(i, 1) /\ aob' = [item |-> i, chunks |-> 1, cur |-> 1, pos |-> 0]
  BY <1>1, <1>3, TakenFacts
<1>9. \/ aob' = NoItem /\ Whole > 0
      \/ aob' = [item |-> i, chunks |-> 1, cur |-> 1, pos |-> 0] /\ ok
  <2>1. CASE ok
    BY <1>1, <1>8, <2>1, IdleFacts DEF Pack
  <2>2. CASE ~ok
    BY <1>1, <1>6, <1>7, <2>2 DEF Drop
  <2> QED BY <2>1, <2>2
<1>10. /\ i.type # "HEADERS" /\ i.type # "DATA"
       /\ IsAck(i) => urgent # << >> /\ i = Head(urgent) /\ urgent' = Tail(urgent)
  BY <1>1, <1>4 DEF i
<1> QED BY <1>1, <1>2, <1>3, <1>5, <1>8, <1>9, <1>10, PackKeeps

\* An item of the other queue.
LEMMA RegSent ==
  ASSUME OInv, WireInv, OrderInv, SendReg
  PROVE  WireInv' /\ OrderInv'
<1> DEFINE i == Head(reg)
           n == IF i.type = "HEADERS" THEN i.n ELSE 1
           ok == Sendable(i, Tail(reg))
<1>1. /\ aob.item = None /\ wire' = wire /\ goaway' = goaway /\ strm' = strm
      /\ urgent' = urgent /\ urgent = << >> /\ reg # << >>
      /\ IF ok THEN Pack(i, n) /\ UNCHANGED heap ELSE Drop(i)
  BY DEF SendReg, Pops
<1>2. TypeOK /\ QueueInv /\ Whole \in Nat /\ Whole # 0
  BY <1>1, IdleFacts, OutboundAssumption DEF OInv, Whole
<1>3. i \in Items /\ i \in Range(reg) /\ Range(reg) \subseteq Held
  BY <1>1, <1>2, TakeItem DEF TypeOK, QueueInv, Held
<1>4. i.type \in {"GOAWAY", "RST_STREAM", "HEADERS"}
  BY <1>2, <1>3 DEF QueueInv
<1>5. "TERM_SENT" \in goaway /\ ok => i.type = "GOAWAY"
  BY TermCloses DEF Sendable
<1>6. ok /\ i.type = "HEADERS" => strm[i.s].st = "OPENING"
  BY DEF Sendable
<1> HIDE DEF i, ok
<1>7. n \in Nat \ {0} /\ (i.type = "HEADERS" => i.n >= 1)
  <2>1. i.type = "HEADERS" => i.n \in Blocks
    BY <1>3, ItemKinds
  <2>2. \A b \in Blocks : b \in Nat \ {0} /\ b >= 1
    BY OutboundAssumption
  <2> QED BY <2>1, <2>2
<1> HIDE DEF n
<1>8. /\ DOMAIN heap' = DOMAIN heap /\ \A h \in DOMAIN heap : heap[h] = 1 => heap'[h] = 1
      /\ \/ Drop(i) /\ aob' = NoItem
         \/ Pack(i, n) /\ aob' = [item |-> i, chunks |-> n, cur |-> 1, pos |-> 0]
  BY <1>1, <1>3, <1>7, TakenFacts
<1>9. \/ aob' = NoItem /\ Whole > 0
      \/ aob' = [item |-> i, chunks |-> n, cur |-> 1, pos |-> 0] /\ ok
  BY <1>1, <1>2, <1>8 DEF Drop
<1>10. i.type # "DATA" /\ ~IsAck(i)
  BY <1>4 DEF IsAck
<1> QED BY <1>1, <1>2, <1>3, <1>5, <1>6, <1>7, <1>8, <1>9, <1>10, PackKeeps DEF n

\* The DATA of a stream.
LEMMA DataTaken ==
  ASSUME OInv, WireInv, OrderInv, NEW s \in Streams, SendData(s)
  PROVE  WireInv' /\ OrderInv'
<1> DEFINE i == Data(s)
           n == 1
<1>1. /\ aob.item = None /\ wire' = wire /\ goaway' = goaway
      /\ urgent' = urgent /\ urgent = << >> /\ strm[s].item
  BY DEF SendData, Pops, Ready
<1>2. TypeOK /\ ItemsOwned /\ Whole \in Nat /\ Whole # 0
  BY <1>1, IdleFacts, OutboundAssumption DEF Whole
<1>3. i \in Held /\ i \in Items
  BY <1>1 DEF Held, Items
<1>4. \A r \in Streams : strm'[r].st = strm[r].st
  <2>1. \/ strm' = [strm EXCEPT ![s].item = FALSE]
        \/ strm' = [strm EXCEPT ![s].deferred = TRUE]
        \/ strm' = [strm EXCEPT ![s].left = @ - 1]
    BY DEF SendData
  <2>2. CASE strm' = [strm EXCEPT ![s].item = FALSE]
    BY <1>2, <2>2 DEF TypeOK
  <2>3. CASE strm' = [strm EXCEPT ![s].deferred = TRUE]
    BY <1>2, <2>3 DEF TypeOK
  <2>4. CASE strm' = [strm EXCEPT ![s].left = @ - 1]
    BY <1>2, <2>4 DEF TypeOK
  <2> QED BY <2>1, <2>2, <2>3, <2>4
<1>5. "TERM_SENT" \in goaway => ~DataAllowed(s)
  BY TermCloses DEF DataAllowed
<1>6. i.type = "DATA" /\ i.s = s /\ ~IsAck(i)
  BY ItemFields DEF IsAck
<1>7. \/ Drop(i)
      \/ aob' = NoItem /\ UNCHANGED heap
      \/ DataAllowed(s) /\ Pack(i, n) /\ UNCHANGED heap
  BY DEF SendData
<1> HIDE DEF i
<1>8. CASE Drop(i) \/ (DataAllowed(s) /\ Pack(i, n) /\ UNCHANGED heap)
  <2>1. n \in Nat \ {0}
    OBVIOUS
  <2> HIDE DEF n
  <2>2. /\ DOMAIN heap' = DOMAIN heap /\ \A h \in DOMAIN heap : heap[h] = 1 => heap'[h] = 1
        /\ \/ Drop(i) /\ aob' = NoItem
           \/ Pack(i, n) /\ aob' = [item |-> i, chunks |-> n, cur |-> 1, pos |-> 0]
    BY <1>1, <1>3, <1>8, <2>1, TakenFacts
  <2>3. \/ aob' = NoItem /\ Whole > 0
        \/ aob' = [item |-> i, chunks |-> n, cur |-> 1, pos |-> 0] /\ strm[s].st = "OPENED" /\ DataAllowed(s)
    BY <1>2, <1>8, <2>2 DEF Drop, DataAllowed
  <2> QED BY <1>1, <1>2, <1>3, <1>4, <1>5, <1>6, <2>2, <2>3, PackKeeps DEF n
<1>9. CASE aob' = NoItem /\ UNCHANGED heap
  <2>1. Whole > 0
    BY <1>2
  <2> QED BY <1>1, <1>4, <1>9, <2>1, PackKeeps
<1> QED BY <1>7, <1>8, <1>9

\* Which frames end their stream.
LEMMA EndedWhen ==
  ASSUME OInv, OrderInv, aob.item # None, NEW s, Ended(Now, s)
  PROVE  /\ aob.item.s = s /\ s \in Streams /\ aob.item \in DOMAIN heap
         /\ aob.item.type = "RST_STREAM" \/ (aob.item.type = "DATA" /\ strm[s].left = 0)
<1>1. TypeOK /\ AobInv /\ ItemsOwned
  BY DEF OInv, FloodCounted, OrderInv
<1> DEFINE i == aob.item
           left == IF i.type = "DATA" THEN strm[i.s].left ELSE 0
<1>2. /\ Now.s = i.s /\ Now.type = (IF aob.cur > 1 THEN "CONTINUATION" ELSE i.type)
  BY <1>1, NowIsFrame
<1>3. i \in Items /\ i \in DOMAIN heap
  BY <1>1 DEF TypeOK, ItemsOwned, Held
<1>4. i.s = s /\ i.type \in {"RST_STREAM", "DATA"} /\ Now.type = i.type
  BY <1>2 DEF Ended
<1>5. i.s \in Streams
  BY <1>3, <1>4, ItemKinds
<1>6. Now = FrameOf(i, aob.cur, aob.chunks, left)
  BY DEF Now
<1> HIDE DEF left
<1>7. i.type = "DATA" => left = 0
  <2> HIDE DEF i
  <2> SUFFICES ASSUME i.type = "DATA" PROVE left = 0
    OBVIOUS
  <2>1. Now.end = (left = 0)
    BY <1>6 DEF FrameOf
  <2> QED BY <1>4, <2>1 DEF Ended
<1> QED BY <1>3, <1>4, <1>5, <1>7 DEF left

\* A stream that does not live was not opened, or is closed.
LEMMA NotLive ==
  ASSUME TypeOK, NEW s \in Streams, ~Live(s), strm[s].st # "IDLE"
  PROVE  strm[s].st = "CLOSED"
BY DEF TypeOK, Live

\* A header block is out.
LEMMA HeadersDone ==
  ASSUME OInv, WireInv, OrderInv, HeadersSent
  PROVE  WireInv' /\ OrderInv' /\ Frames' = Frames
<1> DEFINE i == aob.item
           s == aob.item.s
           freed == Free(heap, {aob.item})
<1>1. /\ TypeOK /\ ItemsOwned /\ NameInv
      /\ i.type = "HEADERS" /\ i # None /\ Out /\ aob' = NoItem /\ wire' = wire
      /\ urgent' = urgent /\ goaway' = goaway /\ ~(aob.cur < aob.chunks)
  BY DEF OInv, FloodCounted, HeadersSent, Sent, Sending, Out, NextPresent
<1>2. i \in Items /\ s \in Streams /\ i \in Held /\ i \in DOMAIN heap /\ aob.cur >= aob.chunks
  <2>1. i \in Items /\ i \in Held /\ i \in DOMAIN heap /\ aob.cur \in Nat /\ aob.chunks \in Nat
    BY <1>1 DEF TypeOK, ItemsOwned, Held
  <2> QED BY <1>1, <2>1, ItemKinds
<1>3. /\ DOMAIN freed = DOMAIN heap /\ \A h \in DOMAIN heap : heap[h] = 1 => freed[h] = 1
      /\ freed[i] = 1
  <2> DEFINE G == {aob.item}
  <2>1. G \in SUBSET Held /\ i \in DOMAIN heap \cap G
    BY <1>2
  <2> HIDE DEF G
  <2>2. /\ DOMAIN Free(heap, G) = DOMAIN heap /\ \A h \in DOMAIN heap : heap[h] = 1 => Free(heap, G)[h] = 1
        /\ Free(heap, G)[i] = 1
    BY <1>1, <2>1, FreeFacts
  <2> QED BY <2>2 DEF G
<1>4. \A r : ~Ended(Now, r)
  BY <1>1, EndedWhen
<1> HIDE DEF freed
<1>5. /\ DOMAIN heap \subseteq DOMAIN heap' /\ \A h \in DOMAIN heap : heap[h] = 1 => heap'[h] = 1
      /\ \A h \in DOMAIN heap' : h \notin DOMAIN heap => h = Data(s)
      /\ heap'[i] = 1
  <2>1. CASE heap' = freed
    BY <1>3, <2>1
  <2>2. CASE heap' = Alloc(freed, Data(s))
    <3>1. Data(s) \notin DOMAIN heap
      <4> SUFFICES ASSUME Data(s) \in DOMAIN heap PROVE FALSE
        OBVIOUS
      <4>1. PICK j \in DOMAIN heap : j.type = "HEADERS" /\ j.s = s /\ heap[j] = 1
        BY <1>1, <1>2 DEF NameInv
      <4>2. i = j
        BY <1>1, <1>2, <4>1 DEF NameInv
      <4>3. heap[i] = 0
        BY <1>1, <1>2 DEF ItemsOwned
      <4> QED BY <4>1, <4>2, <4>3
    <3>2. DOMAIN heap' = DOMAIN heap \cup {Data(s)} /\ \A j \in DOMAIN heap : heap'[j] = freed[j]
      BY <1>3, <2>2, <3>1 DEF Alloc
    <3> QED BY <1>2, <1>3, <3>2
  <2> QED BY <2>1, <2>2 DEF HeadersSent, freed
<1>6. \A r \in Streams :
        /\ strm'[r].st = "OPENED" => strm[r].st = "OPENED" \/ r = s
        /\ strm[r].st = "CLOSED" => strm'[r].st = "CLOSED"
        /\ strm[r].st # "IDLE" => strm'[r].st # "IDLE"
  <2>1. CASE ~Live(s)
    BY <2>1 DEF HeadersSent
  <2>2. CASE Live(s)
    <3>1. strm' = [strm EXCEPT ![s].st = "OPENED", ![s].item = TRUE] /\ strm[s].st # "CLOSED"
      BY <2>2 DEF HeadersSent, Live
    <3>2. strm'[s].st = "OPENED" /\ \A r \in Streams : r # s => strm'[r].st = strm[r].st
      BY <1>1, <1>2, <3>1 DEF TypeOK
    <3> QED BY <3>1, <3>2
  <2> QED BY <2>1, <2>2
<1> QED BY <1>1, <1>2, <1>4, <1>5, <1>6, DoneKeeps

\* A frame that is neither HEADERS nor DATA is out.
LEMMA OtherDone ==
  ASSUME OInv, WireInv, OrderInv, OtherSent
  PROVE  WireInv' /\ OrderInv' /\ Frames' = Frames
<1> DEFINE i == aob.item
           G == {i} \cup (IF i.type = "RST_STREAM" /\ Live(i.s) THEN ItemGone(i.s) ELSE {})
<1>1. /\ TypeOK /\ ItemsOwned
      /\ i.type \notin {"HEADERS", "DATA"} /\ i # None /\ Out /\ aob' = NoItem /\ wire' = wire
      /\ urgent' = urgent /\ heap' = Free(heap, G)
      /\ goaway' = IF i.type = "GOAWAY" THEN goaway \cup {"TERM_SENT", "SENT"} ELSE goaway
      /\ strm' = IF i.type = "RST_STREAM" THEN StreamReset(i.s) ELSE strm
  BY DEF OInv, FloodCounted, OtherSent, Sent, Sending, Out
<1>2. i \in Items /\ (i.type = "RST_STREAM" => i.s \in Streams /\ i \in DOMAIN heap)
  <2>1. i \in Items /\ i \in DOMAIN heap
    BY <1>1 DEF TypeOK, ItemsOwned, Held
  <2> QED BY <2>1, ItemKinds
<1>3. DOMAIN heap' = DOMAIN heap /\ \A h \in DOMAIN heap : heap[h] = 1 => heap'[h] = 1
  <2>1. G \in SUBSET Held
    <3>1. i \in Held
      BY DEF Held
    <3>2. i.type = "RST_STREAM" => ItemGone(i.s) \in SUBSET Held
      BY <1>2 DEF ItemGone, Held
    <3> QED BY <3>1, <3>2
  <2> HIDE DEF G
  <2> QED BY <1>1, <2>1, FreeFacts
<1> HIDE DEF G
<1>4. \A r \in Streams :
        /\ strm'[r].st = "OPENED" => strm[r].st = "OPENED"
        /\ strm[r].st = "CLOSED" => strm'[r].st = "CLOSED"
        /\ strm[r].st # "IDLE" => strm'[r].st # "IDLE"
        /\ i.type = "RST_STREAM" /\ r = i.s => strm'[r].st = "CLOSED"
  <2>1. CASE i.type # "RST_STREAM"
    BY <1>1, <2>1
  <2>2. CASE i.type = "RST_STREAM" /\ Live(i.s)
    <3> DEFINE s == i.s
    <3>1. s \in Streams /\ strm' = Closed(s)
      BY <1>1, <1>2, <2>2 DEF StreamReset
    <3> HIDE DEF s
    <3>2. strm'[s].st = "CLOSED" /\ \A r \in Streams : r # s => strm'[r].st = strm[r].st
      BY <1>1, <3>1, ClosedChange
    <3> QED BY <3>2 DEF s
  <2>3. CASE i.type = "RST_STREAM" /\ ~Live(i.s)
    <3>1. strm' = strm
      BY <1>1, <2>3 DEF StreamReset
    <3>2. strm[i.s].st # "IDLE"
      BY <1>2, <2>3 DEF OrderInv, StreamOrder
    <3>3. strm[i.s].st = "CLOSED"
      BY <1>1, <1>2, <2>3, <3>2, NotLive
    <3> QED BY <3>1, <3>3
  <2> QED BY <2>1, <2>2, <2>3
<1>5. \A r : Ended(Now, r) => i.type = "RST_STREAM" /\ r = i.s
  BY <1>1, EndedWhen
<1> QED BY <1>1, <1>3, <1>4, <1>5, DoneKeeps

\* A DATA frame is out.
LEMMA DataDone ==
  ASSUME OInv, WireInv, OrderInv, DataSent
  PROVE  WireInv' /\ OrderInv' /\ Frames' = Frames
<1> DEFINE i == aob.item
<1>1. /\ TypeOK /\ ItemsOwned /\ NameInv
      /\ i.type = "DATA" /\ i # None /\ Out /\ aob' = NoItem /\ wire' = wire
      /\ urgent' = urgent /\ goaway' = goaway
  BY DEF OInv, FloodCounted, DataSent, Sent, Sending, Out
<1>2. PICK s \in Streams : s = i.s /\ i = Data(s)
  BY <1>1, DataStream
<1>3. i \in Held /\ i \in DOMAIN heap
  BY <1>1 DEF ItemsOwned, Held
<1>4. DOMAIN heap' = DOMAIN heap /\ \A h \in DOMAIN heap : heap[h] = 1 => heap'[h] = 1
  <2>1. CASE heap' = heap
    BY <2>1
  <2>2. CASE heap' = Free(heap, {Data(s)})
    <3> DEFINE G == {Data(s)}
    <3>1. G \in SUBSET Held
      BY <1>2, <1>3
    <3> HIDE DEF G
    <3>2. heap' = Free(heap, G)
      BY <2>2 DEF G
    <3> QED BY <1>1, <3>1, <3>2, FreeFacts
  <2> QED BY <1>2, <2>1, <2>2 DEF DataSent
<1>5. /\ \A r \in Streams : r # s => strm'[r].st = strm[r].st
      /\ strm'[s].st = IF strm[s].left = 0 /\ Live(s) THEN "CLOSED" ELSE strm[s].st
  <2> DEFINE paid == [strm EXCEPT ![s].win = IF Live(s) THEN @ - 1 ELSE @]
  <2>1. strm' = IF strm[s].left = 0 /\ Live(s)
                THEN [paid EXCEPT ![s].st = "CLOSED", ![s].item = FALSE]
                ELSE [paid EXCEPT ![s].item = @ /\ Stays(s)]
    BY <1>2 DEF DataSent
  <2>2. DOMAIN paid = Streams /\ \A r \in Streams : paid[r].st = strm[r].st /\ DOMAIN paid[r] = DOMAIN strm[r]
    BY <1>1 DEF TypeOK
  <2>3. \A r \in Streams : {"st", "item"} \subseteq DOMAIN strm[r]
    BY <1>1 DEF TypeOK
  <2> HIDE DEF paid
  <2>4. CASE strm[s].left = 0 /\ Live(s)
    <3>1. strm' = [paid EXCEPT ![s].st = "CLOSED", ![s].item = FALSE]
      BY <2>1, <2>4
    <3> QED BY <2>2, <2>3, <2>4, <3>1
  <2>5. CASE ~(strm[s].left = 0 /\ Live(s))
    <3>1. strm' = [paid EXCEPT ![s].item = @ /\ Stays(s)]
      BY <2>1, <2>5
    <3> QED BY <2>2, <2>3, <2>5, <3>1
  <2> QED BY <2>4, <2>5
<1>6. strm[s].st # "IDLE"
  <2>1. PICK h \in DOMAIN heap : h.type = "HEADERS" /\ h.s = s
    BY <1>1, <1>2, <1>3 DEF NameInv
  <2> QED BY <1>1, <2>1 DEF NameInv
<1>7. \A r : Ended(Now, r) => r = s /\ strm[s].left = 0
  BY <1>1, <1>2, EndedWhen
<1>8. \A r \in Streams :
        /\ strm'[r].st = "OPENED" => strm[r].st = "OPENED"
        /\ strm[r].st = "CLOSED" => strm'[r].st = "CLOSED"
        /\ strm[r].st # "IDLE" => strm'[r].st # "IDLE"
        /\ Ended(Now, r) => strm'[r].st = "CLOSED"
  <2>1. strm[s].left = 0 => strm'[s].st = "CLOSED"
    BY <1>1, <1>5, <1>6, NotLive
  <2> QED BY <1>5, <1>7, <2>1
<1> QED BY <1>1, <1>4, <1>8, DoneKeeps

\* The session is done for now, is called again, or nothing happens.
LEMMA RestKeeps ==
  ASSUME OInv, WireInv, OrderInv, SendDone \/ SessionSend \/ UNCHANGED vars
  PROVE  WireInv' /\ OrderInv' /\ Frames' = Frames
<1>1. /\ wire' = wire /\ aob' = aob /\ strm' = strm /\ heap' = heap /\ goaway' = goaway /\ urgent' = urgent
  BY DEF SendDone, Pops, SessionSend, vars
<1>2. Frames' = Frames
  BY <1>1 DEF Frames, Whole, FrameAt
<1> QED BY <1>1, <1>2, QuietKeeps

\* The first SETTINGS waits, and nothing was sent.
LEMMA SentInit == Init => SentInv /\ Frames = << >>
<1> SUFFICES ASSUME Init PROVE SentInv /\ Frames = << >>
  OBVIOUS
<1> DEFINE i == Item("SETTINGS", 0, 0)
<1>1. /\ urgent = <<i>> /\ aob = NoItem /\ heap = [j \in {i} |-> 0] /\ goaway = {} /\ wire = << >>
      /\ \A s \in Streams : strm[s].st = "IDLE"
  BY DEF Init, NoItem
<1>2. aob.item = None /\ aob.item.type = "none" /\ ~Out /\ ~Continued /\ Part = 0
  BY <1>1, ItemFields DEF NoItem, Out, Continued, Part
<1>3. Whole = 0
  <2>1. Len(wire) = 0 * FrameOctets + 0 /\ 0 < FrameOctets
    BY <1>1, OutboundAssumption
  <2> QED BY <2>1, WholeIs DEF Whole
<1>4. Frames = << >>
  BY <1>3 DEF Frames
<1>5. i.type = "SETTINGS" /\ DOMAIN heap = {i} /\ urgent # << >> /\ Head(urgent) = i
      /\ DOMAIN urgent = {1} /\ Range(urgent) = {i}
  BY <1>1, ItemFields DEF Range
<1> HIDE DEF i
<1>6. WireInv
  <2>1. Len(wire) = Whole * FrameOctets + Part
    BY <1>1, <1>2, <1>3, OutboundAssumption
  <2> QED BY <1>2, <1>3, <2>1 DEF WireInv
<1>7. AobInv /\ LastInv
  BY <1>1, <1>2, <1>3, <1>5 DEF AobInv, LastInv
<1>8. AckOrder /\ GoawayOrder
  BY <1>1, <1>2, <1>3, <1>5 DEF AckOrder, GoawayOrder, IsAck
<1>9. StreamOrder
  <2>1. \A s \in Streams : ~HeadersOut(s) /\ ~EndOut(s) /\ ~Begun(s)
    BY <1>2, <1>3 DEF HeadersOut, EndOut, Begun
  <2>2. \A s \in Streams : Data(s) \notin DOMAIN heap
    BY <1>5, ItemFields
  <2> QED BY <1>1, <1>2, <1>5, <2>1, <2>2 DEF StreamOrder
<1>10. wire \in Seq(Octets)
  BY <1>1
<1> QED BY <1>4, <1>6, <1>7, <1>8, <1>9, <1>10 DEF SentInv, OrderInv

\* After every step the wire holds what it held, or one more frame, which was allowed.
LEMMA SentStep ==
  ASSUME OInv, SentInv, [Next]_vars
  PROVE  /\ SentInv'
         /\ \/ Frames' = Frames
            \/ Frames' = Append(Frames, Now) /\ Now \in Promise!Frame /\ Promise!Allowed(Now)
<1> DEFINE Grows == Frames' = Append(Frames, Now) /\ Now \in Promise!Frame /\ Promise!Allowed(Now)
<1>1. wire \in Seq(Octets) /\ (pc # "deleted" => WireInv /\ OrderInv)
  BY DEF SentInv
<1>2. wire' = wire => wire' \in Seq(Octets) /\ Frames' = Frames
  BY <1>1 DEF Frames, Whole, FrameAt
<1> SUFFICES SentInv' /\ (Frames' = Frames \/ Grows)
  OBVIOUS
<1> HIDE DEF Grows
<1>3. ASSUME wire' = wire, WireInv' /\ OrderInv'
      PROVE  SentInv' /\ (Frames' = Frames \/ Grows)
  BY <1>2, <1>3 DEF SentInv
<1>4. CASE UNCHANGED vars
  <2>1. CASE pc = "deleted"
    <3>1. pc' = "deleted" /\ wire' = wire
      BY <1>4, <2>1 DEF vars
    <3> QED BY <1>2, <3>1 DEF SentInv
  <2>2. CASE pc # "deleted"
    <3>1. wire' = wire
      BY <1>4 DEF vars
    <3> QED BY <1>1, <1>3, <1>4, <2>2, <3>1, RestKeeps
  <2> QED BY <2>1, <2>2
<1>5. ASSUME NEW type \in AckTypes, OnAcknowledged(type) PROVE SentInv' /\ (Frames' = Frames \/ Grows)
  <2>1. wire' = wire /\ pc # "deleted"
    BY <1>5 DEF OnAcknowledged, Receives, Event, Calm
  <2> QED BY <1>1, <1>3, <1>5, <2>1, AcknowledgedSent
<1>6. ASSUME \/ \E s \in Streams : OnRequest(s) \/ OnRst(s) \/ OnWindowUpdate(s)
             \/ OnGoaway
      PROVE  SentInv' /\ (Frames' = Frames \/ Grows)
  <2>1. wire' = wire /\ pc # "deleted"
    BY <1>6 DEF OnRequest, OnRst, OnWindowUpdate, OnGoaway, Receives, Event, Calm
  <2> QED BY <1>1, <1>3, <1>6, <2>1, PeerSent
<1>7. ASSUME \/ \E s \in Streams : \/ AddRstStream(s)
                                   \/ \E block \in Blocks, body \in Bodies : SubmitResponse(s, block, body)
             \/ Terminate
      PROVE  SentInv' /\ (Frames' = Frames \/ Grows)
  <2>1. wire' = wire /\ pc # "deleted"
    BY <1>7 DEF AddRstStream, SubmitResponse, Terminate, Receives, Event, Calm
  <2> QED BY <1>1, <1>3, <1>7, <2>1, SessionSent
<1>8. CASE SessionDel
  <2>1. wire' = wire /\ pc' = "deleted"
    BY <1>8 DEF SessionDel
  <2> QED BY <1>2, <2>1 DEF SentInv
<1>9. CASE SendUrgent \/ SendReg \/ \E s \in Streams : SendData(s)
  <2>1. wire' = wire /\ pc # "deleted"
    BY <1>9 DEF SendUrgent, SendReg, SendData, Pops
  <2>2. WireInv /\ OrderInv
    BY <1>1, <2>1
  <2>3. CASE SendUrgent
    BY <1>3, <2>1, <2>2, <2>3, UrgentSent
  <2>4. CASE SendReg
    BY <1>3, <2>1, <2>2, <2>4, RegSent
  <2>5. ASSUME NEW s \in Streams, SendData(s) PROVE WireInv' /\ OrderInv'
    BY <2>2, <2>5, DataTaken
  <2> QED BY <1>3, <1>9, <2>1, <2>3, <2>4, <2>5
<1>10. CASE SessionSend \/ SendDone
  <2>1. wire' = wire /\ pc # "deleted"
    BY <1>10 DEF SessionSend, SendDone, Pops
  <2> QED BY <1>1, <1>3, <1>10, <2>1, RestKeeps
<1>11. CASE HeadersContinue \/ HeadersSent \/ OtherSent \/ DataSent
  <2>1. wire' = wire /\ pc # "deleted"
    BY <1>11 DEF HeadersContinue, HeadersSent, OtherSent, DataSent, Sent, Sending
  <2> QED BY <1>1, <1>3, <1>11, <2>1, ContinueKeeps, HeadersDone, OtherDone, DataDone
<1>12. ASSUME NEW n \in Takes, Write(n) PROVE SentInv' /\ (Frames' = Frames \/ Grows)
  <2>1. pc # "deleted"
    BY <1>12 DEF Write, Sending
  <2> QED BY <1>1, <1>12, <2>1, WriteKeeps DEF SentInv, Grows
<1>13. "PING_ACK" \in AckTypes /\ "SETTINGS_ACK" \in AckTypes
  BY DEF AckTypes
<1>14. CASE Next
  <2>1. CASE Steps
    BY <1>9, <1>10, <1>11, <2>1 DEF Steps
  <2>2. CASE ~Steps
    BY <1>5, <1>6, <1>7, <1>8, <1>10, <1>12, <1>13, <1>14, <2>2 DEF Next
  <2> QED BY <2>1, <2>2
<1> QED BY <1>4, <1>14

\* The invariant of the octets and of the order of the frames.
LEMMA SentInvariance == Spec => [](OInv /\ SentInv)
<1>1. Init => SentInv
  BY SentInit
<1>2. OInv /\ SentInv /\ [Next]_vars => SentInv'
  BY SentStep
<1> QED BY <1>1, <1>2, OutboundInvariance, PTL DEF Spec

\* What is on the wire, octet by octet, are frames, sent whole and in an order that RFC 7540
\* allows, for any number of streams and frames, any sizes of header blocks and bodies, and however
\* little the send callback takes: no octet lost or repeated, nothing between a HEADERS and
\* its CONTINUATION, no DATA before the headers or after a reset, acknowledgements in the order
\* of what they acknowledge (nghttp2_session.c:2293, 2566, 2780, 2816, 3226, 3233).
THEOREM WireKeepsThePromise == Spec => ImplementsSentFrames
<1>1. Init => Promise!Init
  <2>1. ASSUME Init PROVE [j \in 1 .. (Len(wire) \div FrameOctets) |-> FrameAt(j)] = << >>
    BY <2>1, SentInit DEF Frames, Whole
  <2> QED BY <2>1 DEF Promise!Init
<1>2. OInv /\ SentInv /\ [Next]_vars => [Promise!Next]_Frames
  <2> SUFFICES ASSUME OInv, SentInv, [Next]_vars PROVE Promise!Next \/ Frames' = Frames
    OBVIOUS
  <2>1. \/ Frames' = Frames
        \/ Frames' = Append(Frames, Now) /\ Now \in Promise!Frame /\ Promise!Allowed(Now)
    BY SentStep
  <2>2. ASSUME Frames' = Append(Frames, Now), Now \in Promise!Frame, Promise!Allowed(Now)
        PROVE  Promise!Next
    BY <2>2 DEF Promise!Next, Frames, Whole
  <2> QED BY <2>1, <2>2
<1>3. OInv /\ SentInv /\ [Next]_vars => [Promise!Next]_([j \in 1 .. (Len(wire) \div FrameOctets) |-> FrameAt(j)])
  BY <1>2 DEF Frames, Whole
<1> QED BY <1>1, <1>3, SentInvariance, PTL DEF Spec, ImplementsSentFrames, Promise!Spec
=============================================================================
