---------------------------- MODULE InboundProofs ----------------------------
(***************************************************************************)
(* What holds of the reader of frames, for every connection a peer may     *)
(* send, cut into pieces anywhere, and for magics, heads and payloads of    *)
(* any length: its counts are right, it has charged the window of the       *)
(* connection with every byte of content it has read, and the application   *)
(* hears no more of a stream that is to be reset, nor of anything once the   *)
(* session has ended.  The invariant says where in which frame the reader   *)
(* is while the loop runs or may run again.                                 *)
(***************************************************************************)
EXTENDS InboundFrame, FiniteSetTheorems, SequenceTheorems, WellFoundedInduction, TLAPS

-----------------------------------------------------------------------------
(* Sequences.                                                               *)

\* A sequence is one over its elements, and over any set that has them.
LEMMA SeqOver ==
  ASSUME NEW x, IsSeq(x), NEW S, \A i \in 1..Len(x) : x[i] \in S
  PROVE  x \in Seq(S) /\ DOMAIN x = 1..Len(x) /\ Len(x) \in Nat
<1>1. Len(x) \in Nat /\ x = [i \in 1..Len(x) |-> x[i]] BY DEF IsSeq
<1>2. x \in [1..Len(x) -> S] BY <1>1
<1>3. \A n \in Nat : [1..n -> S] \subseteq Seq(S) BY SeqDef
<1> QED BY <1>1, <1>2, <1>3

\* And a sequence over a set is a sequence.
LEMMA SeqIs ==
  ASSUME NEW S, NEW x \in Seq(S)
  PROVE  IsSeq(x) /\ DOMAIN x = 1..Len(x) /\ Len(x) \in Nat
<1>1. Len(x) \in Nat /\ x \in [1..Len(x) -> S] /\ DOMAIN x = 1..Len(x) BY LenProperties
<1>2. x = [i \in 1..Len(x) |-> x[i]] BY <1>1
<1> QED BY <1>1, <1>2 DEF IsSeq

\* The empty sequence.
LEMMA NothingIsSeq == IsSeq(<<>>) /\ Len(<<>>) = 0 /\ DOMAIN <<>> = {}
<1>1. <<>> \in Seq({}) /\ Len(<<>>) = 0 BY EmptySeq
<1>2. IsSeq(<<>>) BY <1>1, SeqIs
<1> QED BY <1>1, <1>2

\* A sequence with one more element.
LEMMA Appended ==
  ASSUME NEW x, IsSeq(x), NEW e
  PROVE  /\ IsSeq(Append(x, e)) /\ Len(x) \in Nat /\ Len(Append(x, e)) = Len(x) + 1
         /\ DOMAIN x = 1..Len(x) /\ DOMAIN Append(x, e) = 1..Len(x) + 1
         /\ \A i \in 1..Len(x) : Append(x, e)[i] = x[i]
         /\ Append(x, e)[Len(x) + 1] = e
<1> DEFINE S == {x[i] : i \in 1..Len(x)} \cup {e}
<1>1. x \in Seq(S) /\ Len(x) \in Nat /\ DOMAIN x = 1..Len(x) BY SeqOver
<1> HIDE DEF S
<1>2. e \in S BY DEF S
<1>3. /\ Append(x, e) \in Seq(S) /\ Len(Append(x, e)) = Len(x) + 1
      /\ \A i \in 1..Len(x) : Append(x, e)[i] = x[i]
      /\ Append(x, e)[Len(x) + 1] = e
  BY <1>1, <1>2, AppendProperties
<1>4. IsSeq(Append(x, e)) /\ DOMAIN Append(x, e) = 1..Len(Append(x, e)) BY <1>3, SeqIs
<1> QED BY <1>1, <1>3, <1>4

\* One sequence behind the other.
LEMMA Joined ==
  ASSUME NEW x, IsSeq(x), NEW y, IsSeq(y)
  PROVE  /\ IsSeq(x \o y) /\ Len(x) \in Nat /\ Len(y) \in Nat /\ Len(x \o y) = Len(x) + Len(y)
         /\ DOMAIN (x \o y) = 1..Len(x) + Len(y)
         /\ \A i \in 1..Len(x) : (x \o y)[i] = x[i]
         /\ \A i \in 1..Len(y) : (x \o y)[Len(x) + i] = y[i]
<1> DEFINE S == {x[i] : i \in 1..Len(x)} \cup {y[i] : i \in 1..Len(y)}
<1>1. x \in Seq(S) /\ Len(x) \in Nat BY SeqOver
<1>2. y \in Seq(S) /\ Len(y) \in Nat BY SeqOver
<1> HIDE DEF S
<1>3. /\ x \o y \in Seq(S) /\ Len(x \o y) = Len(x) + Len(y)
      /\ \A i \in 1..Len(x) + Len(y) : (x \o y)[i] = IF i <= Len(x) THEN x[i] ELSE y[i - Len(x)]
  BY <1>1, <1>2, ConcatProperties
<1>4. IsSeq(x \o y) /\ DOMAIN (x \o y) = 1..Len(x \o y) BY <1>3, SeqIs
<1>5. \A i \in 1..Len(x) : (x \o y)[i] = x[i] BY <1>1, <1>2, <1>3
<1>6. ASSUME NEW i \in 1..Len(y) PROVE (x \o y)[Len(x) + i] = y[i]
  <2>1. Len(x) + i \in 1..Len(x) + Len(y) /\ ~(Len(x) + i <= Len(x)) /\ (Len(x) + i) - Len(x) = i BY <1>1, <1>2
  <2> QED BY <1>3, <2>1
<1> QED BY <1>1, <1>2, <1>3, <1>4, <1>5, <1>6

\* The same, for any two sequences.
LEMMA JoinedAfter ==
  \A x, y : IsSeq(x) /\ IsSeq(y) => \A i \in 1..Len(y) : (x \o y)[Len(x) + i] = y[i]
<1> SUFFICES ASSUME NEW x, NEW y, IsSeq(x), IsSeq(y)
    PROVE  \A i \in 1..Len(y) : (x \o y)[Len(x) + i] = y[i]
  OBVIOUS
<1> QED BY Joined

\* A piece of a sequence.
LEMMA PieceOf ==
  ASSUME NEW x, NEW p \in Nat, NEW n \in Nat
  PROVE  /\ IsSeq(SubSeq(x, p + 1, p + n)) /\ Len(SubSeq(x, p + 1, p + n)) = n
         /\ DOMAIN SubSeq(x, p + 1, p + n) = 1..n
         /\ \A i \in 1..n : SubSeq(x, p + 1, p + n)[i] = x[p + i]
<1> DEFINE S == {x[i] : i \in p + 1..p + n}
           y == SubSeq(x, p + 1, p + n)
<1>1. \A i \in p + 1..p + n : x[i] \in S OBVIOUS
<1>2. p + 1 \in Int /\ p + n \in Int OBVIOUS
<1> HIDE DEF S
<1>3. /\ y \in Seq(S) /\ Len(y) = IF p + 1 <= p + n THEN (p + n) - (p + 1) + 1 ELSE 0
      /\ \A i \in 1..(p + n) - (p + 1) + 1 : y[i] = x[p + 1 + i - 1]
  BY <1>1, <1>2, SubSeqProperties
<1>4. IsSeq(y) /\ DOMAIN y = 1..Len(y) BY <1>3, SeqIs
<1>5. Len(y) = n BY <1>3
<1>6. ASSUME NEW i \in 1..n PROVE y[i] = x[p + i]
  <2>1. i \in 1..(p + n) - (p + 1) + 1 /\ p + 1 + i - 1 = p + i OBVIOUS
  <2> QED BY <1>3, <2>1
<1> QED BY <1>3, <1>4, <1>5, <1>6

\* A function on the numbers up to n is a sequence of length n.
LEMMA FunctionIsSeq ==
  ASSUME NEW n \in Nat, NEW S, NEW f \in [1..n -> S]
  PROVE  f \in Seq(S) /\ IsSeq(f) /\ Len(f) = n /\ DOMAIN f = 1..n
<1>1. f \in Seq(S) BY SeqDef
<1>2. IsSeq(f) /\ DOMAIN f = 1..Len(f) /\ Len(f) \in Nat BY <1>1, SeqIs
<1>3. 1..Len(f) = 1..n BY <1>2
<1>4. Len(f) = n
  <2>1. CASE Len(f) < n BY <1>2, <1>3, <2>1
  <2>2. CASE n < Len(f) BY <1>2, <1>3, <2>2
  <2> QED BY <1>2, <2>1, <2>2
<1> QED BY <1>1, <1>2, <1>4

\* Induction: a set of numbers that has 0, and with each number the next, has all.
LEMMA NatSet ==
  ASSUME NEW T, T \subseteq Nat, 0 \in T, \A n \in T : n + 1 \in T
  PROVE  T = Nat
<1> DEFINE R == OpToRel(<, Nat)
           B == Nat \ T
<1>1. \A x, y \in Nat : <<x, y>> \in R <=> x < y BY DEF OpToRel
<1>2. IsWellFoundedOn(R, Nat) BY NatLessThanWellFounded
<1> HIDE DEF R
<1>3. SUFFICES ASSUME B # {} PROVE FALSE OBVIOUS
<1>4. B \subseteq Nat OBVIOUS
<1> HIDE DEF B
<1>5. PICK x \in B : \A y \in B : ~(<<y, x>> \in R) BY <1>2, <1>3, <1>4, WFMin
<1>6. x \in Nat /\ x \notin T BY <1>4, <1>5 DEF B
<1>7. x # 0 BY <1>6
<1>8. x - 1 \in Nat BY <1>6, <1>7
<1>9. x - 1 \in B BY <1>6, <1>8 DEF B
<1>10. x - 1 < x BY <1>6
<1>11. <<x - 1, x>> \in R BY <1>1, <1>6, <1>8, <1>10
<1> QED BY <1>5, <1>9, <1>11

-----------------------------------------------------------------------------
(* The bytes of the connection.  EndAt and Wire are EndOf and wire, as       *)
(* functions of what the peer sends.                                        *)

Ends(frames, k) ==
  CHOOSE end : end = [i \in 0..k |-> IF i = 0 THEN MagicLength
                                     ELSE end[i - 1] + HeadLength + Len(frames[i].payload)]
EndAt(frames, k) == Ends(frames, k)[k]
Wire(input) ==
  Magic(input.magic) \o FlattenSeq([i \in DOMAIN input.frames |-> Bytes(input.frames[i])])

\* EndOf counts the bytes of the first k frames.
LEMMA EndOfIs == ASSUME NEW k PROVE EndOf(k) = EndAt(sent.frames, k)
BY DEF EndOf, EndAt, Ends

\* The recursion is well defined.
LEMMA EndsAre ==
  ASSUME NEW frames, NEW k \in Nat
  PROVE  Ends(frames, k) = [i \in 0..k |-> IF i = 0 THEN MagicLength
                              ELSE Ends(frames, k)[i - 1] + HeadLength + Len(frames[i].payload)]
<1> DEFINE Is(e, n) == e = [i \in 0..n |-> IF i = 0 THEN MagicLength
                                         ELSE e[i - 1] + HeadLength + Len(frames[i].payload)]
           T == {n \in Nat : \E e : Is(e, n)}
<1>1. 0 \in T
  <2> DEFINE e == [i \in 0..0 |-> MagicLength]
  <2>1. Is(e, 0) OBVIOUS
  <2> QED BY <2>1
<1>2. \A n \in T : n + 1 \in T
  <2> TAKE n \in T
  <2>1. n \in Nat OBVIOUS
  <2>2. PICK d : Is(d, n) OBVIOUS
  <2> DEFINE e == [i \in 0..n + 1 |-> IF i = 0 THEN MagicLength
                                      ELSE d[i - 1] + HeadLength + Len(frames[i].payload)]
  <2>3. \A i \in 0..n : e[i] = d[i] BY <2>1, <2>2
  <2>4. \A i \in 0..n + 1 : i # 0 => i - 1 \in 0..n BY <2>1
  <2>5. e = [i \in 0..n + 1 |-> IF i = 0 THEN MagicLength
                                ELSE e[i - 1] + HeadLength + Len(frames[i].payload)]
    <3> DEFINE g == [i \in 0..n + 1 |-> IF i = 0 THEN MagicLength
                                ELSE e[i - 1] + HeadLength + Len(frames[i].payload)]
    <3>1. \A i \in 0..n + 1 : e[i] = g[i]
      <4> TAKE i \in 0..n + 1
      <4>1. CASE i = 0 BY <4>1
      <4>2. CASE i # 0
        <5>1. e[i - 1] = d[i - 1] BY <2>3, <2>4, <4>2
        <5>2. e[i] = d[i - 1] + HeadLength + Len(frames[i].payload) BY <4>2
        <5>3. g[i] = e[i - 1] + HeadLength + Len(frames[i].payload) BY <4>2
        <5> QED BY <5>1, <5>2, <5>3
      <4> QED BY <4>1, <4>2
    <3>2. DOMAIN e = 0..n + 1 /\ DOMAIN g = 0..n + 1 OBVIOUS
    <3> QED BY <3>1
  <2> HIDE DEF e
  <2> QED BY <2>1, <2>5
<1>3. T = Nat
  <2>1. T \subseteq Nat OBVIOUS
  <2> HIDE DEF T
  <2> QED BY <1>1, <1>2, <2>1, NatSet
<1>4. \E e : Is(e, k) BY <1>3
<1> QED BY <1>4 DEF Ends

\* The ends of the first frames do not depend on how many follow.
LEMMA EndsAgree ==
  ASSUME NEW frames, NEW j \in Nat, NEW k \in Nat, j <= k
  PROVE  Ends(frames, k)[j] = EndAt(frames, j)
<1> DEFINE T == {n \in Nat : \A m, l \in Nat : n <= m /\ n <= l => Ends(frames, m)[n] = Ends(frames, l)[n]}
<1>1. 0 \in T
  <2>1. \A m \in Nat : Ends(frames, m)[0] = MagicLength
    <3> TAKE m \in Nat
    <3>1. 0 \in 0..m OBVIOUS
    <3> DEFINE E == Ends(frames, m)
    <3>2. E = [i \in 0..m |-> IF i = 0 THEN MagicLength
                              ELSE E[i - 1] + HeadLength + Len(frames[i].payload)] BY EndsAre
    <3> HIDE DEF E
    <3>3. E[0] = MagicLength BY <3>1, <3>2
    <3> QED BY <3>3 DEF E
  <2> QED BY <2>1
<1>2. \A n \in T : n + 1 \in T
  <2> TAKE n \in T
  <2>1. n \in Nat OBVIOUS
  <2>2. \A m \in Nat : n + 1 <= m =>
          Ends(frames, m)[n + 1] = Ends(frames, m)[n] + HeadLength + Len(frames[n + 1].payload)
    <3> TAKE m \in Nat
    <3>1. HAVE n + 1 <= m
    <3>2. n + 1 \in 0..m /\ n + 1 # 0 /\ (n + 1) - 1 = n BY <2>1, <3>1
    <3> DEFINE E == Ends(frames, m)
    <3>3. E = [i \in 0..m |-> IF i = 0 THEN MagicLength
                              ELSE E[i - 1] + HeadLength + Len(frames[i].payload)] BY EndsAre
    <3> HIDE DEF E
    <3>4. E[n + 1] = E[(n + 1) - 1] + HeadLength + Len(frames[n + 1].payload) BY <3>2, <3>3
    <3> QED BY <3>2, <3>4 DEF E
  <2>3. \A m \in Nat : n + 1 <= m => n <= m BY <2>1
  <2>4. \A m, l \in Nat : n + 1 <= m /\ n + 1 <= l => Ends(frames, m)[n] = Ends(frames, l)[n] BY <2>1, <2>3
  <2>5. \A m, l \in Nat : n + 1 <= m /\ n + 1 <= l => Ends(frames, m)[n + 1] = Ends(frames, l)[n + 1]
    BY <2>2, <2>4
  <2> QED BY <2>1, <2>5
<1>3. T = Nat
  <2>1. T \subseteq Nat OBVIOUS
  <2> HIDE DEF T
  <2> QED BY <1>1, <1>2, <2>1, NatSet
<1> QED BY <1>3 DEF EndAt

\* Where a frame ends.
LEMMA EndStep ==
  ASSUME NEW frames
  PROVE  /\ EndAt(frames, 0) = MagicLength
         /\ \A k \in Nat : EndAt(frames, k + 1) = EndAt(frames, k) + HeadLength + Len(frames[k + 1].payload)
<1>1. EndAt(frames, 0) = MagicLength
  <2>1. 0 \in 0..0 OBVIOUS
  <2> QED BY <2>1, EndsAre DEF EndAt
<1>2. ASSUME NEW k \in Nat
      PROVE  EndAt(frames, k + 1) = EndAt(frames, k) + HeadLength + Len(frames[k + 1].payload)
  <2> DEFINE E == Ends(frames, k + 1)
  <2>1. E = [i \in 0..k + 1 |-> IF i = 0 THEN MagicLength
                            ELSE E[i - 1] + HeadLength + Len(frames[i].payload)] BY EndsAre
  <2>2. E[k] = EndAt(frames, k) BY EndsAgree
  <2>3. k + 1 \in 0..k + 1 /\ k + 1 # 0 /\ (k + 1) - 1 = k OBVIOUS
  <2> HIDE DEF E
  <2>4. E[k + 1] = E[(k + 1) - 1] + HeadLength + Len(frames[k + 1].payload) BY <2>1, <2>3
  <2> QED BY <2>2, <2>3, <2>4 DEF E, EndAt
<1> QED BY <1>1, <1>2

\* What a peer may send, of its frames.
FramesOK(frames) ==
  /\ IsSeq(frames)
  /\ \A i \in 1..Len(frames) :
       LET f == frames[i]
       IN  /\ f.type \in STRING /\ f.flags \subseteq STRING /\ f.stream \in Nat /\ IsSeq(f.payload)
           /\ f.type = "HEADERS" => f.stream \in StreamIds \cup {0}
           /\ f.type \in {"HEADERS", "PUSH_PROMISE", "DATA"} /\ "PADDED" \in f.flags /\ f.payload # <<>> =>
                f.payload[1].kind = "pad" /\ f.payload[1].value \in Nat

\* What is assumed of an input, for one of them.
LEMMA InputOK ==
  ASSUME NEW input \in Inputs
  PROVE  FramesOK(input.frames) /\ input.magic \in BOOLEAN /\ Len(input.frames) \in Nat
<1>1. IsSeq(input.frames) BY InputsAssumption
<1>2. DOMAIN input.frames = 1..Len(input.frames) /\ Len(input.frames) \in Nat BY <1>1 DEF IsSeq
<1> QED BY <1>1, <1>2, InputsAssumption DEF FramesOK

\* The lengths of the protocol are positive.
LEMMA Lengths ==
  /\ MaxFrameSize \in Nat \ {0} /\ HeadLength \in Nat \ {0} /\ PriorityLength \in Nat \ {0}
  /\ EntryLength \in Nat \ {0} /\ WordLength \in Nat \ {0} /\ MagicLength \in Nat \ {0}
BY LengthsAssumption, MagicAssumption

\* The ends are numbers, and the frames lie one behind the other.
LEMMA EndNat ==
  ASSUME NEW frames, FramesOK(frames), NEW k \in 0..Len(frames)
  PROVE  EndAt(frames, k) \in Nat /\ MagicLength <= EndAt(frames, k)
<1> DEFINE N(n) == EndAt(frames, n) \in Nat /\ MagicLength <= EndAt(frames, n)
           T == {n \in Nat : n <= Len(frames) => N(n)}
<1>0. Len(frames) \in Nat BY DEF FramesOK, IsSeq
<1>1. 0 \in T
  <2>1. EndAt(frames, 0) = MagicLength BY EndStep
  <2> QED BY <2>1, Lengths
<1>2. \A n \in T : n + 1 \in T
  <2> TAKE n \in T
  <2>1. n \in Nat OBVIOUS
  <2>2. SUFFICES ASSUME n + 1 <= Len(frames) PROVE N(n + 1) BY <2>1
  <2>3. N(n) BY <1>0, <2>1, <2>2
  <2>4. Len(frames[n + 1].payload) \in Nat
    <3>1. n + 1 \in 1..Len(frames) BY <1>0, <2>1, <2>2
    <3> QED BY <3>1 DEF FramesOK, IsSeq
  <2>5. EndAt(frames, n + 1) = EndAt(frames, n) + HeadLength + Len(frames[n + 1].payload) BY <2>1, EndStep
  <2> DEFINE a == EndAt(frames, n)
             b == EndAt(frames, n + 1)
             l == Len(frames[n + 1].payload)
  <2>6. a \in Nat /\ MagicLength <= a /\ l \in Nat /\ b = a + HeadLength + l BY <2>3, <2>4, <2>5
  <2> SUFFICES b \in Nat /\ MagicLength <= b OBVIOUS
  <2> HIDE DEF a, b, l
  <2> QED BY <2>6, Lengths
<1>3. T = Nat
  <2>1. T \subseteq Nat OBVIOUS
  <2> HIDE DEF T
  <2> QED BY <1>1, <1>2, <2>1, NatSet
<1> QED BY <1>0, <1>3

\* A frame takes its head and its payload.
LEMMA EndNext ==
  ASSUME NEW frames, FramesOK(frames), NEW k \in 1..Len(frames)
  PROVE  /\ EndAt(frames, k) = EndAt(frames, k - 1) + HeadLength + Len(frames[k].payload)
         /\ EndAt(frames, k - 1) \in Nat /\ EndAt(frames, k) \in Nat /\ Len(frames[k].payload) \in Nat
         /\ MagicLength <= EndAt(frames, k - 1) /\ EndAt(frames, k - 1) + HeadLength <= EndAt(frames, k)
         /\ IsSeq(frames[k].payload)
<1>0. Len(frames) \in Nat BY DEF FramesOK, IsSeq
<1>1. k - 1 \in Nat /\ k - 1 + 1 = k /\ k - 1 \in 0..Len(frames) /\ k \in 0..Len(frames) BY <1>0
<1>2. EndAt(frames, k - 1 + 1) = EndAt(frames, k - 1) + HeadLength + Len(frames[k - 1 + 1].payload)
  BY <1>1, EndStep
<1>3. IsSeq(frames[k].payload) /\ Len(frames[k].payload) \in Nat BY DEF FramesOK, IsSeq
<1>4. EndAt(frames, k - 1) \in Nat /\ MagicLength <= EndAt(frames, k - 1) /\ EndAt(frames, k) \in Nat
  BY <1>1, EndNat
<1> QED BY <1>1, <1>2, <1>3, <1>4, Lengths

\* Later frames end later.
LEMMA EndMono ==
  ASSUME NEW frames, FramesOK(frames), NEW k \in 0..Len(frames), NEW j \in 0..k
  PROVE  EndAt(frames, j) <= EndAt(frames, k)
<1> DEFINE T == {n \in Nat : j + n <= Len(frames) => EndAt(frames, j) <= EndAt(frames, j + n)}
<1>0. Len(frames) \in Nat BY DEF FramesOK, IsSeq
<1>1. j \in 0..Len(frames) /\ j \in Nat /\ k \in Nat BY <1>0
<1>2. EndAt(frames, j) \in Nat BY <1>1, EndNat
<1>3. 0 \in T BY <1>1, <1>2
<1>4. \A n \in T : n + 1 \in T
  <2> TAKE n \in T
  <2>1. n \in Nat OBVIOUS
  <2>2. SUFFICES ASSUME j + (n + 1) <= Len(frames) PROVE EndAt(frames, j) <= EndAt(frames, j + (n + 1)) BY <2>1
  <2>3. EndAt(frames, j) <= EndAt(frames, j + n) BY <1>0, <1>1, <2>1, <2>2
  <2>4. j + (n + 1) \in 1..Len(frames) /\ j + (n + 1) - 1 = j + n BY <1>0, <1>1, <2>1, <2>2
  <2>5. /\ EndAt(frames, j + n) \in Nat /\ EndAt(frames, j + (n + 1)) \in Nat
        /\ EndAt(frames, j + n) + HeadLength <= EndAt(frames, j + (n + 1))
    <3> DEFINE m == j + (n + 1)
    <3>1. m \in 1..Len(frames) /\ m - 1 = j + n BY <2>4
    <3> HIDE DEF m
    <3>2. EndAt(frames, m - 1) \in Nat /\ EndAt(frames, m) \in Nat
          /\ EndAt(frames, m - 1) + HeadLength <= EndAt(frames, m)
      BY <3>1, EndNext
    <3> QED BY <3>1, <3>2 DEF m
  <2> QED BY <1>2, <2>1, <2>3, <2>5, Lengths
<1>5. T = Nat
  <2>1. T \subseteq Nat OBVIOUS
  <2> HIDE DEF T
  <2> QED BY <1>3, <1>4, <2>1, NatSet
<1>6. k - j \in Nat /\ j + (k - j) = k BY <1>1
<1>7. k - j \in T BY <1>5, <1>6
<1> QED BY <1>0, <1>1, <1>6, <1>7

\* The bytes of a frame.
LEMMA BytesAre ==
  ASSUME NEW f, IsSeq(f.payload)
  PROVE  /\ IsSeq(Bytes(f)) /\ Len(Bytes(f)) = HeadLength + Len(f.payload) /\ Len(f.payload) \in Nat
         /\ \A i \in 1..HeadLength : Bytes(f)[i] = Byte("head", <<i, Header(f)>>)
         /\ \A i \in 1..Len(f.payload) : Bytes(f)[HeadLength + i] = f.payload[i]
<1> DEFINE h == [i \in 1..HeadLength |-> Byte("head", <<i, Header(f)>>)]
           S == {Byte("head", <<i, Header(f)>>) : i \in 1..HeadLength}
<1>1. h \in [1..HeadLength -> S] OBVIOUS
<1>2. \A i \in 1..HeadLength : h[i] = Byte("head", <<i, Header(f)>>) OBVIOUS
<1> HIDE DEF S, h
<1>3. IsSeq(h) /\ Len(h) = HeadLength BY <1>1, Lengths, FunctionIsSeq
<1>4. Bytes(f) = h \o f.payload BY DEF Bytes, h
<1> DEFINE y == f.payload
<1> HIDE DEF y
<1>5. IsSeq(y) /\ IsSeq(h) BY <1>3 DEF y
<1>6. IsSeq(h \o y) /\ Len(y) \in Nat /\ Len(h \o y) = Len(h) + Len(y) BY <1>5, Joined
<1>7. \A i \in 1..Len(h) : (h \o y)[i] = h[i] BY <1>5, Joined
<1>8. \A i \in 1..Len(y) : (h \o y)[Len(h) + i] = y[i] BY <1>5, Joined
<1> QED BY <1>2, <1>3, <1>4, <1>6, <1>7, <1>8 DEF y

-----------------------------------------------------------------------------
(* The frames one behind the other: what FlattenSeq computes.               *)

Flat(seqs, n) == CHOOSE f : f = [i \in 1..n |-> IF i = 1 THEN seqs[i] ELSE f[i - 1] \o seqs[i]]

\* FlattenSeq joins all elements.
LEMMA FlattenIs ==
  ASSUME NEW seqs, Len(seqs) # 0
  PROVE  FlattenSeq(seqs) = Flat(seqs, Len(seqs))[Len(seqs)]
BY DEF FlattenSeq, Flat

\* The recursion is well defined.
LEMMA FlatIs ==
  ASSUME NEW seqs, NEW k \in Nat
  PROVE  Flat(seqs, k) = [i \in 1..k |-> IF i = 1 THEN seqs[i] ELSE Flat(seqs, k)[i - 1] \o seqs[i]]
<1> DEFINE Is(e, n) == e = [i \in 1..n |-> IF i = 1 THEN seqs[i] ELSE e[i - 1] \o seqs[i]]
           T == {n \in Nat : \E e : Is(e, n)}
<1>1. 0 \in T
  <2> DEFINE e == [i \in 1..0 |-> seqs[i]]
  <2>1. Is(e, 0) OBVIOUS
  <2> QED BY <2>1
<1>2. \A n \in T : n + 1 \in T
  <2> TAKE n \in T
  <2>1. n \in Nat OBVIOUS
  <2>2. PICK d : Is(d, n) OBVIOUS
  <2> DEFINE e == [i \in 1..n + 1 |-> IF i = 1 THEN seqs[i] ELSE d[i - 1] \o seqs[i]]
  <2>3. \A i \in 1..n : e[i] = d[i]
    <3> TAKE i \in 1..n
    <3> DEFINE b == IF i = 1 THEN seqs[i] ELSE d[i - 1] \o seqs[i]
    <3>1. d[i] = b BY <2>2
    <3>2. i \in 1..n + 1 BY <2>1
    <3>3. e[i] = b BY <3>2
    <3> QED BY <3>1, <3>3
  <2>4. \A i \in 1..n + 1 : i # 1 => i - 1 \in 1..n BY <2>1
  <2>5. e = [i \in 1..n + 1 |-> IF i = 1 THEN seqs[i] ELSE e[i - 1] \o seqs[i]]
    <3> DEFINE g == [i \in 1..n + 1 |-> IF i = 1 THEN seqs[i] ELSE e[i - 1] \o seqs[i]]
    <3>1. \A i \in 1..n + 1 : e[i] = g[i]
      <4> TAKE i \in 1..n + 1
      <4>1. CASE i = 1 BY <4>1
      <4>2. CASE i # 1
        <5>1. e[i - 1] = d[i - 1] BY <2>3, <2>4, <4>2
        <5>2. e[i] = d[i - 1] \o seqs[i] BY <4>2
        <5>3. g[i] = e[i - 1] \o seqs[i] BY <4>2
        <5> QED BY <5>1, <5>2, <5>3
      <4> QED BY <4>1, <4>2
    <3>2. DOMAIN e = 1..n + 1 /\ DOMAIN g = 1..n + 1 OBVIOUS
    <3> QED BY <3>1
  <2>6. Is(e, n + 1) BY <2>5
  <2> HIDE DEF e, Is
  <2> QED BY <2>1, <2>6
<1>3. T = Nat
  <2>1. T \subseteq Nat OBVIOUS
  <2> HIDE DEF T
  <2> QED BY <1>1, <1>2, <2>1, NatSet
<1>4. \E e : Is(e, k) BY <1>3
<1> QED BY <1>4 DEF Flat

\* The first frames of a connection, as FlattenSeq joins them, are as long as the ends say, and have
\* the bytes of each frame at its place.
Parts(input) == [i \in DOMAIN input.frames |-> Bytes(input.frames[i])]
Joins(input, n, bytes) ==
  /\ IsSeq(bytes) /\ Len(bytes) = EndAt(input.frames, n) - MagicLength
  /\ \A k \in 1..n : \A j \in 1..HeadLength + Len(input.frames[k].payload) :
       bytes[EndAt(input.frames, k - 1) - MagicLength + j] = Bytes(input.frames[k])[j]

\* The frames, joined, lie where the ends say.
LEMMA FlatJoins ==
  ASSUME NEW input \in Inputs, Len(input.frames) # 0
  PROVE  Joins(input, Len(input.frames), FlattenSeq(Parts(input)))
<1> DEFINE fr == input.frames
           c == Len(fr)
           F == Flat(Parts(input), c)
           T == {n \in Nat : n + 1 <= c => Joins(input, n + 1, F[n + 1])}
<1>1. FramesOK(fr) /\ c \in Nat BY InputOK
<1>2. DOMAIN fr = 1..c BY <1>1 DEF FramesOK, IsSeq
<1>3. \A i \in 1..c : Parts(input)[i] = Bytes(fr[i]) BY <1>2 DEF Parts
<1>4. Len(Parts(input)) = c
  <2> DEFINE S == {Bytes(fr[i]) : i \in 1..c}
  <2>1. Parts(input) \in [1..c -> S] BY <1>2 DEF Parts
  <2> HIDE DEF S
  <2> QED BY <1>1, <2>1, FunctionIsSeq
<1>5. F = [i \in 1..c |-> IF i = 1 THEN Parts(input)[i] ELSE F[i - 1] \o Parts(input)[i]] BY <1>1, FlatIs
<1>6. \A i \in 1..c : /\ IsSeq(Bytes(fr[i])) /\ Len(Bytes(fr[i])) = HeadLength + Len(fr[i].payload)
                      /\ Len(fr[i].payload) \in Nat
  <2> TAKE i \in 1..c
  <2>1. IsSeq(fr[i].payload) BY <1>1 DEF FramesOK
  <2> QED BY <2>1, BytesAre
<1>7. \A i \in 1..c : /\ EndAt(fr, i) = EndAt(fr, i - 1) + HeadLength + Len(fr[i].payload)
                      /\ EndAt(fr, i - 1) \in Nat /\ EndAt(fr, i) \in Nat /\ MagicLength <= EndAt(fr, i - 1)
  BY <1>1, EndNext
<1>8. EndAt(fr, 0) = MagicLength BY EndStep
<1> HIDE DEF F, fr
<1>9. 0 \in T
  <2>1. SUFFICES ASSUME 1 <= c PROVE Joins(input, 1, F[1]) OBVIOUS
  <2>2. 1 \in 1..c BY <1>1, <2>1
  <2>3. F[1] = Bytes(fr[1]) BY <1>3, <1>5, <2>2
  <2>4. IsSeq(F[1]) /\ Len(F[1]) = EndAt(fr, 1) - MagicLength
    <3>1. EndAt(fr, 1) = EndAt(fr, 1 - 1) + HeadLength + Len(fr[1].payload) BY <1>7, <2>2
    <3>2. 1 - 1 = 0 OBVIOUS
    <3>3. IsSeq(F[1]) /\ Len(F[1]) = HeadLength + Len(fr[1].payload) /\ Len(fr[1].payload) \in Nat
      BY <1>6, <2>2, <2>3
    <3> QED BY <1>8, <3>1, <3>2, <3>3, Lengths
  <2>5. \A k \in 1..1 : \A j \in 1..HeadLength + Len(fr[k].payload) :
          F[1][EndAt(fr, k - 1) - MagicLength + j] = Bytes(fr[k])[j]
    <3> TAKE k \in 1..1
    <3> TAKE j \in 1..HeadLength + Len(fr[k].payload)
    <3>1. k = 1 /\ k - 1 = 0 OBVIOUS
    <3>2. EndAt(fr, k - 1) - MagicLength + j = j BY <1>6, <1>8, <2>2, <3>1, Lengths
    <3> QED BY <2>3, <3>1, <3>2
  <2> QED BY <2>4, <2>5 DEF Joins, fr
<1>10. \A n \in T : n + 1 \in T
  <2> TAKE n \in T
  <2>1. n \in Nat OBVIOUS
  <2> DEFINE m == n + 1
  <2>2. SUFFICES ASSUME m + 1 <= c PROVE Joins(input, m + 1, F[m + 1]) BY <2>1
  <2>3. Joins(input, m, F[m]) BY <1>1, <2>1, <2>2
  <2>4. m \in Nat /\ m + 1 \in 1..c /\ m \in 1..c /\ m + 1 # 1 /\ (m + 1) - 1 = m BY <1>1, <2>1, <2>2
  <2> HIDE DEF m, T
  <2> DEFINE x == F[m]
             y == Bytes(fr[m + 1])
  <2>5. F[m + 1] = x \o y
    <3>1. F[m + 1] = F[(m + 1) - 1] \o Parts(input)[m + 1] BY <1>5, <2>4
    <3> QED BY <1>3, <2>4, <3>1
  <2>6. /\ IsSeq(x) /\ Len(x) = EndAt(fr, m) - MagicLength
        /\ \A k \in 1..m : \A j \in 1..HeadLength + Len(fr[k].payload) :
             x[EndAt(fr, k - 1) - MagicLength + j] = Bytes(fr[k])[j]
    BY <2>3 DEF Joins, fr
  <2>7. IsSeq(y) /\ Len(y) = HeadLength + Len(fr[m + 1].payload) BY <1>6, <2>4
  <2> HIDE DEF x, y
  <2>8. IsSeq(x \o y) /\ Len(x) \in Nat /\ Len(y) \in Nat /\ Len(x \o y) = Len(x) + Len(y) BY <2>6, <2>7, Joined
  <2>9. \A i \in 1..Len(x) : (x \o y)[i] = x[i] BY <2>6, <2>7, Joined
  <2>10. \A i \in 1..Len(y) : (x \o y)[Len(x) + i] = y[i]
    <3>1. IsSeq(x) /\ IsSeq(y) BY <2>6, <2>7
    <3> QED BY <3>1, Joined
  <2>11. Len(x \o y) = EndAt(fr, m + 1) - MagicLength 
    <3>1. /\ EndAt(fr, m + 1) = EndAt(fr, m) + HeadLength + Len(fr[m + 1].payload)
          /\ EndAt(fr, m) \in Nat /\ Len(fr[m + 1].payload) \in Nat
      BY <1>6, <1>7, <2>4
    <3> QED BY <2>6, <2>7, <2>8, <3>1, Lengths
  <2>12. ASSUME NEW k \in 1..m + 1, NEW j \in 1..HeadLength + Len(fr[k].payload)
         PROVE  (x \o y)[EndAt(fr, k - 1) - MagicLength + j] = Bytes(fr[k])[j]
    <3>1. CASE k = m + 1
      <4>1. k - 1 = m BY <2>4, <3>1
      <4>2. EndAt(fr, k - 1) - MagicLength + j = Len(x) + j BY <2>6, <4>1
      <4>3. j \in 1..Len(y) BY <2>7, <3>1
      <4>4. (x \o y)[Len(x) + j] = y[j] BY <2>10, <4>3
      <4> QED BY <3>1, <4>2, <4>4 DEF y
    <3>2. CASE k # m + 1
      <4>1. k \in 1..m /\ k \in 1..c BY <1>1, <2>4, <3>2
      <4> DEFINE i == EndAt(fr, k - 1) - MagicLength + j
      <4>2. EndAt(fr, k) <= EndAt(fr, m)
        <5>1. m \in 0..Len(fr) /\ k \in 0..m BY <2>4, <4>1
        <5> QED BY <1>1, <5>1, EndMono
      <4>3. i \in 1..Len(x)
        <5>1. /\ EndAt(fr, k) = EndAt(fr, k - 1) + HeadLength + Len(fr[k].payload)
              /\ EndAt(fr, k - 1) \in Nat /\ MagicLength <= EndAt(fr, k - 1) /\ Len(fr[k].payload) \in Nat
          BY <1>6, <1>7, <4>1
        <5>2. EndAt(fr, m) \in Nat BY <1>7, <2>4
        <5>3. j \in Nat /\ 1 <= j /\ j <= HeadLength + Len(fr[k].payload) BY <5>1, Lengths
        <5>4. Len(x) = EndAt(fr, m) - MagicLength BY <2>6
        <5>5. i \in Nat /\ 1 <= i BY <5>1, <5>3, Lengths
        <5>6. i <= Len(x)
          <6>1. HeadLength \in Nat /\ MagicLength \in Nat BY Lengths
          <6>2. EndAt(fr, k - 1) + j <= EndAt(fr, k) /\ EndAt(fr, k) \in Nat
            <7> DEFINE a == EndAt(fr, k - 1)
                       b == EndAt(fr, k)
                       l == Len(fr[k].payload)
            <7>1. a \in Nat /\ l \in Nat /\ b = a + HeadLength + l /\ j \in Nat /\ j <= HeadLength + l
              BY <5>1, <5>3
            <7> SUFFICES a + j <= b /\ b \in Nat OBVIOUS
            <7> HIDE DEF a, b, l
            <7> QED BY <6>1, <7>1
          <6>3. EndAt(fr, k - 1) + j <= EndAt(fr, m)
            <7> HIDE DEF fr, m
            <7> QED BY <4>2, <5>1, <5>2, <5>3, <6>2
          <6> QED BY <5>1, <5>2, <5>3, <5>4, <6>1, <6>3
        <5> HIDE DEF i
        <5> QED BY <2>8, <5>5, <5>6
      <4>4. x[i] = Bytes(fr[k])[j] BY <2>6, <4>1
      <4> HIDE DEF i
      <4>5. (x \o y)[i] = Bytes(fr[k])[j] BY <2>9, <4>3, <4>4
      <4> QED BY <4>5 DEF i
    <3> QED BY <3>1, <3>2
  <2> QED BY <2>5, <2>8, <2>11, <2>12 DEF Joins, fr
<1>11. T = Nat
  <2>1. T \subseteq Nat OBVIOUS
  <2> HIDE DEF T
  <2> QED BY <1>9, <1>10, <2>1, NatSet
<1>12. c - 1 \in Nat /\ c - 1 + 1 = c BY <1>1 DEF fr
<1>13. c - 1 \in T BY <1>11, <1>12
<1>14. Joins(input, c, F[c]) BY <1>12, <1>13
<1> QED BY <1>4, <1>14, FlattenIs DEF F, fr

\* The connection is as long as the last end says, and every frame lies where the ends say.
LEMMA WireIs ==
  ASSUME NEW input \in Inputs
  PROVE  /\ IsSeq(Wire(input)) /\ Len(Wire(input)) = EndAt(input.frames, Len(input.frames))
         /\ \A k \in 1..Len(input.frames) : \A j \in 1..HeadLength + Len(input.frames[k].payload) :
              Wire(input)[EndAt(input.frames, k - 1) + j] = Bytes(input.frames[k])[j]
<1> DEFINE fr == input.frames
           c == Len(fr)
           x == Magic(input.magic)
           y == FlattenSeq(Parts(input))
<1>1. FramesOK(fr) /\ c \in Nat BY InputOK
<1>2. Wire(input) = x \o y BY DEF Wire, Parts
<1>3. IsSeq(x) /\ Len(x) = MagicLength
  <2> DEFINE S == {Byte("magic", input.magic \/ i < MagicLength) : i \in 1..MagicLength}
  <2>1. x \in [1..MagicLength -> S] BY DEF Magic
  <2> HIDE DEF S, x
  <2> QED BY <2>1, Lengths, FunctionIsSeq
<1>4. IsSeq(y) /\ Len(y) = EndAt(fr, c) - MagicLength
  <2>1. CASE c = 0
    <3>1. DOMAIN fr = 1..0 BY <1>1, <2>1 DEF FramesOK, IsSeq
    <3>2. Parts(input) \in [1..0 -> {}] BY <3>1 DEF Parts
    <3>3. IsSeq(Parts(input)) /\ Len(Parts(input)) = 0 BY <3>2, FunctionIsSeq
    <3>4. y = Parts(input) BY <3>3 DEF FlattenSeq
    <3>5. EndAt(fr, c) = MagicLength BY <2>1, EndStep
    <3> QED BY <3>3, <3>4, <3>5, Lengths
  <2>2. CASE c # 0 BY <2>2, FlatJoins DEF Joins
  <2> QED BY <2>1, <2>2
<1> HIDE DEF x, y
<1>5. IsSeq(x) /\ IsSeq(y) BY <1>3, <1>4
<1>6. IsSeq(x \o y) /\ Len(x \o y) = Len(x) + Len(y) BY <1>5, Joined
<1>7. EndAt(fr, c) \in Nat
  <2>1. c \in 0..Len(fr) BY <1>1
  <2> QED BY <1>1, <2>1, EndNat
<1>8. Len(x \o y) = EndAt(fr, c) BY <1>3, <1>4, <1>6, <1>7, Lengths
<1>9. \A i \in 1..Len(y) : (x \o y)[Len(x) + i] = y[i] BY <1>5, Joined
<1>10. ASSUME NEW k \in 1..c, NEW j \in 1..HeadLength + Len(fr[k].payload)
       PROVE  (x \o y)[EndAt(fr, k - 1) + j] = Bytes(fr[k])[j]
  <2> DEFINE i == EndAt(fr, k - 1) - MagicLength + j
  <2>1. c # 0 BY <1>1
  <2>2. y[i] = Bytes(fr[k])[j] BY <2>1, FlatJoins DEF Joins, y
  <2>3. /\ EndAt(fr, k) = EndAt(fr, k - 1) + HeadLength + Len(fr[k].payload)
        /\ EndAt(fr, k - 1) \in Nat /\ EndAt(fr, k) \in Nat /\ MagicLength <= EndAt(fr, k - 1)
        /\ Len(fr[k].payload) \in Nat
    BY <1>1, EndNext
  <2>4. EndAt(fr, k) <= EndAt(fr, c)
    <3>1. c \in 0..Len(fr) /\ k \in 0..c BY <1>1
    <3> QED BY <1>1, <3>1, EndMono
  <2>5. j \in Nat /\ 1 <= j /\ j <= HeadLength + Len(fr[k].payload) BY <2>3, Lengths
  <2>9. i \in Nat /\ 1 <= i
    <3> DEFINE a == EndAt(fr, k - 1)
    <3>1. a \in Nat /\ MagicLength <= a /\ j \in Nat /\ 1 <= j BY <2>3, <2>5
    <3> SUFFICES a - MagicLength + j \in Nat /\ 1 <= a - MagicLength + j OBVIOUS
    <3> HIDE DEF a
    <3> QED BY <3>1, Lengths
  <2>10. EndAt(fr, k - 1) + j <= EndAt(fr, k)
    <3> DEFINE a == EndAt(fr, k - 1)
               b == EndAt(fr, k)
               n == Len(fr[k].payload)
    <3>1. a \in Nat /\ n \in Nat /\ b = a + HeadLength + n BY <2>3
    <3>2. j \in Nat /\ j <= HeadLength + n BY <2>5
    <3> SUFFICES a + j <= b OBVIOUS
    <3> HIDE DEF a, b, n
    <3> QED BY <3>1, <3>2, Lengths
  <2>11. i <= EndAt(fr, c) - MagicLength
    <3>1. EndAt(fr, k - 1) \in Nat /\ EndAt(fr, k) \in Nat BY <2>3
    <3> HIDE DEF c, fr
    <3> QED BY <1>7, <2>4, <2>5, <2>10, <3>1, Lengths
  <2>12. Len(y) = EndAt(fr, c) - MagicLength BY <1>4
  <2>6. i \in Nat /\ 1 <= i /\ i <= Len(y) BY <2>9, <2>11, <2>12
  <2>7. Len(x) + i = EndAt(fr, k - 1) + j BY <1>3, <2>3, <2>5, Lengths
  <2> HIDE DEF i
  <2>8. i \in 1..Len(y) BY <1>4, <1>7, <2>6, Lengths
  <2> QED BY <1>9, <2>2, <2>7, <2>8
<1> QED BY <1>2, <1>6, <1>8, <1>10

\* The head of a frame.
LEMMA HeadByte ==
  ASSUME NEW input \in Inputs, NEW k \in 0..Len(input.frames) - 1, NEW i \in 1..HeadLength
  PROVE  Wire(input)[EndAt(input.frames, k) + i] = Byte("head", <<i, Header(input.frames[k + 1])>>)
<1> DEFINE fr == input.frames
<1>1. FramesOK(fr) /\ Len(fr) \in Nat BY InputOK
<1>2. k + 1 \in 1..Len(fr) /\ k + 1 - 1 = k BY <1>1
<1>3. IsSeq(fr[k + 1].payload) BY <1>1, <1>2 DEF FramesOK
<1>4. /\ Len(fr[k + 1].payload) \in Nat
      /\ Bytes(fr[k + 1])[i] = Byte("head", <<i, Header(fr[k + 1])>>)
  BY <1>3, BytesAre
<1>5. i \in 1..HeadLength + Len(fr[k + 1].payload) BY <1>4, Lengths
<1>6. Wire(input)[EndAt(fr, k + 1 - 1) + i] = Bytes(fr[k + 1])[i]
  <2> DEFINE m == k + 1
  <2>1. m \in 1..Len(fr) BY <1>2
  <2>2. i \in 1..HeadLength + Len(fr[m].payload) BY <1>5
  <2> HIDE DEF m
  <2>3. Wire(input)[EndAt(fr, m - 1) + i] = Bytes(fr[m])[i] BY <2>1, <2>2, WireIs
  <2> QED BY <2>3 DEF m
<1> QED BY <1>2, <1>4, <1>6

\* The first byte of a padded payload is the number of bytes of its padding.
LEMMA PadByte ==
  ASSUME NEW input \in Inputs, NEW k \in 0..Len(input.frames) - 1,
         input.frames[k + 1].type \in {"HEADERS", "PUSH_PROMISE", "DATA"},
         "PADDED" \in input.frames[k + 1].flags,
         Len(input.frames[k + 1].payload) >= 1
  PROVE  Wire(input)[EndAt(input.frames, k) + HeadLength + 1].value \in Nat
<1> DEFINE fr == input.frames
           f == fr[k + 1]
<1>1. FramesOK(fr) /\ Len(fr) \in Nat BY InputOK
<1>2. k + 1 \in 1..Len(fr) /\ k + 1 - 1 = k BY <1>1
<1>3. IsSeq(f.payload) BY <1>1, <1>2 DEF FramesOK
<1>4. Len(f.payload) \in Nat /\ Bytes(f)[HeadLength + 1] = f.payload[1]
  <2>1. Len(f.payload) \in Nat BY <1>3, BytesAre
  <2>2. 1 \in 1..Len(f.payload) BY <2>1
  <2> QED BY <1>3, <2>1, <2>2, BytesAre
<1>5. HeadLength + 1 \in 1..HeadLength + Len(f.payload) BY <1>4, Lengths
<1>6. Wire(input)[EndAt(fr, k + 1 - 1) + (HeadLength + 1)] = Bytes(f)[HeadLength + 1]
  <2> DEFINE m == k + 1
             j == HeadLength + 1
  <2>1. m \in 1..Len(fr) BY <1>2
  <2>2. j \in 1..HeadLength + Len(fr[m].payload) BY <1>5
  <2> HIDE DEF m, j
  <2>3. Wire(input)[EndAt(fr, m - 1) + j] = Bytes(fr[m])[j] BY <2>1, <2>2, WireIs
  <2> QED BY <2>3 DEF m, j
<1>7. f.payload # <<>> BY NothingIsSeq
<1>8. f.payload[1].value \in Nat BY <1>1, <1>2, <1>7 DEF FramesOK
<1>9. k \in 0..Len(fr) BY <1>1
<1>10. EndAt(fr, k) \in Nat BY <1>1, <1>9, EndNat
<1>11. EndAt(fr, k + 1 - 1) + (HeadLength + 1) = EndAt(fr, k) + HeadLength + 1 BY <1>2, <1>10, Lengths
<1> QED BY <1>4, <1>6, <1>8, <1>11

-----------------------------------------------------------------------------
(* The content among the first p bytes: what the windows are charged with.  *)

InContent(frames, b) ==
  \E k \in 1..Len(frames) : /\ frames[k].type = "DATA"
                            /\ b > EndAt(frames, k - 1) + HeadLength /\ b <= EndAt(frames, k)
ContentRead(frames, p) == {b \in 1..p : InContent(frames, b)}
ContentSize(frames, p) == Cardinality(ContentRead(frames, p))

\* What is read of the content can be counted.
LEMMA ContentFinite ==
  ASSUME NEW frames, NEW p \in Nat
  PROVE  IsFiniteSet(ContentRead(frames, p)) /\ ContentSize(frames, p) \in Nat
<1>1. IsFiniteSet(1..p) BY FS_Interval
<1>2. ContentRead(frames, p) \subseteq 1..p BY DEF ContentRead
<1> QED BY <1>1, <1>2, FS_Subset, FS_CardinalityType DEF ContentSize

\* In front of the connection there is none.
LEMMA NoContentYet ==
  ASSUME NEW frames
  PROVE  ContentSize(frames, 0) = 0
<1>1. ContentRead(frames, 0) = {} BY DEF ContentRead
<1> QED BY <1>1, FS_EmptySet DEF ContentSize

\* Bytes that are no content add nothing.
LEMMA NoContent ==
  ASSUME NEW frames, NEW p \in Nat, NEW n \in Nat, \A b \in p + 1..p + n : ~InContent(frames, b)
  PROVE  ContentSize(frames, p + n) = ContentSize(frames, p)
<1>1. ContentRead(frames, p + n) = ContentRead(frames, p) BY DEF ContentRead
<1> QED BY <1>1 DEF ContentSize

\* Bytes that are content all add one each.
LEMMA AllContent ==
  ASSUME NEW frames, NEW p \in Nat, NEW n \in Nat, \A b \in p + 1..p + n : InContent(frames, b)
  PROVE  ContentSize(frames, p + n) = ContentSize(frames, p) + n
<1> DEFINE A == ContentRead(frames, p)
           B == p + 1..p + n
<1>1. ContentRead(frames, p + n) = A \cup B BY DEF ContentRead
<1>2. A \cap B = {} BY DEF ContentRead
<1>3. IsFiniteSet(A) /\ Cardinality(A) \in Nat BY ContentFinite DEF ContentSize
<1>4. IsFiniteSet(B) /\ Cardinality(B) = n
  <2>1. p + 1 \in Int /\ p + n \in Int OBVIOUS
  <2>2. IsFiniteSet(B) /\ Cardinality(B) = IF p + 1 > p + n THEN 0 ELSE (p + n) - (p + 1) + 1
    BY <2>1, FS_Interval
  <2> QED BY <2>2
<1>5. Cardinality(A \cup B) = Cardinality(A) + Cardinality(B) - Cardinality(A \cap B) BY <1>3, <1>4, FS_Union
<1>6. Cardinality(A \cap B) = 0 BY <1>2, FS_EmptySet
<1> HIDE DEF A, B
<1>7. Cardinality(A \cup B) = Cardinality(A) + n BY <1>3, <1>4, <1>5, <1>6
<1> QED BY <1>1, <1>7 DEF ContentSize, A, B

\* What the bytes of one frame, of a head and of the magic add.
LEMMA FrameContent ==
  ASSUME NEW input \in Inputs, NEW k \in 1..Len(input.frames), NEW p \in Nat, NEW n \in Nat,
         EndAt(input.frames, k - 1) + HeadLength <= p, p + n <= EndAt(input.frames, k)
  PROVE  ContentSize(input.frames, p + n) =
           ContentSize(input.frames, p) + (IF input.frames[k].type = "DATA" THEN n ELSE 0)
<1> DEFINE fr == input.frames
<1>1. FramesOK(fr) /\ Len(fr) \in Nat BY InputOK
<1>2. CASE fr[k].type = "DATA"
  <2>1. ASSUME NEW b \in p + 1..p + n PROVE InContent(fr, b)
    <3>1. EndAt(fr, k - 1) \in Nat /\ EndAt(fr, k) \in Nat BY <1>1, EndNext
    <3>2. b > EndAt(fr, k - 1) + HeadLength /\ b <= EndAt(fr, k) BY <3>1, Lengths
    <3> QED BY <1>2, <3>2 DEF InContent
  <2> QED BY <1>2, <2>1, AllContent
<1>3. CASE fr[k].type # "DATA"
  <2>1. ASSUME NEW b \in p + 1..p + n, NEW j \in 1..Len(fr), fr[j].type = "DATA",
               b > EndAt(fr, j - 1) + HeadLength, b <= EndAt(fr, j)
        PROVE  FALSE
    <3>1. EndAt(fr, k - 1) \in Nat /\ EndAt(fr, k) \in Nat /\ EndAt(fr, j - 1) \in Nat /\ EndAt(fr, j) \in Nat
      BY <1>1, EndNext
    <3>2. j # k BY <1>3, <2>1
    <3>3. CASE j < k
      <4>1. k - 1 \in 0..Len(fr) /\ j \in 0..k - 1 BY <1>1, <3>3
      <4>2. EndAt(fr, j) <= EndAt(fr, k - 1) BY <1>1, <4>1, EndMono
      <4>3. b > p /\ b \in Nat OBVIOUS
      <4> QED BY <2>1, <3>1, <4>2, <4>3, Lengths
    <3>4. CASE k < j
      <4>1. j - 1 \in 0..Len(fr) /\ k \in 0..j - 1 BY <1>1, <3>4
      <4>2. EndAt(fr, k) <= EndAt(fr, j - 1) BY <1>1, <4>1, EndMono
      <4>3. b <= p + n /\ b \in Nat OBVIOUS
      <4> QED BY <2>1, <3>1, <4>2, <4>3, Lengths
    <3> QED BY <1>1, <3>2, <3>3, <3>4
  <2>2. \A b \in p + 1..p + n : ~InContent(fr, b) BY <2>1 DEF InContent
  <2>3. ContentSize(fr, p + n) = ContentSize(fr, p) BY <2>2, NoContent
  <2>4. ContentSize(fr, p) \in Nat BY ContentFinite
  <2> QED BY <1>3, <2>3, <2>4
<1> QED BY <1>2, <1>3

\* The head of a frame is no content.
LEMMA HeadContent ==
  ASSUME NEW input \in Inputs, NEW k \in 0..Len(input.frames), NEW p \in Nat, NEW n \in Nat,
         EndAt(input.frames, k) <= p, p + n <= EndAt(input.frames, k) + HeadLength
  PROVE  ContentSize(input.frames, p + n) = ContentSize(input.frames, p)
<1> DEFINE fr == input.frames
<1>1. FramesOK(fr) /\ Len(fr) \in Nat BY InputOK
<1>2. EndAt(fr, k) \in Nat BY <1>1, EndNat
<1>3. ASSUME NEW b \in p + 1..p + n, NEW j \in 1..Len(fr),
             b > EndAt(fr, j - 1) + HeadLength, b <= EndAt(fr, j)
      PROVE  FALSE
  <2>1. EndAt(fr, j - 1) \in Nat /\ EndAt(fr, j) \in Nat BY <1>1, EndNext
  <2>2. CASE j <= k
    <3>1. k \in 0..Len(fr) /\ j \in 0..k BY <1>1, <2>2
    <3>2. EndAt(fr, j) <= EndAt(fr, k) BY <1>1, <3>1, EndMono
    <3>3. b > p /\ b \in Nat OBVIOUS
    <3> QED BY <1>2, <1>3, <2>1, <3>2, <3>3, Lengths
  <2>3. CASE k < j
    <3>1. j - 1 \in 0..Len(fr) /\ k \in 0..j - 1 BY <1>1, <2>3
    <3>2. EndAt(fr, k) <= EndAt(fr, j - 1) BY <1>1, <3>1, EndMono
    <3>3. b <= p + n /\ b \in Nat OBVIOUS
    <3> QED BY <1>2, <1>3, <2>1, <3>2, <3>3, Lengths
  <2> QED BY <1>1, <2>2, <2>3
<1>4. \A b \in p + 1..p + n : ~InContent(fr, b) BY <1>3 DEF InContent
<1> QED BY <1>4, NoContent

\* Neither is the magic.
LEMMA MagicContent ==
  ASSUME NEW input \in Inputs, NEW p \in Nat, NEW n \in Nat, p + n <= MagicLength
  PROVE  ContentSize(input.frames, p + n) = ContentSize(input.frames, p)
<1> DEFINE fr == input.frames
<1>1. FramesOK(fr) /\ Len(fr) \in Nat BY InputOK
<1>2. ASSUME NEW b \in p + 1..p + n, NEW j \in 1..Len(fr), b > EndAt(fr, j - 1) + HeadLength
      PROVE  FALSE
  <2>1. EndAt(fr, j - 1) \in Nat /\ MagicLength <= EndAt(fr, j - 1) BY <1>1, EndNext
  <2> QED BY <1>2, <2>1, Lengths
<1>3. \A b \in p + 1..p + n : ~InContent(fr, b) BY <1>2 DEF InContent
<1> QED BY <1>3, NoContent

-----------------------------------------------------------------------------
(* The invariant: the reader.                                               *)

States ==
  {"READ_CLIENT_MAGIC", "READ_FIRST_SETTINGS", "READ_HEAD", "EXPECT_CONTINUATION", "IGN_CONTINUATION",
   "READ_NBYTE", "READ_SETTINGS", "READ_GOAWAY_DEBUG", "READ_HEADER_BLOCK", "IGN_HEADER_BLOCK",
   "READ_PAD_DATA", "READ_DATA", "IGN_DATA", "FRAME_SIZE_ERROR", "IGN_PAYLOAD", "IGN_ALL"}
InHead == {"READ_FIRST_SETTINGS", "READ_HEAD", "EXPECT_CONTINUATION", "IGN_CONTINUATION"}
InBlock == {"READ_HEADER_BLOCK", "IGN_HEADER_BLOCK", "EXPECT_CONTINUATION", "IGN_CONTINUATION"}
InData == {"READ_PAD_DATA", "READ_DATA", "IGN_DATA"}
InPayload == States \ (InHead \cup {"READ_CLIENT_MAGIC", "IGN_ALL"})
Heard == {"READ_HEADER_BLOCK", "EXPECT_CONTINUATION", "READ_PAD_DATA", "READ_DATA"}

HeadOK(hd) ==
  /\ DOMAIN hd = {"type", "flags", "stream", "length"}
  /\ hd.stream \in Nat /\ hd.length \in Nat
  /\ hd.type = "HEADERS" => hd.stream \in StreamIds \cup {0}

\* The byte that comes next is a Pad Length
PadNext(f) ==
  \/ f.state = "READ_PAD_DATA"
  \/ /\ f.state = "READ_NBYTE" /\ f.hd.type \in {"HEADERS", "PUSH_PROMISE"}
     /\ "PADDED" \in f.hd.flags /\ f.padlen = 0

Marks == {0, 1, HeadLength, PriorityLength, EntryLength, WordLength, 2 * WordLength}

\* What is buffered, and that what is still to be buffered is left of the frame
BufferOK(f) ==
  /\ IsSeq(f.sbuf) /\ Len(f.sbuf) <= f.mark /\ f.mark \in Marks
  /\ f.state \in InHead => f.mark = HeadLength /\ Len(f.sbuf) < HeadLength
  /\ f.state \in {"READ_NBYTE", "READ_PAD_DATA"} =>
       Len(f.sbuf) < f.mark /\ f.mark - Len(f.sbuf) <= f.payloadleft
  /\ f.state = "READ_NBYTE" /\ f.hd.type \notin {"HEADERS", "PUSH_PROMISE", "GOAWAY"} =>
       f.mark - Len(f.sbuf) = f.payloadleft
  /\ f.state = "READ_PAD_DATA" => f.mark = 1
  /\ f.state = "READ_NBYTE" /\ f.hd.type \in {"HEADERS", "PUSH_PROMISE"} =>
       f.mark = IF PadNext(f) THEN 1 ELSE FixedFields(f.hd)
  /\ f.state = "READ_SETTINGS" =>
       \/ f.mark = 0 /\ f.payloadleft = 0
       \/ /\ f.mark = EntryLength /\ Len(f.sbuf) < EntryLength
          /\ \E m \in Nat \ {0} : f.payloadleft + Len(f.sbuf) = m * EntryLength

FrameOK(f) ==
  /\ DOMAIN f = {"state", "hd", "payloadleft", "padlen", "sbuf", "mark", "iv", "least"}
  /\ f.state \in States /\ HeadOK(f.hd) /\ f.payloadleft \in Nat /\ f.padlen \in Nat
  /\ f.state \in InHead \cup {"READ_CLIENT_MAGIC", "READ_PAD_DATA"} => f.padlen = 0
  /\ f.state \in InBlock => f.hd.type \in {"HEADERS", "PUSH_PROMISE"}
  /\ f.state = "READ_NBYTE" =>
       f.hd.type \in {"HEADERS", "PUSH_PROMISE", "PRIORITY", "RST_STREAM", "WINDOW_UPDATE", "PING", "GOAWAY"}
  /\ BufferOK(f)

\* Where in the connection a reader is that has read p bytes: in front of frame k + 1, or in the
\* payload of frame k; goaway is the one of the session
Ahead(input, k, p, sbuf) ==
  /\ p = EndAt(input.frames, k) + Len(sbuf)
  /\ \A i \in 1..Len(sbuf) : sbuf[i] = Wire(input)[EndAt(input.frames, k) + i]
Within(input, k, p, f, goaway) ==
  /\ p + f.payloadleft = EndAt(input.frames, k) /\ EndAt(input.frames, k - 1) + HeadLength <= p
  /\ f.state \in InData => input.frames[k].type = "DATA"
  /\ f.state \notin InData => input.frames[k].type # "DATA" \/ goaway # "none"
SpotOK(input, p, f, goaway) ==
  /\ PadNext(f) => Wire(input)[p + 1].value \in Nat
  /\ f.state = "READ_CLIENT_MAGIC" => p + f.payloadleft = MagicLength
  /\ f.state \in InHead => \E k \in 0..Len(input.frames) : Ahead(input, k, p, f.sbuf)
  /\ f.state \in InPayload => \E k \in 1..Len(input.frames) : Within(input, k, p, f, goaway)
  /\ f.state = "IGN_ALL" => goaway # "none"

-----------------------------------------------------------------------------
(* How the reader gets on.                                                  *)

\* What remains of the connection behind a reader.
LEMMA WithinEnd ==
  ASSUME NEW input \in Inputs, NEW k \in 1..Len(input.frames), NEW p \in Nat, NEW f, NEW g,
         f.payloadleft \in Nat, Within(input, k, p, f, g)
  PROVE  /\ EndAt(input.frames, k) \in Nat /\ EndAt(input.frames, k - 1) \in Nat
         /\ p + f.payloadleft <= Len(Wire(input))
<1> DEFINE fr == input.frames
<1>1. FramesOK(fr) /\ Len(fr) \in Nat BY InputOK
<1>2. EndAt(fr, k) \in Nat /\ EndAt(fr, k - 1) \in Nat BY <1>1, EndNext
<1>3. EndAt(fr, k) <= EndAt(fr, Len(fr))
  <2>1. Len(fr) \in 0..Len(fr) /\ k \in 0..Len(fr) BY <1>1
  <2> QED BY <1>1, <2>1, EndMono
<1> QED BY <1>2, <1>3, WireIs DEF Within

\* n bytes of a payload are read, some are left or none, and the reader stays in the frame.
LEMMA SpotWithin ==
  ASSUME NEW input \in Inputs, NEW p \in Nat, NEW f, NEW h, NEW g, NEW g2, NEW n \in Nat,
         SpotOK(input, p, f, g), f.state \in InPayload, h.state \in InPayload,
         f.payloadleft \in Nat, n <= f.payloadleft, h.payloadleft = f.payloadleft - n,
         g # "none" => g2 # "none",
         h.state \in InData => f.state \in InData,
         h.state \notin InData => f.state \notin InData \/ g2 # "none",
         PadNext(h) => Wire(input)[p + n + 1].value \in Nat
  PROVE  SpotOK(input, p + n, h, g2)
<1>1. PICK k \in 1..Len(input.frames) : Within(input, k, p, f, g) BY DEF SpotOK
<1>2. EndAt(input.frames, k) \in Nat /\ EndAt(input.frames, k - 1) \in Nat BY <1>1, WithinEnd
<1>3. p + n + h.payloadleft = EndAt(input.frames, k) BY <1>1 DEF Within
<1>4. EndAt(input.frames, k - 1) + HeadLength <= p + n BY <1>1, <1>2, Lengths DEF Within
<1>5. Within(input, k, p + n, h, g2) BY <1>1, <1>3, <1>4 DEF Within
<1>6. h.state \notin InHead /\ h.state # "READ_CLIENT_MAGIC" /\ h.state # "IGN_ALL" BY DEF InPayload
<1> QED BY <1>5, <1>6 DEF SpotOK

\* The payload is read to its end.
LEMMA SpotAfter ==
  ASSUME NEW input \in Inputs, NEW p \in Nat, NEW f, NEW h, NEW g, NEW g2,
         SpotOK(input, p, f, g), f.state \in InPayload, f.payloadleft \in Nat,
         h.state \in InHead, h.sbuf = <<>>
  PROVE  SpotOK(input, p + f.payloadleft, h, g2)
<1>1. PICK k \in 1..Len(input.frames) : Within(input, k, p, f, g) BY DEF SpotOK
<1>2. EndAt(input.frames, k) \in Nat BY <1>1, WithinEnd
<1>3. Ahead(input, k, p + f.payloadleft, h.sbuf) BY <1>1, <1>2, NothingIsSeq DEF Within, Ahead
<1>4. k \in 0..Len(input.frames) BY InputOK
<1>5. h.state \notin InPayload /\ h.state # "READ_CLIENT_MAGIC" /\ h.state # "IGN_ALL" /\ ~PadNext(h)
  BY DEF InPayload, InHead, PadNext
<1> QED BY <1>3, <1>4, <1>5 DEF SpotOK

\* Outside the payload of DATA there is no content, and inside there is nothing else.
LEMMA ChargeWithin ==
  ASSUME NEW input \in Inputs, NEW p \in Nat, NEW f, NEW n \in Nat,
         SpotOK(input, p, f, "none"), f.state \in InPayload, f.payloadleft \in Nat, n <= f.payloadleft
  PROVE  ContentSize(input.frames, p + n) =
           ContentSize(input.frames, p) + (IF f.state \in InData THEN n ELSE 0)
<1>1. PICK k \in 1..Len(input.frames) : Within(input, k, p, f, "none") BY DEF SpotOK
<1>2. EndAt(input.frames, k) \in Nat /\ EndAt(input.frames, k - 1) \in Nat BY <1>1, WithinEnd
<1>3. EndAt(input.frames, k - 1) + HeadLength <= p /\ p + n <= EndAt(input.frames, k)
  BY <1>1, <1>2 DEF Within
<1>4. ContentSize(input.frames, p + n) =
        ContentSize(input.frames, p) + (IF input.frames[k].type = "DATA" THEN n ELSE 0)
  BY <1>3, FrameContent
<1>5. f.state \in InData <=> input.frames[k].type = "DATA" BY <1>1 DEF Within
<1> QED BY <1>4, <1>5

\* Some bytes of a head are read.
LEMMA SpotInHead ==
  ASSUME NEW input \in Inputs, NEW p \in Nat, NEW f, NEW g, NEW n \in Nat, NEW sbuf,
         SpotOK(input, p, f, g), f.state \in InHead, IsSeq(f.sbuf),
         Len(f.sbuf) + n <= HeadLength, p + n <= Len(Wire(input)),
         sbuf = f.sbuf \o SubSeq(Wire(input), p + 1, p + n)
  PROVE  \E k \in 0..Len(input.frames) :
           /\ Ahead(input, k, p + n, sbuf)
           /\ IsSeq(sbuf) /\ Len(sbuf) = Len(f.sbuf) + n /\ Len(f.sbuf) \in Nat
           /\ EndAt(input.frames, k) \in Nat /\ EndAt(input.frames, k) <= p
           /\ p + n <= EndAt(input.frames, k) + HeadLength
<1> DEFINE fr == input.frames
           y == SubSeq(Wire(input), p + 1, p + n)
<1>1. PICK k \in 0..Len(fr) : Ahead(input, k, p, f.sbuf) BY DEF SpotOK
<1>2. FramesOK(fr) /\ Len(fr) \in Nat BY InputOK
<1>3. EndAt(fr, k) \in Nat BY <1>2, EndNat
<1>4. p = EndAt(fr, k) + Len(f.sbuf) /\ \A i \in 1..Len(f.sbuf) : f.sbuf[i] = Wire(input)[EndAt(fr, k) + i]
  BY <1>1 DEF Ahead
<1>5. IsSeq(y) /\ Len(y) = n /\ \A i \in 1..n : y[i] = Wire(input)[p + i] BY PieceOf
<1> DEFINE x == f.sbuf
<1> HIDE DEF x, y
<1>6. IsSeq(x) /\ IsSeq(y) BY <1>5 DEF x
<1>7. IsSeq(x \o y) /\ Len(x) \in Nat /\ Len(x \o y) = Len(x) + Len(y) BY <1>6, Joined
<1>8. \A i \in 1..Len(x) : (x \o y)[i] = x[i] BY <1>6, Joined
<1>9. \A i \in 1..Len(y) : (x \o y)[Len(x) + i] = y[i] BY <1>6, Joined
<1>10. sbuf = x \o y BY DEF x, y
<1>11. ASSUME NEW i \in 1..Len(x) + n PROVE sbuf[i] = Wire(input)[EndAt(fr, k) + i]
  <2>1. CASE i <= Len(x)
    <3>1. i \in 1..Len(x) BY <1>7, <2>1
    <3> QED BY <1>4, <1>8, <1>10, <3>1 DEF x
  <2>2. CASE i > Len(x)
    <3> DEFINE j == i - Len(x)
    <3>1. j \in 1..n /\ i = Len(x) + j BY <1>7, <2>2
    <3>2. (x \o y)[Len(x) + j] = y[j] BY <1>5, <1>9, <3>1
    <3>3. y[j] = Wire(input)[p + j] BY <1>5, <3>1
    <3>4. p + j = EndAt(fr, k) + i
      <4> DEFINE a == EndAt(fr, k)
                 m == Len(x)
      <4>1. a \in Nat /\ m \in Nat /\ p = a + m BY <1>3, <1>4, <1>7 DEF x
      <4>2. j \in Nat /\ i = m + j BY <3>1
      <4> SUFFICES p + j = a + i OBVIOUS
      <4> HIDE DEF a, m, j
      <4> QED BY <4>1, <4>2
    <3> HIDE DEF j
    <3> QED BY <1>10, <3>1, <3>2, <3>3, <3>4
  <2>3. i \in Nat /\ Len(x) \in Nat BY <1>7
  <2>4. i <= Len(x) \/ i > Len(x) BY <2>3
  <2> QED BY <2>1, <2>2, <2>4
<1>12. Len(sbuf) = Len(x) + n BY <1>5, <1>7, <1>10
<1>13. p + n = EndAt(fr, k) + Len(sbuf)
  <2> DEFINE a == EndAt(fr, k)
             m == Len(x)
             l == Len(sbuf)
  <2>1. a \in Nat /\ m \in Nat /\ p = a + m /\ l = m + n BY <1>3, <1>4, <1>7, <1>12 DEF x
  <2> SUFFICES p + n = a + l OBVIOUS
  <2> HIDE DEF a, m, l
  <2> QED BY <2>1
<1>14. Ahead(input, k, p + n, sbuf) BY <1>11, <1>12, <1>13 DEF Ahead
<1>15. EndAt(fr, k) <= p /\ p + n <= EndAt(fr, k) + HeadLength
  <2>1. Len(x) \in Nat /\ Len(x) + n <= HeadLength /\ p = EndAt(fr, k) + Len(x) BY <1>4, <1>7 DEF x
  <2>2. \A e, l \in Nat : p = e + l /\ l + n <= HeadLength => e <= p /\ p + n <= e + HeadLength BY Lengths
  <2> QED BY <1>3, <2>1, <2>2
<1> QED BY <1>3, <1>7, <1>10, <1>12, <1>14, <1>15 DEF x

\* A head is complete: it is the one of a frame of the connection.
LEMMA HeadComplete ==
  ASSUME NEW input \in Inputs, NEW p \in Nat, NEW k \in 0..Len(input.frames), NEW sbuf,
         Ahead(input, k, p, sbuf), Len(sbuf) = HeadLength, p <= Len(Wire(input))
  PROVE  /\ k + 1 \in 1..Len(input.frames) /\ p = EndAt(input.frames, k) + HeadLength
         /\ UnpackHead(sbuf) = Header(input.frames[k + 1])
         /\ HeadOK(UnpackHead(sbuf))
         /\ p + UnpackHead(sbuf).length = EndAt(input.frames, k + 1)
         /\ UnpackHead(sbuf).type \in {"HEADERS", "PUSH_PROMISE", "DATA"} /\ "PADDED" \in UnpackHead(sbuf).flags
              /\ UnpackHead(sbuf).length >= 1 => Wire(input)[p + 1].value \in Nat
<1> DEFINE fr == input.frames
           f == fr[k + 1]
           hd == UnpackHead(sbuf)
<1>1. FramesOK(fr) /\ Len(fr) \in Nat BY InputOK
<1>2. EndAt(fr, k) \in Nat /\ EndAt(fr, Len(fr)) \in Nat
  <2>1. Len(fr) \in 0..Len(fr) BY <1>1
  <2> QED BY <1>1, <2>1, EndNat
<1>3. p = EndAt(fr, k) + HeadLength BY DEF Ahead
<1>4. k \in 0..Len(fr) - 1
  <2>1. Len(Wire(input)) = EndAt(fr, Len(fr)) BY WireIs
  <2>2. k # Len(fr) BY <1>2, <1>3, <2>1, Lengths
  <2> QED BY <1>1, <2>2
<1>5. k + 1 \in 1..Len(fr) /\ k + 1 - 1 = k BY <1>1, <1>4
<1>6. \A i \in 1..HeadLength : sbuf[i] = Byte("head", <<i, Header(f)>>)
  <2> TAKE i \in 1..HeadLength
  <2>1. sbuf[i] = Wire(input)[EndAt(fr, k) + i] BY DEF Ahead
  <2> QED BY <1>4, <2>1, HeadByte
<1>7. 1 \in 1..HeadLength BY Lengths
<1>8. hd = Header(f)
  <2>1. sbuf[1].value[2] = Header(f) BY <1>6, <1>7 DEF Byte
  <2>2. \A i \in 1..HeadLength : sbuf[i].kind = "head" /\ sbuf[i].value = <<i, sbuf[1].value[2]>>
    BY <1>6, <2>1 DEF Byte
  <2> QED BY <2>1, <2>2 DEF UnpackHead
<1>9. /\ f.type \in STRING /\ f.flags \subseteq STRING /\ f.stream \in Nat /\ IsSeq(f.payload)
      /\ f.type = "HEADERS" => f.stream \in StreamIds \cup {0}
  BY <1>1, <1>5 DEF FramesOK
<1>10. HeadOK(Header(f)) /\ Header(f).length = Len(f.payload) /\ Header(f).type = f.type
       /\ Header(f).flags = f.flags
  BY <1>9 DEF HeadOK, Header, IsSeq
<1>11. EndAt(fr, k + 1) = EndAt(fr, k + 1 - 1) + HeadLength + Len(f.payload) /\ Len(f.payload) \in Nat
  <2> DEFINE At(j) == EndAt(fr, j) = EndAt(fr, j - 1) + HeadLength + Len(fr[j].payload)
                      /\ Len(fr[j].payload) \in Nat
  <2>1. \A j \in 1..Len(fr) : At(j) BY <1>1, EndNext
  <2> HIDE DEF At
  <2>2. At(k + 1) BY <1>5, <2>1
  <2> QED BY <2>2 DEF At
<1>12. p + hd.length = EndAt(fr, k + 1) BY <1>2, <1>3, <1>5, <1>8, <1>10, <1>11, Lengths
<1>13. ASSUME hd.type \in {"HEADERS", "PUSH_PROMISE", "DATA"}, "PADDED" \in hd.flags, hd.length >= 1
       PROVE  Wire(input)[p + 1].value \in Nat
  <2>1. Wire(input)[EndAt(fr, k) + HeadLength + 1].value \in Nat BY <1>4, <1>8, <1>10, <1>13, PadByte
  <2> QED BY <1>3, <2>1
<1> QED BY <1>3, <1>5, <1>8, <1>10, <1>12, <1>13

\* The reader begins with the payload of the frame whose head it has read.
LEMMA SpotBegins ==
  ASSUME NEW input \in Inputs, NEW p \in Nat, NEW k, NEW h, NEW hd, NEW g,
         k + 1 \in 1..Len(input.frames), k \in Nat, p = EndAt(input.frames, k) + HeadLength,
         hd = Header(input.frames[k + 1]), p + hd.length = EndAt(input.frames, k + 1),
         h.state \in InPayload, h.payloadleft = hd.length,
         h.state \in InData => hd.type = "DATA",
         h.state \notin InData => hd.type # "DATA" \/ g # "none",
         PadNext(h) => Wire(input)[p + 1].value \in Nat
  PROVE  SpotOK(input, p, h, g)
<1>1. k + 1 - 1 = k OBVIOUS
<1>2. hd.type = input.frames[k + 1].type BY DEF Header
<1>3. FramesOK(input.frames) BY InputOK
<1>4. EndAt(input.frames, k) \in Nat
  <2>1. EndAt(input.frames, k + 1 - 1) \in Nat BY <1>3, EndNext
  <2> QED BY <1>1, <2>1
<1>5. Within(input, k + 1, p, h, g) BY <1>1, <1>2, <1>4, Lengths DEF Within
<1>6. h.state \notin InHead /\ h.state # "READ_CLIENT_MAGIC" /\ h.state # "IGN_ALL" BY DEF InPayload
<1> QED BY <1>5, <1>6 DEF SpotOK

-----------------------------------------------------------------------------
(* The invariant: the session, and what its handlers do to it.              *)

Told1 == {"begin", "header", "data", "HEADERS", "DATA"}

\* A reset is the last the application hears of a stream, in these events
Final(events) ==
  \A i, j \in DOMAIN events :
    i < j /\ events[i][1] = "reset" => ~(events[j][1] \in Told1 /\ events[j][2] = events[i][2])

\* The stream is being reset, or is not there any more
Gone(t, id) == id \in t.closing \/ (id \notin t.live /\ id \in Nat /\ id <= t.newest)

Shape(t) ==
  /\ DOMAIN t = {"newest", "live", "shut", "closing", "asked", "unacked", "goaway", "peerGone",
                 "half", "bad", "inflated", "events"}
  /\ t.newest \in Nat /\ t.closing \subseteq t.live /\ t.live \subseteq StreamIds
  /\ \A id \in t.live : id <= t.newest
  /\ t.goaway \in {"none", "queued", "sent"}
SessionOK(t) ==
  /\ Shape(t) /\ IsSeq(t.events) /\ Final(t.events)
  /\ \A i \in DOMAIN t.events : t.events[i][1] = "reset" => Gone(t, t.events[i][2])

\* Handlers end a session, they never send the GOAWAY
Onward(t, u) == u.goaway = t.goaway \/ (t.goaway = "none" /\ u.goaway = "queued")

\* The streams are the same
Alike(t, u) == u.newest = t.newest /\ u.live = t.live /\ u.closing = t.closing

\* The identifiers of streams are positive numbers.
LEMMA StreamIdsNat == StreamIds \subseteq Nat \ {0}
BY LengthsAssumption

\* A handler that tells nothing.
LEMMA NothingTold ==
  ASSUME NEW t, SessionOK(t), NEW u, Shape(u), u.events = t.events,
         \A id : Gone(t, id) => Gone(u, id)
  PROVE  SessionOK(u)
BY DEF SessionOK

\* A handler that tells one thing: a reset of a stream that is then gone, or nothing of one that was.
LEMMA OneTold ==
  ASSUME NEW t, SessionOK(t), NEW u, Shape(u), NEW e, u.events = Append(t.events, e),
         \A id : Gone(t, id) => Gone(u, id),
         e[1] = "reset" => Gone(u, e[2]), e[1] \in Told1 => ~Gone(t, e[2])
  PROVE  SessionOK(u)
<1> DEFINE ev == t.events
           n == Len(ev)
           w == Append(ev, e)
<1>1. IsSeq(ev) BY DEF SessionOK
<1> HIDE DEF ev
<1>2. IsSeq(w) /\ n \in Nat BY <1>1, Appended
<1>3. DOMAIN ev = 1..n /\ DOMAIN w = 1..n + 1 BY <1>1, Appended
<1>4. (\A i \in 1..n : w[i] = ev[i]) /\ w[n + 1] = e BY <1>1, Appended
<1>5. Final(ev) /\ \A i \in 1..n : ev[i][1] = "reset" => Gone(t, ev[i][2]) BY <1>3 DEF SessionOK, ev
<1> HIDE DEF w, n
<1>6. \A i \in 1..n + 1 : i \in 1..n \/ i = n + 1 BY <1>2
<1>7. ASSUME NEW i \in 1..n + 1, w[i][1] = "reset" PROVE Gone(u, w[i][2])
  <2>1. CASE i \in 1..n BY <1>4, <1>5, <1>7, <2>1
  <2>2. CASE i = n + 1 BY <1>4, <1>7, <2>2
  <2> QED BY <1>6, <2>1, <2>2
<1>8. ASSUME NEW i \in 1..n + 1, NEW j \in 1..n + 1, i < j, w[i][1] = "reset"
      PROVE  ~(w[j][1] \in Told1 /\ w[j][2] = w[i][2])
  <2>1. i \in 1..n BY <1>2, <1>8
  <2>2. ev[i][1] = "reset" /\ w[i] = ev[i] BY <1>4, <1>8, <2>1
  <2>3. CASE j \in 1..n
    <3>1. w[j] = ev[j] BY <1>4, <2>3
    <3>2. ~(ev[j][1] \in Told1 /\ ev[j][2] = ev[i][2]) BY <1>3, <1>5, <1>8, <2>1, <2>2, <2>3 DEF Final
    <3> QED BY <2>2, <3>1, <3>2
  <2>4. CASE j = n + 1
    <3>1. Gone(t, ev[i][2]) BY <1>5, <2>1, <2>2
    <3> QED BY <1>4, <2>2, <2>4, <3>1
  <2> QED BY <1>6, <2>3, <2>4
<1>9. u.events = w BY DEF w, ev
<1>10. Final(w) BY <1>3, <1>8 DEF Final
<1> QED BY <1>2, <1>3, <1>7, <1>9, <1>10 DEF SessionOK

\* Telling something that is neither a reset nor of a message.
LEMMA EmitOther ==
  ASSUME NEW t, SessionOK(t), NEW e, e[1] # "reset", e[1] \notin Told1
  PROVE  SessionOK(Emit(t, e)) /\ Alike(t, Emit(t, e)) /\ Emit(t, e).goaway = t.goaway
<1>1. /\ DOMAIN Emit(t, e) = DOMAIN t /\ Alike(t, Emit(t, e)) /\ Emit(t, e).goaway = t.goaway
      /\ Emit(t, e).events = Append(t.events, e)
  BY DEF Emit, Alike, SessionOK, Shape
<1>2. Shape(Emit(t, e)) BY <1>1 DEF Shape, SessionOK, Alike
<1>3. \A id : Gone(t, id) => Gone(Emit(t, e), id) BY <1>1 DEF Gone, Alike
<1> QED BY <1>1, <1>2, <1>3, OneTold

\* Telling something of a message on a stream that is there and is not being reset.
LEMMA EmitHeard ==
  ASSUME NEW t, SessionOK(t), NEW kind \in Told1, NEW id \in t.live \ t.closing
  PROVE  /\ SessionOK(Emit(t, <<kind, id>>)) /\ Alike(t, Emit(t, <<kind, id>>))
         /\ Emit(t, <<kind, id>>).goaway = t.goaway
<1> DEFINE e == <<kind, id>>
<1>1. /\ DOMAIN Emit(t, e) = DOMAIN t /\ Alike(t, Emit(t, e)) /\ Emit(t, e).goaway = t.goaway
      /\ Emit(t, e).events = Append(t.events, e)
  BY DEF Emit, Alike, SessionOK, Shape
<1>2. Shape(Emit(t, e)) BY <1>1 DEF Shape, SessionOK, Alike
<1>3. \A x : Gone(t, x) => Gone(Emit(t, e), x) BY <1>1 DEF Gone, Alike
<1>4. e[1] # "reset" /\ e[2] = id /\ ~Gone(t, id) BY DEF Gone, Told1
<1> QED BY <1>1, <1>2, <1>3, <1>4, OneTold

\* nghttp2_session_terminate_session queues a GOAWAY, unless one was before.
LEMMA TerminateOK ==
  ASSUME NEW t, SessionOK(t)
  PROVE  /\ SessionOK(Terminate(t)) /\ Alike(t, Terminate(t)) /\ Onward(t, Terminate(t))
         /\ Terminate(t).goaway # "none"
<1>1. CASE t.goaway # "none" BY <1>1 DEF Terminate, Alike, Onward
<1>2. CASE t.goaway = "none"
  <2> DEFINE r == [t EXCEPT !.goaway = "queued"]
  <2>1. /\ DOMAIN r = DOMAIN t /\ Alike(t, r) /\ r.goaway = "queued" /\ r.events = t.events
    BY DEF Alike, SessionOK, Shape
  <2>2. Shape(r) BY <2>1 DEF Shape, SessionOK, Alike
  <2>3. \A id : Gone(t, id) => Gone(r, id) BY <2>1 DEF Gone, Alike
  <2>4. SessionOK(r) BY <2>1, <2>2, <2>3, NothingTold
  <2>5. Terminate(t) = Emit(r, <<"terminate">>) BY <1>2 DEF Terminate
  <2> HIDE DEF r
  <2>6. <<"terminate">>[1] = "terminate" /\ "terminate" \notin Told1 /\ "terminate" # "reset" BY DEF Told1
  <2>7. SessionOK(Emit(r, <<"terminate">>)) /\ Alike(r, Emit(r, <<"terminate">>))
        /\ Emit(r, <<"terminate">>).goaway = r.goaway
    BY <2>4, <2>6, EmitOther
  <2> QED BY <1>2, <2>1, <2>5, <2>7 DEF Alike, Onward
<1> QED BY <1>1, <1>2

\* nghttp2_session_add_rst_stream: a stream that is there is closing from then on.
LEMMA AddRstOK ==
  ASSUME NEW t, SessionOK(t), NEW id \in t.live
  PROVE  /\ SessionOK(AddRst(t, id)) /\ AddRst(t, id).goaway = t.goaway
         /\ AddRst(t, id).newest = t.newest /\ AddRst(t, id).live = t.live
         /\ AddRst(t, id).closing = t.closing \cup {id}
<1>1. CASE id \in t.closing BY <1>1 DEF AddRst
<1>2. CASE id \notin t.closing
  <2> DEFINE u == AddRst(t, id)
             e == <<"reset", id>>
  <2>1. /\ DOMAIN u = DOMAIN t /\ u.goaway = t.goaway /\ u.newest = t.newest /\ u.live = t.live
        /\ u.closing = t.closing \cup {id} /\ u.events = Append(t.events, e)
    BY <1>2 DEF AddRst, Emit, SessionOK, Shape
  <2>2. Shape(u) BY <2>1 DEF Shape, SessionOK
  <2>3. \A x : Gone(t, x) => Gone(u, x) BY <2>1 DEF Gone
  <2>4. Gone(u, id) BY <2>1 DEF Gone
  <2>5. e[1] = "reset" /\ e[2] = id /\ "reset" \notin Told1 BY DEF Told1
  <2> HIDE DEF u, e
  <2>6. SessionOK(u) BY <2>1, <2>2, <2>3, <2>4, <2>5, OneTold
  <2> QED BY <2>1, <2>6 DEF u
<1> QED BY <1>1, <1>2

\* HEADERS: a block that the application gets to see is one of a stream that is not being reset.
LEMMA ProcessHeadersOK ==
  ASSUME NEW t, SessionOK(t), NEW hd, hd.type \in {"HEADERS", "PUSH_PROMISE"},
         hd.type = "HEADERS" => hd.stream \in StreamIds \cup {0}
  PROVE  LET r == ProcessHeaders(t, hd)
         IN  /\ SessionOK(r.s) /\ Onward(t, r.s) /\ r.take \in BOOLEAN
             /\ r.take => hd.stream \in r.s.live \ r.s.closing
<1> DEFINE id == hd.stream
           r == ProcessHeaders(t, hd)
           misplaced == hd.type = "PUSH_PROMISE" \/ id = 0
           seen == [t EXCEPT !.newest = id]
           new == [seen EXCEPT !.live = @ \cup {id}]
<1> SUFFICES /\ SessionOK(r.s) /\ Onward(t, r.s) /\ r.take \in BOOLEAN
             /\ r.take => id \in r.s.live \ r.s.closing
  OBVIOUS
<1>3. CASE misplaced
  <2>1. r = [s |-> Terminate(t), take |-> FALSE] BY <1>3 DEF ProcessHeaders
  <2> QED BY <2>1, TerminateOK
<1>4. ~misplaced => id \in StreamIds OBVIOUS
<1>0. /\ t.newest \in Nat /\ StreamIds \subseteq Nat
      /\ ~misplaced => id \in Nat
  BY <1>4, StreamIdsNat DEF SessionOK, Shape
<1>1. CASE ~misplaced /\ (id \in t.live \/ id <= t.newest)
  <2>1. CASE id \in t.shut
    <3>1. r = [s |-> Terminate(t), take |-> FALSE] BY <1>1, <2>1 DEF ProcessHeaders
    <3> QED BY <3>1, TerminateOK
  <2>2. CASE id \notin t.shut /\ (id \notin t.live \/ id \in t.closing)
    <3>1. r = [s |-> t, take |-> FALSE] BY <1>1, <2>2 DEF ProcessHeaders
    <3> QED BY <3>1 DEF Onward
  <2>3. CASE id \notin t.shut /\ id \in t.live \ t.closing
    <3>1. r = [s |-> Emit(t, <<"begin", id>>), take |-> TRUE] BY <1>1, <2>3 DEF ProcessHeaders
    <3>2. "begin" \in Told1 BY DEF Told1
    <3> QED BY <2>3, <3>1, <3>2, EmitHeard DEF Alike, Onward
  <2> QED BY <2>1, <2>2, <2>3
<1>2. CASE ~misplaced /\ ~(id \in t.live \/ id <= t.newest)
  <2>0. id \in StreamIds /\ id \in Nat BY <1>0, <1>2, <1>4
  <2>1. id > t.newest /\ id \notin t.live BY <1>0, <1>2
  <2>2. /\ DOMAIN seen = DOMAIN t /\ seen.newest = id /\ seen.live = t.live /\ seen.closing = t.closing
        /\ seen.goaway = t.goaway /\ seen.events = t.events
    BY DEF SessionOK, Shape
  <2>3. CASE IsClosing(t)
    <3>1. r = [s |-> seen, take |-> FALSE] BY <1>2, <2>3 DEF ProcessHeaders
    <3> HIDE DEF seen
    <3>2. \A x \in t.live : x <= id
      <4> TAKE x \in t.live
      <4>1. x \in Nat /\ x <= t.newest BY <1>0 DEF SessionOK, Shape
      <4> QED BY <1>0, <2>0, <2>1, <4>1
    <3>3. Shape(seen) BY <1>0, <2>0, <2>2, <3>2 DEF Shape, SessionOK
    <3>4. \A x : Gone(t, x) => Gone(seen, x) BY <1>0, <2>0, <2>1, <2>2 DEF Gone
    <3>5. SessionOK(seen) BY <2>2, <3>3, <3>4, NothingTold
    <3> QED BY <2>2, <3>1, <3>5 DEF Onward
  <2>4. CASE ~IsClosing(t)
    <3> DEFINE e == <<"begin", id>>
               u == Emit(new, e)
    <3>1. r = [s |-> u, take |-> TRUE] BY <1>2, <2>4 DEF ProcessHeaders
    <3>2. /\ DOMAIN u = DOMAIN t /\ u.newest = id /\ u.live = t.live \cup {id} /\ u.closing = t.closing
          /\ u.goaway = t.goaway /\ u.events = Append(t.events, e)
      BY DEF SessionOK, Shape, Emit
    <3> HIDE DEF u
    <3>3. \A x \in t.live : x <= id
      <4> TAKE x \in t.live
      <4>1. x \in Nat /\ x <= t.newest BY <1>0 DEF SessionOK, Shape
      <4> QED BY <1>0, <2>0, <2>1, <4>1
    <3>4. Shape(u) BY <1>0, <2>0, <3>2, <3>3 DEF Shape, SessionOK
    <3>5. ~Gone(t, id) /\ id \notin t.closing BY <1>0, <2>0, <2>1 DEF Gone, SessionOK, Shape
    <3>6. \A x : Gone(t, x) => Gone(u, x) BY <1>0, <2>0, <2>1, <3>2, <3>5 DEF Gone
    <3>7. e[1] # "reset" /\ e[2] = id OBVIOUS
    <3> HIDE DEF e
    <3>8. SessionOK(u) BY <3>2, <3>4, <3>5, <3>6, <3>7, OneTold
    <3> QED BY <3>1, <3>2, <3>5, <3>8 DEF Onward
  <2> QED BY <2>3, <2>4
<1> QED BY <1>1, <1>2, <1>3

\* DATA is taken for a stream that is there and is not being reset.
LEMMA FailFastOK ==
  ASSUME NEW t, SessionOK(t), NEW id
  PROVE  LET r == FailFast(t, id)
         IN  /\ SessionOK(r.s) /\ Onward(t, r.s) /\ r.take \in BOOLEAN
             /\ r.take => r.s = t /\ id \in t.live \ t.closing
<1>1. CASE id = 0 \/ id > t.newest \/ id \in t.shut
  <2>1. FailFast(t, id) = [s |-> Terminate(t), take |-> FALSE] BY <1>1 DEF FailFast
  <2> QED BY <2>1, TerminateOK
<1>2. CASE ~(id = 0 \/ id > t.newest \/ id \in t.shut)
  <2>1. CASE id \in t.live \ t.closing
    <3>1. (id \in t.live \ t.closing) = TRUE BY <2>1
    <3>2. FailFast(t, id) = [s |-> t, take |-> TRUE] BY <1>2, <3>1 DEF FailFast
    <3> QED BY <2>1, <3>2 DEF Onward
  <2>2. CASE id \notin t.live \ t.closing
    <3>1. (id \in t.live \ t.closing) = FALSE BY <2>2
    <3>2. FailFast(t, id) = [s |-> t, take |-> FALSE] BY <1>2, <3>1 DEF FailFast
    <3> QED BY <3>2 DEF Onward
  <2> QED BY <2>1, <2>2
<1> QED BY <1>1, <1>2

\* The inflater in the middle of a piece of a block that belongs to session t.
AccOK(t, id, take, acc) ==
  /\ DOMAIN acc = {"s", "read", "result"} /\ SessionOK(acc.s) /\ acc.read \in Nat
  /\ acc.result \in {"ok", "broken", "refused"}
  /\ acc.s.goaway = t.goaway /\ acc.s.live = t.live /\ acc.s.newest = t.newest
  /\ acc.result # "refused" => acc.s.closing = t.closing
  /\ acc.result = "refused" => take /\ id \in acc.s.closing

\* One byte of a block: the application is told of a field only while the block is taken.
LEMMA InflateByteOK ==
  ASSUME NEW t, NEW id, NEW take \in BOOLEAN, NEW acc, NEW byte,
         AccOK(t, id, take, acc), take => id \in t.live \ t.closing
  PROVE  /\ AccOK(t, id, take, InflateByte(acc, byte, id, take))
         /\ InflateByte(acc, byte, id, take).read <= acc.read + 1
<1> DEFINE r == InflateByte(acc, byte, id, take)
           a == acc.s
           fed == [a EXCEPT !.inflated = Append(@, byte), !.half = (byte.value = "first")]
<1> SUFFICES AccOK(t, id, take, r) /\ r.read <= acc.read + 1 OBVIOUS
<1>0. SessionOK(a) /\ acc.read \in Nat BY DEF AccOK
<1>1. CASE acc.result # "ok" BY <1>0, <1>1 DEF InflateByte
<1>2. CASE acc.result = "ok"
  <2>1. CASE a.bad \/ byte.value = "undecodable"
    <3>1. r = [acc EXCEPT !.result = "broken"] BY <1>2, <2>1 DEF InflateByte
    <3>2. DOMAIN r = DOMAIN acc /\ r.s = acc.s /\ r.read = acc.read /\ r.result = "broken"
      BY <3>1 DEF AccOK
    <3> HIDE DEF r
    <3> QED BY <1>0, <1>2, <3>2 DEF AccOK
  <2>2. CASE ~(a.bad \/ byte.value = "undecodable")
    <3>1. /\ DOMAIN fed = DOMAIN a /\ Alike(a, fed) /\ fed.goaway = a.goaway /\ fed.events = a.events
          /\ fed.asked = a.asked
      BY <1>0 DEF Alike, SessionOK, Shape
    <3>2. SessionOK(fed)
      <4> HIDE DEF fed
      <4>1. Shape(fed) BY <1>0, <3>1 DEF Shape, SessionOK, Alike
      <4>2. \A x : Gone(a, x) => Gone(fed, x) BY <3>1 DEF Gone, Alike
      <4> QED BY <1>0, <3>1, <4>1, <4>2, NothingTold
    <3>3. CASE byte.value = "first" \/ ~take
      <4>1. r = [s |-> fed, read |-> acc.read + 1, result |-> "ok"] BY <1>2, <2>2, <3>3 DEF InflateByte
      <4> HIDE DEF fed, r
      <4> QED BY <1>0, <1>2, <3>1, <3>2, <4>1 DEF AccOK, Alike
    <3>4. CASE ~(byte.value = "first" \/ ~take) /\ byte.value = "invalid"
      <4>1. r = [s |-> AddRst(fed, id), read |-> acc.read + 1, result |-> "refused"]
        BY <1>2, <2>2, <3>4 DEF InflateByte
      <4> HIDE DEF fed, r
      <4>2. take /\ id \in fed.live BY <1>2, <3>1, <3>4 DEF AccOK, Alike
      <4>3. /\ SessionOK(AddRst(fed, id)) /\ AddRst(fed, id).goaway = fed.goaway
            /\ AddRst(fed, id).newest = fed.newest /\ AddRst(fed, id).live = fed.live
            /\ AddRst(fed, id).closing = fed.closing \cup {id}
        BY <3>2, <4>2, AddRstOK
      <4>4. r.s = AddRst(fed, id) /\ r.read = acc.read + 1 /\ r.result = "refused" BY <4>1
      <4>5. DOMAIN r = {"s", "read", "result"} BY <4>1
      <4>6. r.s.goaway = t.goaway /\ r.s.live = t.live /\ r.s.newest = t.newest
        BY <3>1, <4>3, <4>4 DEF AccOK, Alike
      <4>7. SessionOK(r.s) /\ id \in r.s.closing BY <4>3, <4>4
      <4> HIDE DEF a
      <4> QED BY <1>0, <4>2, <4>4, <4>5, <4>6, <4>7 DEF AccOK
    <3>5. CASE ~(byte.value = "first" \/ ~take) /\ byte.value # "invalid"
      <4> DEFINE g == [fed EXCEPT !.asked = @ \cup {id}]
      <4>1. r = [s |-> Emit(g, <<"header", id>>), read |-> acc.read + 1, result |-> "ok"]
        BY <1>2, <2>2, <3>5 DEF InflateByte
      <4>2. DOMAIN g = DOMAIN fed /\ Alike(fed, g) /\ g.goaway = fed.goaway /\ g.events = fed.events
        BY <3>1, <1>0 DEF Alike, SessionOK, Shape
      <4> HIDE DEF fed, r, g
      <4>3. Shape(g) BY <3>2, <4>2 DEF Shape, SessionOK, Alike
      <4>4. \A x : Gone(fed, x) => Gone(g, x) BY <4>2 DEF Gone, Alike
      <4>5. SessionOK(g) BY <3>2, <4>2, <4>3, <4>4, NothingTold
      <4>6. id \in g.live \ g.closing BY <1>2, <3>1, <3>5, <4>2 DEF AccOK, Alike
      <4>7. "header" \in Told1 BY DEF Told1
      <4>8. /\ SessionOK(Emit(g, <<"header", id>>)) /\ Alike(g, Emit(g, <<"header", id>>))
            /\ Emit(g, <<"header", id>>).goaway = g.goaway
        BY <4>5, <4>6, <4>7, EmitHeard
      <4>9. r.s = Emit(g, <<"header", id>>) /\ r.read = acc.read + 1 /\ r.result = "ok" BY <4>1
      <4>10. DOMAIN r = {"s", "read", "result"} BY <4>1
      <4>11. r.s.goaway = t.goaway /\ r.s.live = t.live /\ r.s.newest = t.newest /\ r.s.closing = t.closing
        BY <1>2, <3>1, <4>2, <4>8, <4>9 DEF AccOK, Alike
      <4>12. SessionOK(r.s) BY <4>8, <4>9
      <4> HIDE DEF a
      <4> QED BY <1>0, <4>9, <4>10, <4>11, <4>12 DEF AccOK
    <3> QED BY <3>3, <3>4, <3>5
  <2> QED BY <2>1, <2>2
<1> QED BY <1>1, <1>2

\* Every set of numbers up to n that is not empty has a largest one.
LEMMA MaxIn ==
  ASSUME NEW n \in Nat, NEW d \in SUBSET (1..n), d # {}
  PROVE  Max(d) \in d /\ \A y \in d : y <= Max(d)
<1> DEFINE Has(e) == \E x \in e : \A y \in e : x >= y
           T == {m \in Nat : \A e \in SUBSET (1..m) : e # {} => Has(e)}
<1>1. 0 \in T
  <2>1. \A e \in SUBSET (1..0) : e = {} OBVIOUS
  <2> QED BY <2>1
<1>2. \A m \in T : m + 1 \in T
  <2> SUFFICES ASSUME NEW m \in T, NEW e \in SUBSET (1..m + 1), e # {} PROVE Has(e) OBVIOUS
  <2>1. m \in Nat OBVIOUS
  <2>2. CASE m + 1 \in e
    <3>1. \A y \in e : m + 1 >= y BY <2>1
    <3> QED BY <2>2, <3>1
  <2>3. CASE m + 1 \notin e
    <3>1. e \in SUBSET (1..m) BY <2>1, <2>3
    <3> QED BY <3>1
  <2> QED BY <2>2, <2>3
<1>3. T = Nat
  <2>1. T \subseteq Nat OBVIOUS
  <2> HIDE DEF T
  <2> QED BY <1>1, <1>2, <2>1, NatSet
<1>4. Has(d) BY <1>3
<1>5. PICK x \in d : \A y \in d : x >= y BY <1>4
<1>6. Max(d) \in d /\ \A y \in d : Max(d) >= y BY <1>5 DEF Max
<1> QED BY <1>6

\* The recursion that FoldLeft goes by when a piece of a block is inflated.
FedStep(g, base, bytes, id, take, d) ==
  IF d = {} THEN base ELSE InflateByte(g[d \ {Max(d)}], bytes[Max(d)], id, take)
Fed(base, bytes, id, take, all) ==
  CHOOSE g : g = [d \in SUBSET all |-> FedStep(g, base, bytes, id, take, d)]

\* The fold of Inflate goes through the bytes one by one.
LEMMA FedIs ==
  ASSUME NEW base, NEW bytes, NEW id, NEW take
  PROVE  FoldLeft(LAMBDA acc, b : InflateByte(acc, b, id, take), base, bytes) =
           Fed(base, bytes, id, take, DOMAIN bytes)[DOMAIN bytes]
BY DEF FoldLeft, MapThenFoldSet, Fed, FedStep

\* It is well defined.
LEMMA FedExists ==
  ASSUME NEW base, NEW bytes, NEW id, NEW take, NEW n \in Nat
  PROVE  \A d \in SUBSET (1..n) :
           Fed(base, bytes, id, take, 1..n)[d] =
             FedStep(Fed(base, bytes, id, take, 1..n), base, bytes, id, take, d)
<1> DEFINE St(g, d) == FedStep(g, base, bytes, id, take, d)
           T == {m \in Nat : \E g : g = [d \in SUBSET (1..m) |-> St(g, d)]}
<1>1. 0 \in T
  <2> DEFINE z == [d \in SUBSET (1..0) |-> base]
  <2>1. \A d \in SUBSET (1..0) : d = {} OBVIOUS
  <2>2. z = [d \in SUBSET (1..0) |-> St(z, d)] BY <2>1 DEF FedStep
  <2> QED BY <2>2
<1>2. \A m \in T : m + 1 \in T
  <2> TAKE m \in T
  <2>1. m \in Nat /\ m + 1 \in Nat OBVIOUS
  <2>2. PICK g : g = [d \in SUBSET (1..m) |-> St(g, d)] OBVIOUS
  <2> DEFINE h == [d \in SUBSET (1..m + 1) |-> St(g, d)]
  <2> HIDE DEF T, St
  <2>3. \A d \in SUBSET (1..m) : d \in SUBSET (1..m + 1) /\ h[d] = g[d]
    <3> TAKE d \in SUBSET (1..m)
    <3>1. d \in SUBSET (1..m + 1) BY <2>1
    <3>2. h[d] = St(g, d) BY <3>1
    <3>3. g[d] = St(g, d) BY <2>2
    <3> QED BY <3>1, <3>2, <3>3
  <2>4. \A d \in SUBSET (1..m + 1) : St(g, d) = St(h, d)
    <3> TAKE d \in SUBSET (1..m + 1)
    <3>1. CASE d = {} BY <3>1 DEF St, FedStep
    <3>2. CASE d # {}
      <4>1. Max(d) \in d /\ \A y \in d : y <= Max(d) BY <2>1, <3>2, MaxIn
      <4>2. d \ {Max(d)} \in SUBSET (1..m)
        <5>1. ASSUME NEW y \in d, y # Max(d) PROVE y \in 1..m
          <6>1. y <= Max(d) /\ y \in 1..m + 1 /\ Max(d) \in 1..m + 1 BY <4>1
          <6> QED BY <2>1, <5>1, <6>1
        <5> QED BY <5>1
      <4>3. h[d \ {Max(d)}] = g[d \ {Max(d)}] BY <2>3, <4>2
      <4> HIDE DEF h
      <4> QED BY <3>2, <4>3 DEF St, FedStep
    <3> QED BY <3>1, <3>2
  <2>5. h = [d \in SUBSET (1..m + 1) |-> St(h, d)]
    <3>1. h = [d \in SUBSET (1..m + 1) |-> St(g, d)] OBVIOUS
    <3> HIDE DEF h
    <3> QED BY <2>4, <3>1
  <2> HIDE DEF h
  <2> QED BY <2>1, <2>5 DEF T
<1>3. T = Nat
  <2>1. T \subseteq Nat OBVIOUS
  <2> HIDE DEF T
  <2> QED BY <1>1, <1>2, <2>1, NatSet
<1>4. n \in T BY <1>3
<1> DEFINE F == Fed(base, bytes, id, take, 1..n)
<1>5. F = [d \in SUBSET (1..n) |-> St(F, d)] BY <1>4 DEF Fed
<1> HIDE DEF F, St
<1>6. \A d \in SUBSET (1..n) : F[d] = St(F, d) BY <1>5
<1> QED BY <1>6 DEF F, St

\* What the inflater has done after the first k bytes.
LEMMA FedUpTo ==
  ASSUME NEW base, NEW bytes, IsSeq(bytes), NEW id, NEW take
  PROVE  /\ Fed(base, bytes, id, take, DOMAIN bytes)[1..0] = base
         /\ \A k \in 1..Len(bytes) :
              Fed(base, bytes, id, take, DOMAIN bytes)[1..k] =
                InflateByte(Fed(base, bytes, id, take, DOMAIN bytes)[1..k - 1], bytes[k], id, take)
<1> DEFINE F == Fed(base, bytes, id, take, DOMAIN bytes)
           St(g, d) == FedStep(g, base, bytes, id, take, d)
           n == Len(bytes)
<1>1. DOMAIN bytes = 1..n /\ n \in Nat BY DEF IsSeq
<1>2. \A d \in SUBSET (1..n) : F[d] = St(F, d)
  <2>1. F = Fed(base, bytes, id, take, 1..n) BY <1>1
  <2> HIDE DEF F, n
  <2> QED BY <1>1, <2>1, FedExists
<1> HIDE DEF F, n
<1>3. F[1..0] = base
  <2>1. 1..0 \in SUBSET (1..n) /\ 1..0 = {} OBVIOUS
  <2> QED BY <1>2, <2>1 DEF FedStep
<1>4. ASSUME NEW k \in 1..n PROVE F[1..k] = InflateByte(F[1..k - 1], bytes[k], id, take)
  <2>0. k \in Nat /\ 1 <= k /\ k <= n BY <1>1
  <2>1. 1..k \in SUBSET (1..n) /\ 1..k # {} /\ k \in 1..k /\ k \in Nat
    <3>1. \A y \in 1..k : y \in 1..n BY <1>1, <2>0
    <3>2. k \in 1..k BY <2>0
    <3> QED BY <2>0, <3>1, <3>2
  <2>2. Max(1..k) \in 1..k /\ \A y \in 1..k : y <= Max(1..k) BY <1>1, <2>1, MaxIn
  <2>3. Max(1..k) = k BY <2>1, <2>2
  <2>4. (1..k) \ {k} = 1..k - 1 BY <2>1
  <2>5. F[1..k] = St(F, 1..k) BY <1>2, <2>1
  <2> QED BY <2>1, <2>3, <2>4, <2>5 DEF FedStep
<1> QED BY <1>3, <1>4 DEF F, n

\* What the inflater has done to session t with a piece of a block: no more of it is read than there
\* is, and a refused field leaves the stream for which it was taken to be reset.
Inflated(t, id, bytes, take, r) ==
  /\ SessionOK(r.s) /\ r.read \in Nat /\ r.read <= Len(bytes)
  /\ r.result \in {"ok", "broken", "refused"}
  /\ r.result = "ok" => Alike(t, r.s) /\ r.s.goaway = t.goaway
  /\ r.result = "refused" => take /\ id \in r.s.closing /\ r.s.live = t.live
  /\ Onward(t, r.s) /\ (r.result = "broken" => r.s.goaway # "none")

\* A piece of a header block: what it tells, it tells of a stream that is not closing.
LEMMA InflateOK ==
  ASSUME NEW t, SessionOK(t), NEW id, NEW bytes, IsSeq(bytes), NEW final, NEW take \in BOOLEAN,
         take => id \in t.live \ t.closing
  PROVE  Inflated(t, id, bytes, take, Inflate(t, id, bytes, final, take))
<1> DEFINE base == [s |-> t, read |-> 0, result |-> "ok"]
           F == Fed(base, bytes, id, take, DOMAIN bytes)
           T == {k \in Nat : k <= Len(bytes) => AccOK(t, id, take, F[1..k]) /\ F[1..k].read <= k}
           fed == F[1..Len(bytes)]
           r == Inflate(t, id, bytes, final, take)
<1>0. DOMAIN bytes = 1..Len(bytes) /\ Len(bytes) \in Nat BY DEF IsSeq
<1>1. AccOK(t, id, take, base) /\ base.read = 0 BY DEF AccOK
<1> HIDE DEF base
<1>2. F[1..0] = base BY FedUpTo
<1>3. \A k \in 1..Len(bytes) : F[1..k] = InflateByte(F[1..k - 1], bytes[k], id, take) BY FedUpTo
<1> HIDE DEF F
<1>4. 0 \in T BY <1>1, <1>2
<1>5. \A k \in T : k + 1 \in T
  <2> TAKE k \in T
  <2>1. k \in Nat OBVIOUS
  <2>2. SUFFICES ASSUME k + 1 <= Len(bytes)
                 PROVE AccOK(t, id, take, F[1..k + 1]) /\ F[1..k + 1].read <= k + 1
    BY <2>1
  <2>3. AccOK(t, id, take, F[1..k]) /\ F[1..k].read <= k BY <1>0, <2>1, <2>2
  <2>4. k + 1 \in 1..Len(bytes) /\ k + 1 - 1 = k BY <1>0, <2>1, <2>2
  <2>5. F[1..k + 1] = InflateByte(F[1..k], bytes[k + 1], id, take) BY <1>3, <2>4
  <2> DEFINE acc == F[1..k]
             new == InflateByte(acc, bytes[k + 1], id, take)
  <2>6. AccOK(t, id, take, acc) BY <2>3
  <2> HIDE DEF acc
  <2>7. AccOK(t, id, take, new) /\ new.read <= acc.read + 1 BY <2>6, InflateByteOK
  <2>8. acc.read \in Nat /\ new.read \in Nat BY <2>6, <2>7 DEF AccOK
  <2>9. acc.read <= k BY <2>3 DEF acc
  <2> HIDE DEF new
  <2>10. new.read <= k + 1 BY <2>1, <2>7, <2>8, <2>9
  <2> QED BY <2>5, <2>7, <2>10 DEF acc, new
<1>6. T = Nat
  <2>1. T \subseteq Nat OBVIOUS
  <2> HIDE DEF T
  <2> QED BY <1>4, <1>5, <2>1, NatSet
<1>7. Len(bytes) \in T BY <1>0, <1>6
<1>8. AccOK(t, id, take, fed) /\ fed.read <= Len(bytes) BY <1>0, <1>7
<1>9. FoldLeft(LAMBDA acc, b : InflateByte(acc, b, id, take), base, bytes) = fed BY <1>0, FedIs DEF F
<1> HIDE DEF fed
<1> DEFINE broken == fed.result = "broken" \/ (fed.result = "ok" /\ (t.bad \/ (final /\ fed.s.half)))
           bad == [fed.s EXCEPT !.bad = TRUE]
           x == IF take /\ id \in t.live THEN AddRst(bad, id) ELSE bad
<1>10. r = IF ~broken THEN fed ELSE [s |-> Terminate(x), read |-> fed.read, result |-> "broken"]
  BY <1>9 DEF Inflate, base
<1>11. fed.result # "refused" => (~(fed.result = "broken") => fed.result = "ok") BY <1>8 DEF AccOK
<1> SUFFICES /\ SessionOK(r.s) /\ r.read \in Nat /\ r.read <= Len(bytes)
             /\ r.result \in {"ok", "broken", "refused"}
             /\ r.result = "ok" => Alike(t, r.s) /\ r.s.goaway = t.goaway
             /\ r.result = "refused" => take /\ id \in r.s.closing /\ r.s.live = t.live
             /\ Onward(t, r.s) /\ (r.result = "broken" => r.s.goaway # "none")
  BY DEF Inflated
<1> HIDE DEF r
<1>12. CASE ~broken
  <2>1. r = fed BY <1>10, <1>12
  <2>2. fed.result # "broken" BY <1>12
  <2> HIDE DEF broken
  <2> QED BY <1>8, <2>1, <2>2 DEF AccOK, Alike, Onward
<1>13. CASE broken
  <2>1. r = [s |-> Terminate(x), read |-> fed.read, result |-> "broken"] BY <1>10, <1>13
  <2>2. fed.result # "refused" BY <1>13
  <2> HIDE DEF broken
  <2>3. SessionOK(fed.s) /\ fed.s.closing = t.closing /\ fed.s.live = t.live /\ fed.s.goaway = t.goaway
        /\ fed.read \in Nat
    BY <1>8, <2>2 DEF AccOK
  <2>4. /\ DOMAIN bad = DOMAIN fed.s /\ Alike(fed.s, bad) /\ bad.goaway = fed.s.goaway
        /\ bad.events = fed.s.events
    BY <2>3 DEF Alike, SessionOK, Shape
  <2> HIDE DEF bad
  <2>5. SessionOK(bad)
    <3>1. Shape(bad) BY <2>3, <2>4 DEF Shape, SessionOK, Alike
    <3>2. \A y : Gone(fed.s, y) => Gone(bad, y) BY <2>4 DEF Gone, Alike
    <3> QED BY <2>3, <2>4, <3>1, <3>2, NothingTold
  <2>6. SessionOK(x) /\ x.goaway = t.goaway
    <3>1. CASE take /\ id \in t.live
      <4>1. id \in bad.live BY <2>3, <2>4, <3>1 DEF Alike
      <4>2. SessionOK(AddRst(bad, id)) /\ AddRst(bad, id).goaway = bad.goaway BY <2>5, <4>1, AddRstOK
      <4>3. x = AddRst(bad, id) BY <3>1
      <4> HIDE DEF x
      <4> QED BY <2>3, <2>4, <4>2, <4>3
    <3>2. CASE ~(take /\ id \in t.live) BY <2>3, <2>4, <2>5, <3>2
    <3> QED BY <3>1, <3>2
  <2> HIDE DEF x
  <2>7. SessionOK(Terminate(x)) /\ Onward(x, Terminate(x)) /\ Terminate(x).goaway # "none"
    BY <2>6, TerminateOK
  <2>8. r.s = Terminate(x) /\ r.read = fed.read /\ r.result = "broken" BY <2>1
  <2> QED BY <1>8, <2>3, <2>6, <2>7, <2>8 DEF Onward
<1> QED BY <1>12, <1>13

\* To shut a stream down for reading tells nothing.
LEMMA ShutOK ==
  ASSUME NEW t, SessionOK(t), NEW x
  PROVE  /\ SessionOK([t EXCEPT !.shut = x]) /\ Alike(t, [t EXCEPT !.shut = x])
         /\ [t EXCEPT !.shut = x].goaway = t.goaway
<1> DEFINE u == [t EXCEPT !.shut = x]
<1>1. DOMAIN u = DOMAIN t /\ Alike(t, u) /\ u.goaway = t.goaway /\ u.events = t.events
  BY DEF Alike, SessionOK, Shape
<1> SUFFICES SessionOK(u) /\ Alike(t, u) /\ u.goaway = t.goaway OBVIOUS
<1> HIDE DEF u
<1>2. Shape(u) BY <1>1 DEF Shape, SessionOK, Alike
<1>3. \A id : Gone(t, id) => Gone(u, id) BY <1>1 DEF Gone, Alike
<1> QED BY <1>1, <1>2, <1>3, NothingTold

\* The end of a block.
LEMMA AfterBlockOK ==
  ASSUME NEW t, SessionOK(t), NEW hd, NEW fresh
  PROVE  /\ SessionOK(AfterBlock(t, hd, fresh)) /\ AfterBlock(t, hd, fresh).goaway = t.goaway
         /\ AfterBlock(t, hd, fresh).live = t.live
<1> DEFINE id == hd.stream
           ended == "END_STREAM" \in hd.flags
           valid == IF fresh THEN id \in t.asked ELSE ended
           told == IF valid THEN Emit(t, <<"HEADERS", id>>) ELSE AddRst(t, id)
           r == AfterBlock(t, hd, fresh)
<1>1. CASE id \notin t.live \/ id \in t.closing
  <2>1. r = t BY <1>1 DEF AfterBlock
  <2> QED BY <2>1
<1>2. CASE id \in t.live \ t.closing
  <2>1. r = IF ended THEN [told EXCEPT !.shut = @ \cup {id}] ELSE told BY <1>2 DEF AfterBlock
  <2>2. SessionOK(told) /\ told.goaway = t.goaway /\ told.live = t.live
    <3>1. CASE valid
      <4>1. told = Emit(t, <<"HEADERS", id>>) BY <3>1
      <4>2. "HEADERS" \in Told1 BY DEF Told1
      <4>3. /\ SessionOK(Emit(t, <<"HEADERS", id>>)) /\ Alike(t, Emit(t, <<"HEADERS", id>>))
            /\ Emit(t, <<"HEADERS", id>>).goaway = t.goaway
        BY <1>2, <4>2, EmitHeard
      <4> QED BY <4>1, <4>3 DEF Alike
    <3>2. CASE ~valid
      <4>1. told = AddRst(t, id) BY <3>2
      <4> QED BY <1>2, <4>1, AddRstOK
    <3> QED BY <3>1, <3>2
  <2> HIDE DEF told
  <2>3. /\ SessionOK([told EXCEPT !.shut = @ \cup {id}]) /\ Alike(told, [told EXCEPT !.shut = @ \cup {id}])
        /\ [told EXCEPT !.shut = @ \cup {id}].goaway = told.goaway
    BY <2>2, ShutOK
  <2> SUFFICES SessionOK(r) /\ r.goaway = t.goaway /\ r.live = t.live OBVIOUS
  <2> HIDE DEF r
  <2> QED BY <2>1, <2>2, <2>3 DEF Alike
<1> QED BY <1>1, <1>2

\* Content is handed over on a stream that is there and is not being reset, and resets it at most.
LEMMA TakeDataOK ==
  ASSUME NEW t, SessionOK(t), NEW id \in t.live \ t.closing, NEW bytes, IsSeq(bytes)
  PROVE  LET r == TakeData(t, id, bytes)
         IN  /\ SessionOK(r.s) /\ r.s.goaway = t.goaway /\ r.s.live = t.live /\ r.take \in BOOLEAN
             /\ r.take => Alike(t, r.s)
<1> DEFINE r == TakeData(t, id, bytes)
           n == Len(bytes)
           d == [i \in DOMAIN bytes |-> <<"data", id>>]
           u == [t EXCEPT !.events = @ \o d]
<1>1. CASE \E i \in DOMAIN bytes : bytes[i].value = "excess"
  <2>1. r = [s |-> AddRst(t, id), take |-> FALSE] BY <1>1 DEF TakeData
  <2> QED BY <2>1, AddRstOK
<1>2. CASE ~\E i \in DOMAIN bytes : bytes[i].value = "excess"
  <2>1. r = [s |-> u, take |-> TRUE] BY <1>2 DEF TakeData
  <2>2. n \in Nat /\ DOMAIN bytes = 1..n BY DEF IsSeq
  <2>3. d \in [1..n -> {<<"data", id>>}] BY <2>2
  <2>4. IsSeq(d) /\ Len(d) = n BY <2>2, <2>3, FunctionIsSeq
  <2>5. \A i \in 1..n : d[i] = <<"data", id>> BY <2>2
  <2>6. DOMAIN u = DOMAIN t /\ Alike(t, u) /\ u.goaway = t.goaway /\ u.events = t.events \o d
    BY DEF Alike, SessionOK, Shape
  <2> HIDE DEF d, u
  <2>7. SessionOK(u)
    <3> DEFINE ev == t.events
               m == Len(ev)
               w == ev \o d
    <3>1. IsSeq(ev) BY DEF SessionOK
    <3> HIDE DEF ev
    <3>2. IsSeq(w) /\ m \in Nat BY <2>4, <3>1, Joined
    <3> HIDE DEF n
    <3>3. DOMAIN w = 1..m + n
      <4>1. DOMAIN w = 1..m + Len(d) BY <2>4, <3>1, Joined
      <4> QED BY <2>4, <4>1
    <3>4. \A i \in 1..m : w[i] = ev[i] BY <2>4, <3>1, Joined
    <3>5. \A i \in 1..n : w[m + i] = d[i]
      <4>1. \A i \in 1..Len(d) : (ev \o d)[Len(ev) + i] = d[i] BY <2>4, <3>1, JoinedAfter, Zenon
      <4> QED BY <2>4, <4>1
    <3>6. DOMAIN ev = 1..m BY <3>1 DEF IsSeq
    <3>7. Final(ev) /\ \A i \in 1..m : ev[i][1] = "reset" => Gone(t, ev[i][2]) BY <3>6 DEF SessionOK, ev
    <3> HIDE DEF w, m
    <3>8. ASSUME NEW i \in m + 1..m + n PROVE w[i] = <<"data", id>>
      <4>1. i - m \in 1..n /\ m + (i - m) = i BY <2>2, <3>2
      <4> QED BY <2>5, <3>5, <4>1
    <3>9. \A i \in 1..m + n : i \in 1..m \/ i \in m + 1..m + n BY <2>2, <3>2
    <3>10. <<"data", id>>[1] = "data" /\ <<"data", id>>[2] = id /\ "data" # "reset" OBVIOUS
    <3>11. ~Gone(t, id) BY DEF Gone
    <3>12. \A x : Gone(t, x) <=> Gone(u, x) BY <2>6 DEF Gone, Alike
    <3>13. ASSUME NEW i \in 1..m + n, w[i][1] = "reset" PROVE i \in 1..m /\ Gone(t, w[i][2])
      <4>1. i \in 1..m BY <3>8, <3>9, <3>10, <3>13
      <4> QED BY <3>4, <3>7, <3>13, <4>1
    <3>14. ASSUME NEW i \in 1..m + n, NEW j \in 1..m + n, i < j, w[i][1] = "reset"
           PROVE  ~(w[j][1] \in Told1 /\ w[j][2] = w[i][2])
      <4>1. i \in 1..m /\ Gone(t, w[i][2]) BY <3>13, <3>14
      <4>2. CASE j \in 1..m
        <5>1. w[i] = ev[i] /\ w[j] = ev[j] BY <3>4, <4>1, <4>2
        <5>2. ~(ev[j][1] \in Told1 /\ ev[j][2] = ev[i][2]) BY <3>6, <3>7, <3>14, <4>1, <4>2, <5>1 DEF Final
        <5> QED BY <5>1, <5>2
      <4>3. CASE j \in m + 1..m + n
        <5>1. w[j][2] = id BY <3>8, <3>10, <4>3
        <5> QED BY <3>11, <4>1, <5>1
      <4> QED BY <3>9, <4>2, <4>3
    <3>15. u.events = w BY <2>6 DEF w, ev
    <3>16. Final(w) BY <3>3, <3>14 DEF Final
    <3>17. Shape(u) BY <2>6 DEF Shape, SessionOK, Alike
    <3> QED BY <3>2, <3>3, <3>12, <3>13, <3>15, <3>16, <3>17 DEF SessionOK
  <2> SUFFICES /\ SessionOK(r.s) /\ r.s.goaway = t.goaway /\ r.s.live = t.live /\ r.take \in BOOLEAN
               /\ r.take => Alike(t, r.s)
    OBVIOUS
  <2> HIDE DEF r
  <2> QED BY <2>1, <2>6, <2>7 DEF Alike
<1> QED BY <1>1, <1>2

\* The end of DATA.
LEMMA EndDataOK ==
  ASSUME NEW t, SessionOK(t), NEW hd
  PROVE  SessionOK(EndData(t, hd)) /\ EndData(t, hd).goaway = t.goaway
<1> DEFINE id == hd.stream
           told == Emit(t, <<"DATA", id>>)
           r == EndData(t, hd)
<1>1. CASE id \notin t.live \ t.closing
  <2>1. r = t BY <1>1 DEF EndData
  <2> QED BY <2>1
<1>2. CASE id \in t.live \ t.closing
  <2>1. r = IF "END_STREAM" \in hd.flags THEN [told EXCEPT !.shut = @ \cup {id}] ELSE told
    BY <1>2 DEF EndData
  <2>2. "DATA" \in Told1 BY DEF Told1
  <2>3. SessionOK(told) /\ told.goaway = t.goaway BY <1>2, <2>2, EmitHeard
  <2> HIDE DEF told
  <2>4. /\ SessionOK([told EXCEPT !.shut = @ \cup {id}])
        /\ [told EXCEPT !.shut = @ \cup {id}].goaway = told.goaway
    BY <2>3, ShutOK
  <2> SUFFICES SessionOK(r) /\ r.goaway = t.goaway OBVIOUS
  <2> HIDE DEF r
  <2> QED BY <2>1, <2>3, <2>4
<1> QED BY <1>1, <1>2

\* The frames whose payload is read as a whole.
LEMMA ProcessSettingsOK ==
  ASSUME NEW t, SessionOK(t), NEW hd, NEW iv
  PROVE  SessionOK(ProcessSettings(t, hd, iv)) /\ Onward(t, ProcessSettings(t, hd, iv))
<1> DEFINE r == ProcessSettings(t, hd, iv)
<1>0. \A x : <<"SETTINGS", x>>[1] = "SETTINGS" OBVIOUS
<1>1. "SETTINGS" # "reset" /\ "SETTINGS" \notin Told1 BY DEF Told1
<1>2. \A u, x : SessionOK(u) => /\ SessionOK(Emit(u, <<"SETTINGS", x>>))
                                /\ Emit(u, <<"SETTINGS", x>>).goaway = u.goaway
  BY <1>0, <1>1, EmitOther
<1>6. CASE hd.stream # 0
  <2>1. r = Terminate(t) BY <1>6 DEF ProcessSettings
  <2> QED BY <2>1, TerminateOK
<1>3. CASE hd.stream = 0 /\ "ACK" \notin hd.flags
  <2>1. r = Emit(t, <<"SETTINGS", Effect(iv)>>) BY <1>3 DEF ProcessSettings
  <2> QED BY <1>2, <2>1 DEF Onward
<1>4. CASE hd.stream = 0 /\ "ACK" \in hd.flags /\ t.unacked
  <2> DEFINE u == [t EXCEPT !.unacked = FALSE]
  <2>1. DOMAIN u = DOMAIN t /\ Alike(t, u) /\ u.goaway = t.goaway /\ u.events = t.events
    BY DEF Alike, SessionOK, Shape
  <2>2. r = Emit(u, <<"SETTINGS", "ACK">>) BY <1>4 DEF ProcessSettings
  <2> HIDE DEF u
  <2>3. Shape(u) BY <2>1 DEF Shape, SessionOK, Alike
  <2>4. \A id : Gone(t, id) => Gone(u, id) BY <2>1 DEF Gone, Alike
  <2>5. SessionOK(u) BY <2>1, <2>3, <2>4, NothingTold
  <2> QED BY <1>2, <2>1, <2>2, <2>5 DEF Onward
<1>5. CASE hd.stream = 0 /\ "ACK" \in hd.flags /\ ~t.unacked
  <2>1. r = Terminate(t) BY <1>5 DEF ProcessSettings
  <2> QED BY <2>1, TerminateOK
<1> QED BY <1>3, <1>4, <1>5, <1>6

\* session_process_ping_frame.
LEMMA ProcessPingOK ==
  ASSUME NEW t, SessionOK(t), NEW hd
  PROVE  SessionOK(ProcessPing(t, hd)) /\ Onward(t, ProcessPing(t, hd))
<1> DEFINE answered == IF "ACK" \in hd.flags \/ IsClosing(t) THEN t ELSE Emit(t, <<"pong">>)
<1>1. <<"pong">>[1] = "pong" /\ "pong" # "reset" /\ "pong" \notin Told1 BY DEF Told1
<1>2. SessionOK(answered) /\ answered.goaway = t.goaway
  <2>1. SessionOK(Emit(t, <<"pong">>)) /\ Emit(t, <<"pong">>).goaway = t.goaway BY <1>1, EmitOther
  <2> QED BY <2>1
<1>3. hd.stream = 0 => ProcessPing(t, hd) = Emit(answered, <<"PING">>) BY DEF ProcessPing
<1>6. hd.stream # 0 => ProcessPing(t, hd) = Terminate(t) BY DEF ProcessPing
<1>4. <<"PING">>[1] = "PING" /\ "PING" # "reset" /\ "PING" \notin Told1 BY DEF Told1
<1> HIDE DEF answered
<1>5. SessionOK(Emit(answered, <<"PING">>)) /\ Emit(answered, <<"PING">>).goaway = answered.goaway
  BY <1>2, <1>4, EmitOther
<1> QED BY <1>2, <1>3, <1>5, <1>6, TerminateOK DEF Onward

\* session_process_rst_stream_frame: the stream is gone.
LEMMA ProcessRstOK ==
  ASSUME NEW t, SessionOK(t), NEW id \in Nat
  PROVE  SessionOK(ProcessRst(t, id)) /\ Onward(t, ProcessRst(t, id))
<1> DEFINE r == ProcessRst(t, id)
           a == [t EXCEPT !.shut = @ \cup ({id} \cap t.live)]
           told == Emit(a, <<"RST_STREAM", id>>)
<1>1. CASE id = 0 \/ id > t.newest
  <2>1. r = Terminate(t) BY <1>1 DEF ProcessRst
  <2> QED BY <2>1, TerminateOK
<1>2. CASE ~(id = 0 \/ id > t.newest)
  <2>1. r = [told EXCEPT !.live = @ \ {id}, !.closing = @ \ {id}] BY <1>2 DEF ProcessRst
  <2>2. SessionOK(a) /\ Alike(t, a) /\ a.goaway = t.goaway BY ShutOK
  <2>3. <<"RST_STREAM", id>>[1] = "RST_STREAM" /\ "RST_STREAM" # "reset" /\ "RST_STREAM" \notin Told1
    BY DEF Told1
  <2> HIDE DEF a
  <2>4. SessionOK(told) /\ Alike(a, told) /\ told.goaway = a.goaway BY <2>2, <2>3, EmitOther
  <2> HIDE DEF told
  <2>5. /\ DOMAIN r = DOMAIN told /\ r.goaway = told.goaway /\ r.newest = told.newest
        /\ r.live = told.live \ {id} /\ r.closing = told.closing \ {id} /\ r.events = told.events
    BY <2>1, <2>4 DEF SessionOK, Shape
  <2> HIDE DEF r
  <2>6. Shape(r) BY <2>4, <2>5 DEF Shape, SessionOK
  <2>7. told.newest \in Nat /\ id <= told.newest
    <3>1. told.newest = t.newest /\ t.newest \in Nat BY <2>2, <2>4 DEF Alike, SessionOK, Shape
    <3> QED BY <1>2, <3>1
  <2>8. \A x : Gone(told, x) => Gone(r, x)
    <3> SUFFICES ASSUME NEW x, Gone(told, x) PROVE Gone(r, x) OBVIOUS
    <3>1. CASE x = id BY <2>5, <2>7, <3>1 DEF Gone
    <3>2. CASE x # id BY <2>5, <3>2 DEF Gone
    <3> QED BY <3>1, <3>2
  <2>9. SessionOK(r) BY <2>4, <2>5, <2>6, <2>8, NothingTold
  <2> QED BY <2>2, <2>4, <2>5, <2>9 DEF Onward, r
<1> QED BY <1>1, <1>2

\* session_process_goaway_frame.
LEMMA ProcessGoawayOK ==
  ASSUME NEW t, SessionOK(t), NEW hd
  PROVE  SessionOK(ProcessGoaway(t, hd)) /\ Onward(t, ProcessGoaway(t, hd))
<1> DEFINE u == [t EXCEPT !.peerGone = TRUE]
<1>1. DOMAIN u = DOMAIN t /\ Alike(t, u) /\ u.goaway = t.goaway /\ u.events = t.events
  BY DEF Alike, SessionOK, Shape
<1>2. ProcessGoaway(t, hd) = IF hd.stream # 0 THEN Terminate(t) ELSE Emit(u, <<"GOAWAY">>)
  BY DEF ProcessGoaway
<1> HIDE DEF u
<1>3. Shape(u) BY <1>1 DEF Shape, SessionOK, Alike
<1>4. \A id : Gone(t, id) => Gone(u, id) BY <1>1 DEF Gone, Alike
<1>5. SessionOK(u) BY <1>1, <1>3, <1>4, NothingTold
<1>6. <<"GOAWAY">>[1] = "GOAWAY" /\ "GOAWAY" # "reset" /\ "GOAWAY" \notin Told1 BY DEF Told1
<1>7. SessionOK(Emit(u, <<"GOAWAY">>)) /\ Emit(u, <<"GOAWAY">>).goaway = u.goaway BY <1>5, <1>6, EmitOther
<1>8. CASE hd.stream # 0 BY <1>2, <1>8, TerminateOK
<1>9. CASE hd.stream = 0 BY <1>1, <1>2, <1>7, <1>9 DEF Onward
<1> QED BY <1>8, <1>9

\* PRIORITY and WINDOW_UPDATE.
LEMMA ProcessOtherOK ==
  ASSUME NEW t, SessionOK(t), NEW hd, hd.type \in {"PRIORITY", "WINDOW_UPDATE"}
  PROVE  SessionOK(ProcessOther(t, hd)) /\ Onward(t, ProcessOther(t, hd))
<1>1. <<hd.type>>[1] = hd.type /\ hd.type # "reset" /\ hd.type \notin Told1 BY DEF Told1
<1>2. ProcessOther(t, hd) = Terminate(t) \/ ProcessOther(t, hd) = Emit(t, <<hd.type>>) BY DEF ProcessOther
<1>3. SessionOK(Emit(t, <<hd.type>>)) /\ Emit(t, <<hd.type>>).goaway = t.goaway BY <1>1, EmitOther
<1> QED BY <1>2, <1>3, TerminateOK DEF Onward

-----------------------------------------------------------------------------
(* The invariant.                                                           *)

\* A reader that has read p bytes and charged c of them, in the middle of a session
Reads(input, p, f, t, c) ==
  /\ FrameOK(f) /\ SessionOK(t)
  /\ f.state \in Heard => f.hd.stream \in t.live \ t.closing
  /\ SpotOK(input, p, f, t.goaway)
  /\ t.goaway = "none" => c = ContentSize(input.frames, p)

IInv ==
  /\ sent \in Inputs /\ wire = Wire(sent)
  /\ at \in Nat /\ last \in Nat /\ at <= last /\ last <= Len(wire)
  /\ calling \in BOOLEAN /\ request \in BOOLEAN /\ charged \in Nat /\ charged <= at
  /\ FrameOK(iframe) /\ SessionOK(s)
  /\ iframe.state = "IGN_ALL" => s.goaway # "none"
  /\ iframe.state \in Heard => iframe.hd.stream \in s.live \ s.closing
  /\ calling => s.goaway # "sent"
  /\ calling \/ WantRead(s) => Reads(sent, at, iframe, s, charged)

-----------------------------------------------------------------------------
(* The inbound frame, as the passes change it.                              *)

Fields == {"state", "hd", "payloadleft", "padlen", "sbuf", "mark", "iv", "least"}
Basic(f) ==
  /\ DOMAIN f = Fields /\ HeadOK(f.hd) /\ f.payloadleft \in Nat /\ f.padlen \in Nat
  /\ IsSeq(f.sbuf) /\ Len(f.sbuf) <= f.mark /\ f.mark \in Marks

\* A frame that is sound has the fields it needs.
LEMMA FrameIsBasic == ASSUME NEW f, FrameOK(f) PROVE Basic(f) /\ f.state \in States
BY DEF FrameOK, BufferOK, Basic, Fields

\* Another state.
LEMMA InIs ==
  ASSUME NEW f, DOMAIN f = Fields, NEW state
  PROVE  /\ DOMAIN In(f, state) = Fields /\ In(f, state).state = state /\ In(f, state).hd = f.hd
         /\ In(f, state).payloadleft = f.payloadleft /\ In(f, state).padlen = f.padlen
         /\ In(f, state).sbuf = f.sbuf /\ In(f, state).mark = f.mark
         /\ Basic(f) => Basic(In(f, state))
BY DEF In, Fields, Basic

\* A sound frame stays one in the next state.
LEMMA InBasic ==
  \A f, state : Basic(f) => /\ Basic(In(f, state)) /\ In(f, state).state = state
                            /\ In(f, state).payloadleft = f.payloadleft
<1> SUFFICES ASSUME NEW f, NEW state, Basic(f)
    PROVE  /\ Basic(In(f, state)) /\ In(f, state).state = state
           /\ In(f, state).payloadleft = f.payloadleft
  OBVIOUS
<1>1. DOMAIN f = Fields BY DEF Basic
<1> QED BY <1>1, InIs

\* An empty buffer for n bytes.
LEMMA SetMarkIs ==
  ASSUME NEW f, Basic(f), NEW n \in Marks
  PROVE  /\ DOMAIN SetMark(f, n) = Fields /\ SetMark(f, n).state = f.state /\ SetMark(f, n).hd = f.hd
         /\ SetMark(f, n).payloadleft = f.payloadleft /\ SetMark(f, n).padlen = f.padlen
         /\ SetMark(f, n).sbuf = <<>> /\ SetMark(f, n).mark = n /\ Basic(SetMark(f, n))
<1>1. /\ DOMAIN SetMark(f, n) = Fields /\ SetMark(f, n).state = f.state /\ SetMark(f, n).hd = f.hd
      /\ SetMark(f, n).payloadleft = f.payloadleft /\ SetMark(f, n).padlen = f.padlen
      /\ SetMark(f, n).sbuf = <<>> /\ SetMark(f, n).mark = n
  BY DEF SetMark, Basic, Fields
<1>2. n \in Nat BY Lengths DEF Marks
<1> QED BY <1>1, <1>2, NothingIsSeq DEF Basic

\* Less is left of the frame.
LEMMA LeftIs ==
  ASSUME NEW f, Basic(f), NEW m \in Nat
  PROVE  LET h == [f EXCEPT !.payloadleft = m]
         IN  /\ h.state = f.state /\ h.hd = f.hd /\ h.payloadleft = m /\ h.padlen = f.padlen
             /\ h.sbuf = f.sbuf /\ h.mark = f.mark /\ Basic(h)
BY DEF Basic, Fields

\* States that ask nothing of the buffer.
Plain == {"IGN_PAYLOAD", "IGN_DATA", "FRAME_SIZE_ERROR", "READ_DATA", "READ_GOAWAY_DEBUG", "IGN_ALL",
          "READ_HEADER_BLOCK", "IGN_HEADER_BLOCK"}

\* In these states a frame with its fields is sound.
LEMMA PlainFrame ==
  ASSUME NEW f, Basic(f), f.state \in Plain,
         f.state \in {"READ_HEADER_BLOCK", "IGN_HEADER_BLOCK"} => f.hd.type \in {"HEADERS", "PUSH_PROMISE"}
  PROVE  FrameOK(f) /\ ~PadNext(f)
<1>1. ~PadNext(f) BY DEF PadNext, Plain
<1>2. f.state \in States /\ f.state \notin InHead
      /\ f.state \notin {"READ_NBYTE", "READ_PAD_DATA", "READ_SETTINGS", "READ_CLIENT_MAGIC"}
  BY DEF Plain, States, InHead
<1>3. BufferOK(f) BY <1>2 DEF BufferOK, Basic
<1>4. f.state \in InBlock => f.hd.type \in {"HEADERS", "PUSH_PROMISE"} BY <1>2 DEF InBlock, InHead
<1> QED BY <1>1, <1>2, <1>3, <1>4 DEF FrameOK, Basic, Fields

\* A head of the next frame that has not begun, or not ended, to arrive.
LEMMA HeadFrame ==
  ASSUME NEW f, Basic(f), f.state \in InHead, f.mark = HeadLength, Len(f.sbuf) < HeadLength, f.padlen = 0,
         f.state \in InBlock => f.hd.type \in {"HEADERS", "PUSH_PROMISE"}
  PROVE  FrameOK(f) /\ ~PadNext(f)
<1>1. ~PadNext(f) BY DEF PadNext, InHead
<1>2. f.state \in States /\ f.state \notin {"READ_NBYTE", "READ_PAD_DATA", "READ_SETTINGS"}
  BY DEF States, InHead
<1>3. BufferOK(f) BY <1>2 DEF BufferOK, Basic
<1> QED BY <1>1, <1>2, <1>3 DEF FrameOK, Basic, Fields

\* session_inbound_frame_reset.
LEMMA ResetIs ==
  /\ Basic(ResetFrame) /\ ResetFrame.state = "READ_HEAD" /\ ResetFrame.sbuf = <<>>
  /\ ResetFrame.mark = HeadLength /\ ResetFrame.padlen = 0 /\ FrameOK(ResetFrame)
<1>1. /\ DOMAIN ResetFrame = Fields /\ ResetFrame.state = "READ_HEAD" /\ ResetFrame.sbuf = <<>>
      /\ ResetFrame.mark = HeadLength /\ ResetFrame.padlen = 0 /\ ResetFrame.hd = NoHeader
      /\ ResetFrame.payloadleft = 0
  BY DEF ResetFrame, Fields
<1>2. HeadOK(NoHeader)
  <2>1. /\ NoHeader.type = "none" /\ NoHeader.flags = {} /\ NoHeader.stream = 0 /\ NoHeader.length = 0
        /\ DOMAIN NoHeader = {"type", "flags", "stream", "length"}
    BY DEF NoHeader
  <2>2. "none" # "HEADERS" OBVIOUS
  <2> QED BY <2>1, <2>2 DEF HeadOK
<1>3. Basic(ResetFrame) BY <1>1, <1>2, NothingIsSeq, Lengths DEF Basic, Marks
<1>4. FrameOK(ResetFrame)
  <2>1. ResetFrame.state \in InHead /\ ResetFrame.state \notin InBlock BY <1>1 DEF InHead, InBlock
  <2> QED BY <1>1, <1>3, <2>1, HeadFrame, NothingIsSeq, Lengths
<1> QED BY <1>1, <1>3, <1>4

\* What comes before a header block is nothing, the priority or the promised stream.
LEMMA FixedIs ==
  ASSUME NEW hd
  PROVE  FixedFields(hd) \in Nat /\ FixedFields(hd) \in Marks
BY Lengths DEF FixedFields, Marks

\* The fixed part of a payload is being buffered.
LEMMA NbyteFrame ==
  ASSUME NEW f, Basic(f), f.state = "READ_NBYTE",
         f.hd.type \in {"HEADERS", "PUSH_PROMISE", "PRIORITY", "RST_STREAM", "WINDOW_UPDATE", "PING", "GOAWAY"},
         Len(f.sbuf) < f.mark, f.mark - Len(f.sbuf) <= f.payloadleft,
         f.hd.type \notin {"HEADERS", "PUSH_PROMISE", "GOAWAY"} => f.mark - Len(f.sbuf) = f.payloadleft,
         f.hd.type \in {"HEADERS", "PUSH_PROMISE"} => f.mark = IF PadNext(f) THEN 1 ELSE FixedFields(f.hd)
  PROVE  FrameOK(f)
<1>1. f.state \in States /\ f.state \notin InHead /\ f.state \notin InBlock
  BY DEF States, InHead, InBlock
<1>2. BufferOK(f) BY <1>1 DEF BufferOK, Basic
<1> QED BY <1>1, <1>2 DEF FrameOK, Basic, Fields

\* The Pad Length of DATA is being buffered.
LEMMA PadDataFrame ==
  ASSUME NEW f, Basic(f), f.state = "READ_PAD_DATA", f.padlen = 0, f.mark = 1, Len(f.sbuf) < f.mark,
         f.payloadleft >= 1
  PROVE  FrameOK(f)
<1>1. f.state \in States /\ f.state \notin InHead /\ f.state \notin InBlock
  BY DEF States, InHead, InBlock
<1>2. Len(f.sbuf) = 0 BY DEF Basic, IsSeq
<1>3. BufferOK(f) BY <1>1, <1>2 DEF BufferOK, Basic
<1> QED BY <1>1, <1>3 DEF FrameOK, Basic, Fields

\* An entry of SETTINGS is being buffered, or there is none.
LEMMA SettingsFrame ==
  ASSUME NEW f, Basic(f), f.state = "READ_SETTINGS",
         \/ f.mark = 0 /\ f.payloadleft = 0
         \/ /\ f.mark = EntryLength /\ Len(f.sbuf) < EntryLength
            /\ \E m \in Nat \ {0} : f.payloadleft + Len(f.sbuf) = m * EntryLength
  PROVE  FrameOK(f)
<1>1. f.state \in States /\ f.state \notin InHead /\ f.state \notin InBlock
  BY DEF States, InHead, InBlock
<1>2. BufferOK(f) BY <1>1 DEF BufferOK, Basic
<1> QED BY <1>1, <1>2 DEF FrameOK, Basic, Fields

-----------------------------------------------------------------------------
(* The ways a pass of the loop ends.                                        *)

\* A pass that takes n bytes and leaves a reader that is at the right place.
LEMMA PassKeeps ==
  ASSUME IInv, calling, NEW n \in Nat, NEW busy \in BOOLEAN, at + n <= last, Pass(n, busy),
         Reads(sent, at + n, iframe', s', charged'), Onward(s, s'), request' \in BOOLEAN,
         charged' \in Nat, charged' <= at + n
  PROVE  IInv'
<1>1. at' = at + n /\ calling' \in BOOLEAN /\ sent' = sent /\ wire' = wire /\ last' = last BY DEF Pass
<1>2. s'.goaway # "sent" BY DEF IInv, Onward
<1>3. /\ FrameOK(iframe') /\ SessionOK(s')
      /\ iframe'.state \in Heard => iframe'.hd.stream \in s'.live \ s'.closing
  BY DEF Reads
<1>4. iframe'.state = "IGN_ALL" => s'.goaway # "none" BY DEF Reads, SpotOK
<1>5. Reads(sent', at', iframe', s', charged') BY <1>1
<1>6. at' \in Nat /\ last' \in Nat /\ at' <= last' /\ last' <= Len(wire') /\ charged' <= at' BY <1>1 DEF IInv
<1>7. sent' \in Inputs /\ wire' = Wire(sent') BY <1>1 DEF IInv
<1> QED BY <1>1, <1>2, <1>3, <1>4, <1>5, <1>6, <1>7 DEF IInv

\* The session is ended.
LEMMA FailsKeeps ==
  ASSUME IInv, calling, NEW n \in Nat, at + n <= last, NEW f, NEW state, Fails(f, state, n),
         FrameOK(In(f, state)), state \notin Heard, DOMAIN f = Fields,
         SpotOK(sent, at + n, In(f, state), "queued"), charged' \in Nat, charged' <= at + n
  PROVE  IInv'
<1>1. s' = Terminate(s) /\ iframe' = In(f, state) /\ Pass(n, TRUE) /\ request' = request BY DEF Fails
<1>2. SessionOK(s) BY DEF IInv
<1>3. SessionOK(s') /\ Onward(s, s') /\ s'.goaway # "none" BY <1>1, <1>2, TerminateOK
<1>4. SpotOK(sent, at + n, iframe', s'.goaway) BY <1>1, <1>3 DEF SpotOK, Within
<1>5. iframe'.state = state BY <1>1, InIs
<1>6. Reads(sent, at + n, iframe', s', charged') BY <1>1, <1>3, <1>4, <1>5 DEF Reads
<1> QED BY <1>1, <1>3, <1>6, PassKeeps DEF IInv

\* The session goes on as it is.
LEMMA ContinuesKeeps ==
  ASSUME IInv, calling, NEW n \in Nat, at + n <= last, NEW f, NEW state, NEW busy \in BOOLEAN,
         Continues(f, state, n, busy), FrameOK(In(f, state)), DOMAIN f = Fields,
         state \in Heard => f.hd.stream \in s.live \ s.closing,
         SpotOK(sent, at + n, In(f, state), s.goaway), charged' \in Nat, charged' <= at + n,
         s.goaway = "none" => charged' = ContentSize(sent.frames, at + n)
  PROVE  IInv'
<1>1. s' = s /\ iframe' = In(f, state) /\ Pass(n, busy) /\ request' = request BY DEF Continues
<1>2. SessionOK(s) /\ Onward(s, s') BY <1>1 DEF IInv, Onward
<1>3. iframe'.state = state /\ iframe'.hd = f.hd BY <1>1, InIs
<1>4. Reads(sent, at + n, iframe', s', charged') BY <1>1, <1>2, <1>3 DEF Reads
<1> QED BY <1>1, <1>2, <1>4, PassKeeps DEF IInv

\* The frame is done with.
LEMMA ResetKeeps ==
  ASSUME IInv, calling, NEW n \in Nat, at + n <= last, NEW busy \in BOOLEAN, iframe' = ResetFrame,
         Pass(n, busy), SessionOK(s'), Onward(s, s'), request' \in BOOLEAN,
         iframe.state \in InPayload, n = iframe.payloadleft, charged' \in Nat, charged' <= at + n,
         s'.goaway = "none" => charged' = ContentSize(sent.frames, at + n)
  PROVE  IInv'
<1>1. FrameOK(iframe) /\ SpotOK(sent, at, iframe, s.goaway) BY DEF IInv, Reads
<1>2. iframe'.state = "READ_HEAD" /\ iframe'.sbuf = <<>> /\ FrameOK(iframe') BY ResetIs
<1>3. iframe'.state \in InHead /\ iframe'.state \notin Heard BY <1>2 DEF InHead, Heard
<1>4. SpotOK(sent, at + iframe.payloadleft, iframe', s'.goaway) BY <1>1, <1>2, <1>3, SpotAfter DEF FrameOK, IInv
<1>5. Reads(sent, at + n, iframe', s', charged') BY <1>2, <1>3, <1>4 DEF Reads
<1> QED BY <1>5, PassKeeps

\* A header block begins.
LEMMA BeginBlockKeeps ==
  ASSUME IInv, calling, NEW n \in Nat, at + n <= last, NEW f, BeginBlock(f, n), Basic(f),
         f.hd.type \in {"HEADERS", "PUSH_PROMISE"}, charged' = charged,
         \A state \in {"READ_HEADER_BLOCK", "IGN_HEADER_BLOCK"} :
           SpotOK(sent, at + n, In(f, state), s.goaway),
         s.goaway = "none" => charged = ContentSize(sent.frames, at + n)
  PROVE  IInv'
<1> DEFINE id == f.hd.stream
           process == ProcessHeaders(s, f.hd)
           state == IF process.take THEN "READ_HEADER_BLOCK" ELSE "IGN_HEADER_BLOCK"
<1>1. s' = process.s /\ iframe' = In(f, state) /\ Pass(n, TRUE) /\ request' = (id \notin s.live)
  BY DEF BeginBlock
<1>2. SessionOK(s) /\ (f.hd.type = "HEADERS" => id \in StreamIds \cup {0}) BY DEF IInv, Basic, HeadOK
<1>3. /\ SessionOK(process.s) /\ Onward(s, process.s) /\ process.take \in BOOLEAN
      /\ process.take => id \in process.s.live \ process.s.closing
  BY <1>2, ProcessHeadersOK
<1> HIDE DEF process
<1>4. state \in {"READ_HEADER_BLOCK", "IGN_HEADER_BLOCK"} OBVIOUS
<1>5. SpotOK(sent, at + n, iframe', s.goaway) BY <1>1, <1>4
<1>6. SpotOK(sent, at + n, iframe', s'.goaway)
  <2>1. s.goaway # "none" => s'.goaway # "none" BY <1>1, <1>3 DEF Onward
  <2> QED BY <1>5, <2>1 DEF SpotOK, Within
<1>7. iframe'.state = state /\ iframe'.hd = f.hd /\ Basic(iframe') BY <1>1, InIs DEF Basic
<1>8. iframe'.state \in Plain BY <1>4, <1>7 DEF Plain
<1>9. FrameOK(iframe') BY <1>7, <1>8, PlainFrame
<1>10. s'.goaway = "none" => s.goaway = "none" BY <1>1, <1>3 DEF Onward
<1>11. iframe'.state \in Heard => id \in s'.live \ s'.closing
  <2>1. process.take \/ iframe'.state = "IGN_HEADER_BLOCK" BY <1>7
  <2> QED BY <1>1, <1>3, <2>1 DEF Heard
<1>12. Reads(sent, at + n, iframe', s', charged') BY <1>1, <1>3, <1>6, <1>7, <1>9, <1>10, <1>11 DEF Reads
<1>13. charged' \in Nat /\ charged' <= at + n BY DEF IInv
<1>14. request' \in BOOLEAN BY <1>1
<1> QED BY <1>1, <1>3, <1>12, <1>13, <1>14, PassKeeps

-----------------------------------------------------------------------------
(* The head of a frame.                                                     *)

\* What the reader knows when it has read the head hd of frame k + 1, p bytes into the connection.
HeadRead(input, k, p, hd) ==
  /\ HeadOK(hd) /\ k \in Nat /\ k + 1 \in 1..Len(input.frames)
  /\ p = EndAt(input.frames, k) + HeadLength /\ hd = Header(input.frames[k + 1])
  /\ p + hd.length = EndAt(input.frames, k + 1)
  /\ hd.type \in {"HEADERS", "PUSH_PROMISE", "DATA"} /\ "PADDED" \in hd.flags /\ hd.length >= 1 =>
       Wire(input)[p + 1].value \in Nat

\* Behind the head of a frame a reader is in its payload.
LEMMA HeadReadSpot ==
  ASSUME NEW input \in Inputs, NEW k, NEW p \in Nat, NEW hd, HeadRead(input, k, p, hd), NEW h, NEW g,
         h.state \in InPayload, h.payloadleft = hd.length,
         h.state \in InData => hd.type = "DATA",
         h.state \notin InData => hd.type # "DATA" \/ g # "none",
         PadNext(h) => hd.type \in {"HEADERS", "PUSH_PROMISE", "DATA"} /\ "PADDED" \in hd.flags /\ hd.length >= 1
  PROVE  SpotOK(input, p, h, g)
BY SpotBegins DEF HeadRead

\* A frame whose head has been read, before its type decides.
LEMMA HeadTaken ==
  ASSUME NEW i, Basic(i), NEW hd, HeadOK(hd)
  PROVE  LET f == [i EXCEPT !.hd = hd, !.payloadleft = hd.length, !.sbuf = <<>>]
         IN  Basic(f) /\ f.hd = hd /\ f.payloadleft = hd.length /\ f.sbuf = <<>> /\ f.padlen = i.padlen
<1> DEFINE f == [i EXCEPT !.hd = hd, !.payloadleft = hd.length, !.sbuf = <<>>]
<1>1. /\ DOMAIN f = Fields /\ f.hd = hd /\ f.payloadleft = hd.length /\ f.sbuf = <<>>
      /\ f.padlen = i.padlen /\ f.mark = i.mark
  BY DEF Basic, Fields
<1>2. f.mark \in Nat BY <1>1, Lengths DEF Basic, Marks
<1>3. f.payloadleft \in Nat BY <1>1 DEF HeadOK
<1> HIDE DEF f
<1>4. Basic(f) BY <1>1, <1>2, <1>3, NothingIsSeq DEF Basic
<1> QED BY <1>1, <1>4 DEF f

\* The head of DATA has been read.
LEMMA HeadOfDataKeeps ==
  ASSUME IInv, calling, NEW n \in Nat, at + n <= last, NEW f, Basic(f), f.padlen = 0, NEW k,
         HeadRead(sent, k, at + n, f.hd), f.payloadleft = f.hd.length, f.hd.type = "DATA",
         s.goaway = "none" => charged = ContentSize(sent.frames, at + n),
         HeadOfData(f, n), charged' = charged
  PROVE  IInv'
<1> DEFINE allowed == FailFast(s, f.hd.stream)
<1>1. sent \in Inputs /\ at + n \in Nat /\ charged' \in Nat /\ charged' <= at + n /\ SessionOK(s) BY DEF IInv
<1>2. /\ SessionOK(allowed.s) /\ Onward(s, allowed.s) /\ allowed.take \in BOOLEAN
      /\ allowed.take => allowed.s = s /\ f.hd.stream \in s.live \ s.closing
  BY <1>1, FailFastOK
<1>3. {"IGN_DATA", "READ_DATA", "READ_PAD_DATA"} \subseteq InPayload \cap InData
  BY DEF InPayload, InData, States, InHead
<1>4. DOMAIN f = Fields BY DEF Basic
<1>5. \A state \in {"IGN_DATA", "READ_DATA"} : \A g : /\ FrameOK(In(f, state)) /\ In(f, state).state = state
                                                      /\ SpotOK(sent, at + n, In(f, state), g)
  <2> TAKE state \in {"IGN_DATA", "READ_DATA"}
  <2> TAKE g
  <2>1. /\ In(f, state).state = state /\ In(f, state).payloadleft = f.hd.length /\ Basic(In(f, state))
    BY <1>4, InIs
  <2>2. FrameOK(In(f, state)) /\ ~PadNext(In(f, state)) BY <2>1, PlainFrame DEF Plain
  <2>3. SpotOK(sent, at + n, In(f, state), g) BY <1>1, <1>3, <2>1, <2>2, HeadReadSpot
  <2> QED BY <2>1, <2>2, <2>3
<1> HIDE DEF allowed
<1>6. CASE ~allowed.take
  <2>1. s' = allowed.s /\ iframe' = In(f, "IGN_DATA") /\ Pass(n, TRUE) /\ request' = request
    BY <1>6 DEF HeadOfData, allowed
  <2>2. s'.goaway = "none" => s.goaway = "none" BY <1>2, <2>1 DEF Onward
  <2>3. "IGN_DATA" \notin Heard BY DEF Heard
  <2>4. Reads(sent, at + n, iframe', s', charged') BY <1>2, <1>5, <2>1, <2>2, <2>3 DEF Reads
  <2> QED BY <1>1, <1>2, <2>1, <2>4, PassKeeps DEF IInv
<1>7. CASE allowed.take /\ "PADDED" \notin f.hd.flags
  <2>1. Continues(f, "READ_DATA", n, TRUE) BY <1>7 DEF HeadOfData, allowed
  <2> QED BY <1>1, <1>2, <1>4, <1>5, <1>7, <2>1, ContinuesKeeps
<1>8. CASE allowed.take /\ "PADDED" \in f.hd.flags /\ f.hd.length < 1
  <2>1. Fails(f, "IGN_DATA", n) BY <1>8 DEF HeadOfData, allowed
  <2>2. "IGN_DATA" \notin Heard BY DEF Heard
  <2> QED BY <1>1, <1>4, <1>5, <2>1, <2>2, FailsKeeps
<1>9. CASE allowed.take /\ "PADDED" \in f.hd.flags /\ ~(f.hd.length < 1)
  <2> DEFINE g == SetMark(f, 1)
             h == In(g, "READ_PAD_DATA")
  <2>1. Continues(g, "READ_PAD_DATA", n, TRUE) BY <1>9 DEF HeadOfData, allowed
  <2>2. 1 \in Marks BY DEF Marks
  <2>3. /\ DOMAIN g = Fields /\ g.hd = f.hd /\ g.payloadleft = f.payloadleft /\ g.padlen = 0
        /\ g.sbuf = <<>> /\ g.mark = 1 /\ Basic(g)
    BY <2>2, SetMarkIs
  <2> HIDE DEF g
  <2>4. /\ h.state = "READ_PAD_DATA" /\ h.hd = f.hd /\ h.payloadleft = f.hd.length /\ h.padlen = 0
        /\ h.sbuf = <<>> /\ h.mark = 1 /\ Basic(h)
    BY <2>3, InIs
  <2>5. f.hd.length >= 1 BY <1>9 DEF HeadRead, HeadOK
  <2> HIDE DEF h
  <2>6. FrameOK(h) BY <2>4, <2>5, PadDataFrame, NothingIsSeq
  <2>7. SpotOK(sent, at + n, h, s.goaway) BY <1>1, <1>3, <1>9, <2>4, <2>5, HeadReadSpot
  <2> QED BY <1>1, <1>2, <1>9, <2>1, <2>3, <2>6, <2>7, ContinuesKeeps DEF h
<1> QED BY <1>2, <1>6, <1>7, <1>8, <1>9

\* The head of HEADERS has been read.
LEMMA HeadOfHeadersKeeps ==
  ASSUME IInv, calling, NEW n \in Nat, at + n <= last, NEW f, Basic(f), f.padlen = 0, NEW k,
         HeadRead(sent, k, at + n, f.hd), f.payloadleft = f.hd.length,
         f.hd.type \in {"HEADERS", "PUSH_PROMISE"},
         s.goaway = "none" => charged = ContentSize(sent.frames, at + n),
         HeadOfHeaders(f, n), charged' = charged
  PROVE  IInv'
<1>1. sent \in Inputs /\ at + n \in Nat /\ charged' \in Nat /\ charged' <= at + n BY DEF IInv
<1>2. DOMAIN f = Fields BY DEF Basic
<1>3. {"IGN_PAYLOAD", "FRAME_SIZE_ERROR", "READ_HEADER_BLOCK", "IGN_HEADER_BLOCK", "READ_NBYTE"}
        \subseteq InPayload \ InData
  BY DEF InPayload, InData, States, InHead
<1>4. \A state \in {"IGN_PAYLOAD", "FRAME_SIZE_ERROR", "READ_HEADER_BLOCK", "IGN_HEADER_BLOCK"} : \A g :
        /\ FrameOK(In(f, state)) /\ SpotOK(sent, at + n, In(f, state), g)
  <2> TAKE state \in {"IGN_PAYLOAD", "FRAME_SIZE_ERROR", "READ_HEADER_BLOCK", "IGN_HEADER_BLOCK"}
  <2> TAKE g
  <2>1. /\ In(f, state).state = state /\ In(f, state).payloadleft = f.hd.length /\ Basic(In(f, state))
        /\ In(f, state).hd = f.hd
    BY <1>2, InIs
  <2>2. FrameOK(In(f, state)) /\ ~PadNext(In(f, state)) BY <2>1, PlainFrame DEF Plain
  <2>3. SpotOK(sent, at + n, In(f, state), g) BY <1>1, <1>3, <2>1, <2>2, HeadReadSpot
  <2> QED BY <2>2, <2>3
<1>5. \A m \in Marks \ {0} :
        (IF "PADDED" \in f.hd.flags THEN m = 1 ELSE m = FixedFields(f.hd)) /\ m <= f.payloadleft =>
          LET g == SetMark(f, m)
          IN  /\ DOMAIN g = Fields /\ FrameOK(In(g, "READ_NBYTE"))
              /\ SpotOK(sent, at + n, In(g, "READ_NBYTE"), s.goaway)
  <2> TAKE m \in Marks \ {0}
  <2>1. HAVE (IF "PADDED" \in f.hd.flags THEN m = 1 ELSE m = FixedFields(f.hd)) /\ m <= f.payloadleft
  <2> DEFINE g == SetMark(f, m)
             h == In(g, "READ_NBYTE")
  <2>2. m \in Marks /\ m \in Nat \ {0} BY Lengths DEF Marks
  <2>3. /\ DOMAIN g = Fields /\ g.hd = f.hd /\ g.payloadleft = f.payloadleft /\ g.padlen = 0
        /\ g.sbuf = <<>> /\ g.mark = m /\ Basic(g)
    BY <2>2, SetMarkIs
  <2> HIDE DEF g
  <2>4. /\ h.state = "READ_NBYTE" /\ h.hd = f.hd /\ h.payloadleft = f.payloadleft /\ h.padlen = 0
        /\ h.sbuf = <<>> /\ h.mark = m /\ Basic(h)
    BY <2>3, InIs
  <2> HIDE DEF h
  <2>5. PadNext(h) <=> "PADDED" \in f.hd.flags BY <2>4 DEF PadNext
  <2>6. Len(h.sbuf) = 0 BY <2>4, NothingIsSeq
  <2>7. f.payloadleft \in Nat BY DEF Basic
  <2>8. FrameOK(h) BY <2>1, <2>2, <2>4, <2>5, <2>6, <2>7, NbyteFrame
  <2>9. PadNext(h) => f.hd.length >= 1 BY <2>1, <2>5, <2>7
  <2>10. SpotOK(sent, at + n, h, s.goaway) BY <1>1, <1>3, <2>4, <2>5, <2>9, HeadReadSpot
  <2> QED BY <2>3, <2>8, <2>10 DEF g, h
<1>6. "READ_NBYTE" \notin Heard /\ "IGN_PAYLOAD" \notin Heard /\ "FRAME_SIZE_ERROR" \notin Heard BY DEF Heard
<1>7. f.payloadleft \in Nat BY DEF Basic
<1>8. CASE "PADDED" \in f.hd.flags /\ f.hd.length < 1
  <2>1. Fails(f, "IGN_PAYLOAD", n) BY <1>8 DEF HeadOfHeaders
  <2> QED BY <1>1, <1>2, <1>4, <1>6, <2>1, FailsKeeps
<1>9. CASE "PADDED" \in f.hd.flags /\ ~(f.hd.length < 1)
  <2>1. Continues(SetMark(f, 1), "READ_NBYTE", n, FALSE) BY <1>9 DEF HeadOfHeaders
  <2>2. 1 <= f.payloadleft BY <1>7, <1>9
  <2>3. /\ DOMAIN SetMark(f, 1) = Fields /\ FrameOK(In(SetMark(f, 1), "READ_NBYTE"))
        /\ SpotOK(sent, at + n, In(SetMark(f, 1), "READ_NBYTE"), s.goaway)
    BY <1>5, <1>9, <2>2 DEF Marks
  <2> QED BY <1>1, <1>6, <2>1, <2>3, ContinuesKeeps
<1>10. CASE "PADDED" \notin f.hd.flags /\ FixedFields(f.hd) # 0 /\ f.payloadleft < FixedFields(f.hd)
  <2>1. Continues(f, "FRAME_SIZE_ERROR", n, TRUE) BY <1>10 DEF HeadOfHeaders
  <2> QED BY <1>1, <1>2, <1>4, <1>6, <2>1, ContinuesKeeps
<1>11. CASE "PADDED" \notin f.hd.flags /\ FixedFields(f.hd) # 0 /\ ~(f.payloadleft < FixedFields(f.hd))
  <2> DEFINE m == FixedFields(f.hd)
  <2>1. Continues(SetMark(f, m), "READ_NBYTE", n, FALSE) BY <1>11 DEF HeadOfHeaders
  <2>2. m <= f.payloadleft /\ m \in Marks \ {0} BY <1>7, <1>11, FixedIs
  <2>3. /\ DOMAIN SetMark(f, m) = Fields /\ FrameOK(In(SetMark(f, m), "READ_NBYTE"))
        /\ SpotOK(sent, at + n, In(SetMark(f, m), "READ_NBYTE"), s.goaway)
    BY <1>5, <1>11, <2>2
  <2> HIDE DEF m
  <2> QED BY <1>1, <1>6, <2>1, <2>3, ContinuesKeeps
<1>12. CASE "PADDED" \notin f.hd.flags /\ FixedFields(f.hd) = 0
  <2>1. BeginBlock(f, n) BY <1>12 DEF HeadOfHeaders
  <2> QED BY <1>1, <1>4, <2>1, BeginBlockKeeps
<1> QED BY <1>8, <1>9, <1>10, <1>11, <1>12

\* The head of SETTINGS has been read.
LEMMA HeadOfSettingsKeeps ==
  ASSUME IInv, calling, NEW n \in Nat, at + n <= last, NEW f, Basic(f), NEW k,
         HeadRead(sent, k, at + n, f.hd), f.payloadleft = f.hd.length, f.hd.type = "SETTINGS",
         s.goaway = "none" => charged = ContentSize(sent.frames, at + n),
         HeadOfSettings(f, n), charged' = charged
  PROVE  IInv'
<1>1. sent \in Inputs /\ at + n \in Nat /\ charged' \in Nat /\ charged' <= at + n BY DEF IInv
<1>2. DOMAIN f = Fields /\ f.payloadleft \in Nat BY DEF Basic
<1>3. {"FRAME_SIZE_ERROR", "READ_SETTINGS"} \subseteq (InPayload \ InData) \ Heard
  BY DEF InPayload, InData, States, InHead, Heard
<1>4. CASE ~SizeAllowed(f.hd)
  <2>1. Continues(f, "FRAME_SIZE_ERROR", n, TRUE) BY <1>4 DEF HeadOfSettings
  <2> DEFINE h == In(f, "FRAME_SIZE_ERROR")
  <2>2. h.state = "FRAME_SIZE_ERROR" /\ h.payloadleft = f.hd.length /\ Basic(h) BY <1>2, InIs
  <2> HIDE DEF h
  <2>3. FrameOK(h) /\ ~PadNext(h) BY <2>2, PlainFrame DEF Plain
  <2>4. SpotOK(sent, at + n, h, s.goaway) BY <1>1, <1>3, <2>2, <2>3, HeadReadSpot
  <2> QED BY <1>1, <1>2, <1>3, <2>1, <2>3, <2>4, ContinuesKeeps DEF h
<1>5. CASE SizeAllowed(f.hd)
  <2>1. \A m \in {0, EntryLength} : (IF f.payloadleft > 0 THEN m = EntryLength ELSE m = 0) =>
          LET g == SetMark(f, m)
          IN  /\ DOMAIN g = Fields /\ FrameOK(In(g, "READ_SETTINGS"))
              /\ SpotOK(sent, at + n, In(g, "READ_SETTINGS"), s.goaway)
    <3> TAKE m \in {0, EntryLength}
    <3>1. HAVE IF f.payloadleft > 0 THEN m = EntryLength ELSE m = 0
    <3> DEFINE g == SetMark(f, m)
               h == In(g, "READ_SETTINGS")
    <3>2. m \in Marks BY DEF Marks
    <3>3. /\ DOMAIN g = Fields /\ g.hd = f.hd /\ g.payloadleft = f.payloadleft
          /\ g.sbuf = <<>> /\ g.mark = m /\ Basic(g)
      BY <3>2, SetMarkIs
    <3> HIDE DEF g
    <3>4. /\ h.state = "READ_SETTINGS" /\ h.hd = f.hd /\ h.payloadleft = f.payloadleft
          /\ h.sbuf = <<>> /\ h.mark = m /\ Basic(h)
      BY <3>3, InIs
    <3> HIDE DEF h
    <3>5. Len(h.sbuf) = 0 BY <3>4, NothingIsSeq
    <3>6. f.payloadleft > 0 => \E j \in Nat \ {0} : f.payloadleft = j * EntryLength
      <4> SUFFICES ASSUME f.payloadleft > 0 PROVE \E j \in Nat \ {0} : f.payloadleft = j * EntryLength
        OBVIOUS
      <4>1. f.payloadleft % EntryLength = 0 BY <1>5 DEF SizeAllowed
      <4> DEFINE j == f.payloadleft \div EntryLength
      <4>2. f.payloadleft = j * EntryLength /\ j \in Nat BY <1>2, <4>1, Lengths
      <4>3. j # 0 BY <1>2, <4>2, Lengths
      <4> QED BY <4>2, <4>3
    <3>7. \/ h.mark = 0 /\ h.payloadleft = 0
          \/ /\ h.mark = EntryLength /\ Len(h.sbuf) < EntryLength
             /\ \E j \in Nat \ {0} : h.payloadleft + Len(h.sbuf) = j * EntryLength
      <4>1. CASE f.payloadleft > 0
        <5>1. PICK j \in Nat \ {0} : f.payloadleft = j * EntryLength BY <3>6, <4>1
        <5>2. h.payloadleft + Len(h.sbuf) = j * EntryLength BY <1>2, <3>4, <3>5, <5>1
        <5>3. h.mark = EntryLength BY <3>1, <3>4, <4>1
        <5>4. Len(h.sbuf) < EntryLength BY <3>5, Lengths
        <5> QED BY <5>2, <5>3, <5>4
      <4>2. CASE ~(f.payloadleft > 0) BY <1>2, <3>1, <3>4, <4>2
      <4> QED BY <4>1, <4>2
    <3>8. FrameOK(h) BY <3>4, <3>7, SettingsFrame
    <3>9. ~PadNext(h) BY <3>4 DEF PadNext
    <3>10. SpotOK(sent, at + n, h, s.goaway) BY <1>1, <1>3, <3>4, <3>9, HeadReadSpot
    <3> QED BY <3>3, <3>8, <3>10 DEF g, h
  <2>2. CASE f.payloadleft > 0
    <3>1. Continues(SetMark(f, EntryLength), "READ_SETTINGS", n, FALSE) BY <1>5, <2>2 DEF HeadOfSettings
    <3>2. /\ DOMAIN SetMark(f, EntryLength) = Fields /\ FrameOK(In(SetMark(f, EntryLength), "READ_SETTINGS"))
          /\ SpotOK(sent, at + n, In(SetMark(f, EntryLength), "READ_SETTINGS"), s.goaway)
      BY <2>1, <2>2
    <3> QED BY <1>1, <1>3, <3>1, <3>2, ContinuesKeeps
  <2>3. CASE ~(f.payloadleft > 0)
    <3>1. Continues(SetMark(f, 0), "READ_SETTINGS", n, TRUE) BY <1>5, <2>3 DEF HeadOfSettings
    <3>2. /\ DOMAIN SetMark(f, 0) = Fields /\ FrameOK(In(SetMark(f, 0), "READ_SETTINGS"))
          /\ SpotOK(sent, at + n, In(SetMark(f, 0), "READ_SETTINGS"), s.goaway)
      BY <2>1, <2>3
    <3> QED BY <1>1, <1>3, <3>1, <3>2, ContinuesKeeps
  <2> QED BY <2>2, <2>3
<1> QED BY <1>4, <1>5

\* The type of the frame decides.
LEMMA DispatchKeeps ==
  ASSUME IInv, calling, iframe.state \in {"READ_HEAD", "READ_FIRST_SETTINGS"}, NEW n \in Nat,
         at + n <= last, NEW k, NEW hd, HeadRead(sent, k, at + n, hd),
         s.goaway = "none" => charged = ContentSize(sent.frames, at + n),
         Dispatch(hd, n), charged' = charged
  PROVE  IInv'
<1> DEFINE f == [iframe EXCEPT !.hd = hd, !.payloadleft = hd.length, !.sbuf = <<>>]
<1>1. sent \in Inputs /\ at + n \in Nat /\ charged' \in Nat /\ charged' <= at + n BY DEF IInv
<1>2. Basic(iframe) /\ iframe.padlen = 0
  <2>1. FrameOK(iframe) BY DEF IInv
  <2> QED BY <2>1, FrameIsBasic DEF FrameOK, InHead
<1>3. HeadOK(hd) BY DEF HeadRead
<1>4. Basic(f) /\ f.hd = hd /\ f.payloadleft = hd.length /\ f.padlen = 0 BY <1>2, <1>3, HeadTaken
<1>5. /\ hd.length > MaxFrameSize => Fails(f, "IGN_PAYLOAD", n)
      /\ ~(hd.length > MaxFrameSize) =>
           /\ hd.type = "DATA" => HeadOfData(f, n)
           /\ hd.type \in {"HEADERS", "PUSH_PROMISE"} => HeadOfHeaders(f, n)
           /\ hd.type = "SETTINGS" => HeadOfSettings(f, n)
           /\ hd.type \in {"PRIORITY", "RST_STREAM", "WINDOW_UPDATE", "PING", "GOAWAY"} =>
                IF ~SizeAllowed(hd) THEN Continues(f, "FRAME_SIZE_ERROR", n, TRUE)
                ELSE Continues(SetMark(f, FixedPart(hd.type)), "READ_NBYTE", n, FALSE)
           /\ hd.type = "CONTINUATION" => Fails(f, "IGN_PAYLOAD", n)
           /\ hd.type \notin {"DATA", "HEADERS", "PUSH_PROMISE", "SETTINGS", "PRIORITY", "RST_STREAM",
                              "WINDOW_UPDATE", "PING", "GOAWAY", "CONTINUATION"} =>
                Continues(f, "IGN_PAYLOAD", n, TRUE)
  BY DEF Dispatch
<1> HIDE DEF f
<1>6. DOMAIN f = Fields /\ f.payloadleft \in Nat BY <1>4 DEF Basic
<1>7. {"IGN_PAYLOAD", "FRAME_SIZE_ERROR", "READ_NBYTE"} \subseteq (InPayload \ InData) \ Heard
  BY DEF InPayload, InData, States, InHead, Heard
<1>8. \A state \in {"IGN_PAYLOAD", "FRAME_SIZE_ERROR"} : \A g : hd.type # "DATA" \/ g # "none" =>
        /\ FrameOK(In(f, state)) /\ SpotOK(sent, at + n, In(f, state), g)
  <2> TAKE state \in {"IGN_PAYLOAD", "FRAME_SIZE_ERROR"}
  <2> TAKE g
  <2>0. HAVE hd.type # "DATA" \/ g # "none"
  <2>1. /\ In(f, state).state = state /\ In(f, state).payloadleft = hd.length /\ Basic(In(f, state))
    BY <1>4, <1>6, InIs
  <2>2. FrameOK(In(f, state)) /\ ~PadNext(In(f, state)) BY <2>1, PlainFrame DEF Plain
  <2>3. SpotOK(sent, at + n, In(f, state), g) BY <1>1, <1>7, <2>0, <2>1, <2>2, HeadReadSpot
  <2> QED BY <2>2, <2>3
<1>9. CASE hd.length > MaxFrameSize \/ hd.type = "CONTINUATION"
  <2>1. Fails(f, "IGN_PAYLOAD", n) BY <1>5, <1>9
  <2> QED BY <1>1, <1>6, <1>7, <1>8, <2>1, FailsKeeps
<1>10. CASE ~(hd.length > MaxFrameSize) /\ hd.type = "DATA"
  <2>1. HeadOfData(f, n) BY <1>5, <1>10
  <2> QED BY <1>4, <1>10, <2>1, HeadOfDataKeeps
<1>11. CASE ~(hd.length > MaxFrameSize) /\ hd.type \in {"HEADERS", "PUSH_PROMISE"}
  <2>1. HeadOfHeaders(f, n) BY <1>5, <1>11
  <2> QED BY <1>4, <1>11, <2>1, HeadOfHeadersKeeps
<1>12. CASE ~(hd.length > MaxFrameSize) /\ hd.type = "SETTINGS"
  <2>1. HeadOfSettings(f, n) BY <1>5, <1>12
  <2> QED BY <1>4, <1>12, <2>1, HeadOfSettingsKeeps
<1>13. CASE /\ ~(hd.length > MaxFrameSize)
            /\ hd.type \in {"PRIORITY", "RST_STREAM", "WINDOW_UPDATE", "PING", "GOAWAY"}
  <2>1. CASE ~SizeAllowed(hd)
    <3>1. Continues(f, "FRAME_SIZE_ERROR", n, TRUE) BY <1>5, <1>13, <2>1
    <3>2. hd.type # "DATA" BY <1>13
    <3> QED BY <1>1, <1>6, <1>7, <1>8, <3>1, <3>2, ContinuesKeeps
  <2>2. CASE SizeAllowed(hd)
    <3> DEFINE m == FixedPart(hd.type)
               g == SetMark(f, m)
               h == In(g, "READ_NBYTE")
    <3>1. Continues(g, "READ_NBYTE", n, FALSE) BY <1>5, <1>13, <2>2
    <3>2. m \in Marks \ {0} /\ m \in Nat /\ m <= hd.length /\ (hd.type # "GOAWAY" => m = hd.length)
      <4>1. hd.length \in Nat BY <1>3 DEF HeadOK
      <4>2. CASE hd.type = "PRIORITY"
        <5>1. m = PriorityLength /\ hd.length = PriorityLength BY <2>2, <4>2 DEF FixedPart, SizeAllowed
        <5> QED BY <5>1, Lengths DEF Marks
      <4>3. CASE hd.type \in {"RST_STREAM", "WINDOW_UPDATE"}
        <5>1. m = WordLength /\ hd.length = WordLength BY <2>2, <4>3 DEF FixedPart, SizeAllowed
        <5> QED BY <5>1, Lengths DEF Marks
      <4>4. CASE hd.type \in {"PING", "GOAWAY"}
        <5>1. m = 2 * WordLength BY <4>4 DEF FixedPart
        <5>2. hd.length >= 2 * WordLength /\ (hd.type # "GOAWAY" => hd.length = 2 * WordLength)
          <6>1. CASE hd.type = "PING"
            <7>1. hd.length = 2 * WordLength BY <2>2, <6>1 DEF SizeAllowed
            <7> QED BY <7>1, Lengths
          <6>2. CASE hd.type = "GOAWAY" BY <2>2, <6>2 DEF SizeAllowed
          <6> QED BY <4>4, <6>1, <6>2
        <5> QED BY <4>1, <5>1, <5>2, Lengths DEF Marks
      <4> QED BY <1>13, <4>2, <4>3, <4>4
    <3> HIDE DEF m
    <3>3. /\ DOMAIN g = Fields /\ g.hd = hd /\ g.payloadleft = hd.length
          /\ g.sbuf = <<>> /\ g.mark = m /\ Basic(g)
      BY <1>4, <3>2, SetMarkIs
    <3> HIDE DEF g
    <3>4. /\ h.state = "READ_NBYTE" /\ h.hd = hd /\ h.payloadleft = hd.length
          /\ h.sbuf = <<>> /\ h.mark = m /\ Basic(h)
      BY <3>3, InIs
    <3> HIDE DEF h
    <3>5. Len(h.sbuf) = 0 /\ hd.type \notin {"HEADERS", "PUSH_PROMISE"} BY <1>13, <3>4, NothingIsSeq
    <3>6. hd.type # "DATA" BY <1>13
    <3>7. Len(h.sbuf) < h.mark /\ h.mark - Len(h.sbuf) <= h.payloadleft
          /\ (hd.type # "GOAWAY" => h.mark - Len(h.sbuf) = h.payloadleft)
      BY <3>2, <3>4, <3>5
    <3>8. FrameOK(h) BY <1>13, <3>4, <3>5, <3>7, NbyteFrame
    <3>9. ~PadNext(h) BY <3>4, <3>5 DEF PadNext
    <3>10. SpotOK(sent, at + n, h, s.goaway) BY <1>1, <1>7, <3>4, <3>6, <3>9, HeadReadSpot
    <3> QED BY <1>1, <1>7, <3>1, <3>3, <3>8, <3>10, ContinuesKeeps DEF h
  <2> QED BY <2>1, <2>2
<1>14. CASE /\ ~(hd.length > MaxFrameSize)
            /\ hd.type \notin {"DATA", "HEADERS", "PUSH_PROMISE", "SETTINGS", "PRIORITY", "RST_STREAM",
                               "WINDOW_UPDATE", "PING", "GOAWAY", "CONTINUATION"}
  <2>1. Continues(f, "IGN_PAYLOAD", n, TRUE) BY <1>5, <1>14
  <2>2. hd.type # "DATA" BY <1>14
  <2> QED BY <1>1, <1>6, <1>7, <1>8, <2>1, <2>2, ContinuesKeeps
<1> QED BY <1>9, <1>10, <1>11, <1>12, <1>13, <1>14

\* What a pass that fills the buffer takes.
LEMMA FilledIs ==
  ASSUME IInv
  PROVE  /\ BufReadLen \in Nat /\ at + BufReadLen <= last /\ BufReadLen <= iframe.mark - Len(iframe.sbuf)
         /\ Incomplete <=> Len(Filled.sbuf) < iframe.mark
         /\ ~Incomplete => BufReadLen = iframe.mark - Len(iframe.sbuf) /\ Len(Filled.sbuf) = iframe.mark
         /\ Basic(Filled) /\ Filled.state = iframe.state /\ Filled.hd = iframe.hd
         /\ Filled.payloadleft = iframe.payloadleft /\ Filled.padlen = iframe.padlen
         /\ Filled.mark = iframe.mark /\ Filled.sbuf = iframe.sbuf \o SubSeq(wire, at + 1, at + BufReadLen)
         /\ Len(Filled.sbuf) = Len(iframe.sbuf) + BufReadLen /\ Len(iframe.sbuf) \in Nat
<1> DEFINE n == BufReadLen
           x == iframe.sbuf
           y == SubSeq(wire, at + 1, at + n)
<1>1. Basic(iframe) /\ at \in Nat /\ last \in Nat /\ at <= last
  <2>1. FrameOK(iframe) BY DEF IInv
  <2> QED BY <2>1, FrameIsBasic DEF IInv
<1>2. iframe.mark \in Nat /\ Len(x) \in Nat /\ Len(x) <= iframe.mark
  BY <1>1, Lengths DEF Basic, Marks, IsSeq
<1>3. n \in Nat /\ at + n <= last /\ n <= iframe.mark - Len(x)
      /\ (Incomplete <=> Len(x) + n < iframe.mark) /\ (~Incomplete => n = iframe.mark - Len(x))
  BY <1>1, <1>2 DEF BufReadLen, Least, Incomplete
<1> HIDE DEF n
<1>4. IsSeq(y) /\ Len(y) = n BY <1>1, <1>3, PieceOf
<1>5. /\ DOMAIN Filled = Fields /\ Filled.state = iframe.state /\ Filled.hd = iframe.hd
      /\ Filled.payloadleft = iframe.payloadleft /\ Filled.padlen = iframe.padlen
      /\ Filled.mark = iframe.mark /\ Filled.sbuf = x \o y
  BY <1>1 DEF Filled, Taken, Basic, Fields, n
<1> HIDE DEF x, y
<1>6. IsSeq(x) BY <1>1 DEF Basic, x
<1>7. IsSeq(x \o y) /\ Len(x \o y) = Len(x) + Len(y) BY <1>4, <1>6, Joined
<1>8. Len(Filled.sbuf) = Len(x) + n /\ IsSeq(Filled.sbuf) BY <1>4, <1>5, <1>7
<1>9. Len(Filled.sbuf) <= Filled.mark BY <1>2, <1>3, <1>5, <1>8 DEF x
<1>10. Basic(Filled) BY <1>1, <1>5, <1>8, <1>9 DEF Basic
<1>11. Incomplete <=> Len(Filled.sbuf) < iframe.mark BY <1>3, <1>8 DEF x
<1>12. ~Incomplete => Len(Filled.sbuf) = iframe.mark BY <1>2, <1>3, <1>8 DEF x
<1> QED BY <1>2, <1>3, <1>5, <1>8, <1>10, <1>11, <1>12 DEF n, x, y

\* Bytes of a head are not content.
LEMMA HeadFilled ==
  ASSUME IInv, calling, iframe.state \in InHead
  PROVE  \E k \in 0..Len(sent.frames) :
           /\ Ahead(sent, k, at + BufReadLen, Filled.sbuf)
           /\ s.goaway = "none" => charged = ContentSize(sent.frames, at + BufReadLen)
<1> DEFINE n == BufReadLen
           sbuf == Filled.sbuf
<1>1. /\ n \in Nat /\ at + n <= last /\ n <= iframe.mark - Len(iframe.sbuf)
      /\ sbuf = iframe.sbuf \o SubSeq(wire, at + 1, at + n) /\ Len(iframe.sbuf) \in Nat
  BY FilledIs
<1>2. /\ FrameOK(iframe) /\ SpotOK(sent, at, iframe, s.goaway) /\ sent \in Inputs /\ wire = Wire(sent)
      /\ at \in Nat /\ last \in Nat /\ last <= Len(wire)
      /\ s.goaway = "none" => charged = ContentSize(sent.frames, at)
  BY DEF IInv, Reads
<1>3. iframe.mark = HeadLength /\ IsSeq(iframe.sbuf) BY <1>2 DEF FrameOK, BufferOK
<1> HIDE DEF n, sbuf
<1>4. Len(Wire(sent)) \in Nat BY <1>2, WireIs DEF IsSeq
<1>5. Len(iframe.sbuf) + n <= HeadLength /\ at + n <= Len(Wire(sent)) BY <1>1, <1>2, <1>3, <1>4, Lengths
<1>6. sbuf = iframe.sbuf \o SubSeq(Wire(sent), at + 1, at + n) BY <1>1, <1>2
<1>7. PICK k \in 0..Len(sent.frames) :
        /\ Ahead(sent, k, at + n, sbuf)
        /\ EndAt(sent.frames, k) \in Nat /\ EndAt(sent.frames, k) <= at
        /\ at + n <= EndAt(sent.frames, k) + HeadLength
  BY <1>1, <1>2, <1>3, <1>5, <1>6, SpotInHead
<1>8. ContentSize(sent.frames, at + n) = ContentSize(sent.frames, at) BY <1>1, <1>2, <1>7, HeadContent
<1> QED BY <1>2, <1>7, <1>8 DEF n, sbuf

\* A head that has arrived as a whole.
LEMMA HeadArrived ==
  ASSUME IInv, calling, iframe.state \in InHead, ~Incomplete
  PROVE  \E k : /\ HeadRead(sent, k, at + BufReadLen, UnpackHead(Filled.sbuf))
                /\ s.goaway = "none" => charged = ContentSize(sent.frames, at + BufReadLen)
<1> DEFINE n == BufReadLen
           sbuf == Filled.sbuf
<1>1. n \in Nat /\ at + n <= last /\ Len(sbuf) = iframe.mark BY FilledIs
<1>2. /\ FrameOK(iframe) /\ sent \in Inputs /\ wire = Wire(sent)
      /\ at \in Nat /\ last \in Nat /\ last <= Len(wire)
  BY DEF IInv
<1>3. iframe.mark = HeadLength BY <1>2 DEF FrameOK, BufferOK
<1>4. PICK k \in 0..Len(sent.frames) :
        /\ Ahead(sent, k, at + n, sbuf)
        /\ s.goaway = "none" => charged = ContentSize(sent.frames, at + n)
  BY HeadFilled
<1> HIDE DEF n, sbuf
<1>5. Len(Wire(sent)) \in Nat /\ Len(sent.frames) \in Nat BY <1>2, WireIs, InputOK DEF IsSeq
<1>6. at + n \in Nat /\ at + n <= Len(Wire(sent)) /\ k \in Nat BY <1>1, <1>2, <1>5
<1>7. HeadRead(sent, k, at + n, UnpackHead(sbuf))
  BY <1>1, <1>2, <1>3, <1>4, <1>6, HeadComplete DEF HeadRead
<1> QED BY <1>4, <1>7 DEF n, sbuf

\* The head is not there as a whole.
LEMMA WaitKeeps ==
  ASSUME IInv, calling, iframe.state \in InHead, Incomplete, Wait, charged' = charged
  PROVE  IInv'
<1> DEFINE n == BufReadLen
<1>1. /\ n \in Nat /\ at + n <= last /\ Len(Filled.sbuf) < iframe.mark
      /\ Basic(Filled) /\ Filled.state = iframe.state /\ Filled.hd = iframe.hd
      /\ Filled.padlen = iframe.padlen /\ Filled.mark = iframe.mark
  BY FilledIs
<1>2. FrameOK(iframe) /\ SessionOK(s) BY DEF IInv
<1>3. PICK k \in 0..Len(sent.frames) :
        /\ Ahead(sent, k, at + n, Filled.sbuf)
        /\ s.goaway = "none" => charged = ContentSize(sent.frames, at + n)
  BY HeadFilled
<1>4. iframe' = Filled /\ s' = s /\ request' = request /\ Pass(n, FALSE) BY DEF Wait
<1>5. FrameOK(Filled) /\ ~PadNext(Filled)
  <2>1. /\ iframe.mark = HeadLength /\ iframe.padlen = 0
        /\ iframe.state \in InBlock => iframe.hd.type \in {"HEADERS", "PUSH_PROMISE"}
    BY <1>2 DEF FrameOK, BufferOK
  <2> QED BY <1>1, <2>1, HeadFrame
<1>6. SpotOK(sent, at + n, Filled, s.goaway)
  <2>1. Filled.state \in InHead /\ Filled.state \notin InPayload /\ Filled.state # "READ_CLIENT_MAGIC"
        /\ Filled.state # "IGN_ALL"
    BY <1>1 DEF InPayload, InHead
  <2> QED BY <1>3, <1>5, <2>1 DEF SpotOK
<1>7. Filled.state \in Heard => Filled.hd.stream \in s.live \ s.closing BY <1>1 DEF IInv
<1> HIDE DEF n
<1>8. Reads(sent, at + n, iframe', s', charged') BY <1>2, <1>3, <1>4, <1>5, <1>6, <1>7 DEF Reads
<1>9. Onward(s, s') /\ request' \in BOOLEAN /\ charged' \in Nat /\ charged' <= at + n
  BY <1>1, <1>4 DEF Onward, IInv, n
<1> QED BY <1>1, <1>4, <1>8, <1>9, PassKeeps DEF n

\* READ_FIRST_SETTINGS and READ_HEAD.
LEMMA ReadHeadKeeps == IInv /\ ReadHead => IInv'
<1> SUFFICES ASSUME IInv, ReadHead PROVE IInv' OBVIOUS
<1> DEFINE n == BufReadLen
           hd == UnpackHead(Filled.sbuf)
<1>1. calling /\ iframe.state \in {"READ_HEAD", "READ_FIRST_SETTINGS"} /\ charged' = charged BY DEF ReadHead
<1>2. iframe.state \in InHead BY <1>1 DEF InHead
<1>3. n \in Nat /\ at + n <= last /\ Basic(Filled) BY FilledIs
<1>4. CASE Incomplete
  <2>1. Wait BY <1>4 DEF ReadHead
  <2> QED BY <1>1, <1>2, <1>4, <2>1, WaitKeeps
<1>5. CASE ~Incomplete /\ iframe.state = "READ_FIRST_SETTINGS" /\ (hd.type # "SETTINGS" \/ "ACK" \in hd.flags)
  <2>1. s' = Terminate(s) /\ iframe' = In(Filled, "IGN_ALL") /\ Drop /\ request' = request
    BY <1>5 DEF ReadHead
  <2>2. SessionOK(s) BY DEF IInv
  <2>3. SessionOK(s') /\ s'.goaway # "none" /\ Onward(s, s') BY <2>1, <2>2, TerminateOK
  <2>4. DOMAIN Filled = Fields BY <1>3 DEF Basic
  <2>5. iframe'.state = "IGN_ALL" /\ Basic(iframe') BY <1>3, <2>1, <2>4, InIs
  <2>6. FrameOK(iframe') /\ ~PadNext(iframe') BY <2>5, PlainFrame DEF Plain
  <2>7. SpotOK(sent, last, iframe', s'.goaway) BY <2>3, <2>5, <2>6 DEF SpotOK, InHead, InPayload
  <2>8. iframe'.state \notin Heard BY <2>5 DEF Heard
  <2>9. Reads(sent, last, iframe', s', charged') BY <2>3, <2>6, <2>7, <2>8 DEF Reads
  <2>10. at' = last /\ calling' = FALSE /\ sent' = sent /\ wire' = wire /\ last' = last BY <2>1 DEF Drop
  <2>11. charged' \in Nat /\ charged' <= at' BY <1>1, <2>10 DEF IInv
  <2>12. Reads(sent', at', iframe', s', charged') BY <2>9, <2>10
  <2>13. sent' \in Inputs /\ wire' = Wire(sent') /\ request' \in BOOLEAN BY <2>1, <2>10 DEF IInv
  <2>14. at' \in Nat /\ last' \in Nat /\ at' <= last' /\ last' <= Len(wire') BY <2>10 DEF IInv
  <2>15. calling' \in BOOLEAN /\ ~calling' BY <2>10
  <2> QED BY <2>3, <2>6, <2>8, <2>11, <2>12, <2>13, <2>14, <2>15 DEF IInv
<1>6. CASE ~Incomplete /\ ~(iframe.state = "READ_FIRST_SETTINGS" /\ (hd.type # "SETTINGS" \/ "ACK" \in hd.flags))
  <2>1. Dispatch(hd, n) BY <1>6 DEF ReadHead
  <2>2. PICK k : /\ HeadRead(sent, k, at + n, hd)
                 /\ s.goaway = "none" => charged = ContentSize(sent.frames, at + n)
    BY <1>1, <1>2, <1>6, HeadArrived
  <2> QED BY <1>1, <1>3, <2>1, <2>2, DispatchKeeps
<1> QED BY <1>4, <1>5, <1>6

\* The head of a CONTINUATION, or of what comes instead.
LEMMA ReadContinuationKeeps == IInv /\ ReadContinuation => IInv'
<1> SUFFICES ASSUME IInv, ReadContinuation PROVE IInv' OBVIOUS
<1> DEFINE n == BufReadLen
           cont == UnpackHead(Filled.sbuf)
           f == [Filled EXCEPT !.payloadleft = cont.length]
           g == [f EXCEPT !.hd.flags = @ \cup (cont.flags \cap {"END_HEADERS"}),
                          !.hd.length = @ + cont.length]
<1>1. calling /\ iframe.state \in {"EXPECT_CONTINUATION", "IGN_CONTINUATION"} /\ charged' = charged
  BY DEF ReadContinuation
<1>2. iframe.state \in InHead /\ iframe.state \in InBlock BY <1>1 DEF InHead, InBlock
<1>3. /\ n \in Nat /\ at + n <= last /\ Basic(Filled) /\ Filled.state = iframe.state
      /\ Filled.hd = iframe.hd
  BY FilledIs
<1>4. CASE Incomplete
  <2>1. Wait BY <1>4 DEF ReadContinuation
  <2> QED BY <1>1, <1>2, <1>4, <2>1, WaitKeeps
<1>5. CASE ~Incomplete
  <2>1. PICK k : /\ HeadRead(sent, k, at + n, cont)
                 /\ s.goaway = "none" => charged = ContentSize(sent.frames, at + n)
    BY <1>1, <1>2, <1>5, HeadArrived
  <2>2. sent \in Inputs /\ at + n \in Nat /\ charged' \in Nat /\ charged' <= at + n /\ FrameOK(iframe)
    BY <1>1, <1>3 DEF IInv
  <2>3. cont.length \in Nat BY <2>1 DEF HeadRead, HeadOK
  <2>4. IF cont.type # "CONTINUATION" \/ cont.stream # iframe.hd.stream THEN Fails(f, "IGN_PAYLOAD", n)
        ELSE Continues(g, Resumed(f.state), n, TRUE)
    BY <1>5 DEF ReadContinuation
  <2> HIDE DEF n, cont
  <2>5. f.state = iframe.state /\ f.hd = iframe.hd /\ f.payloadleft = cont.length /\ Basic(f)
    BY <1>3, <2>3, LeftIs
  <2> HIDE DEF f
  <2>6. DOMAIN f = Fields BY <2>5 DEF Basic
  <2>7. {"IGN_PAYLOAD", "READ_HEADER_BLOCK", "IGN_HEADER_BLOCK"} \subseteq InPayload \ InData
    BY DEF InPayload, InData, States, InHead
  <2>8. CASE cont.type # "CONTINUATION" \/ cont.stream # iframe.hd.stream
    <3> DEFINE h == In(f, "IGN_PAYLOAD")
    <3>1. h.state = "IGN_PAYLOAD" /\ h.payloadleft = cont.length /\ Basic(h) BY <2>5, <2>6, InIs
    <3> HIDE DEF h
    <3>2. FrameOK(h) /\ ~PadNext(h) BY <3>1, PlainFrame DEF Plain
    <3>3. SpotOK(sent, at + n, h, "queued") BY <2>1, <2>2, <2>7, <3>1, <3>2, HeadReadSpot
    <3>4. "IGN_PAYLOAD" \notin Heard BY DEF Heard
    <3>5. Fails(f, "IGN_PAYLOAD", n) BY <2>4, <2>8
    <3> QED BY <1>1, <1>3, <2>2, <2>6, <3>2, <3>3, <3>4, <3>5, FailsKeeps DEF h
  <2>9. CASE ~(cont.type # "CONTINUATION" \/ cont.stream # iframe.hd.stream)
    <3> DEFINE state == Resumed(f.state)
               h == In(g, state)
    <3>1. iframe.hd.type \in {"HEADERS", "PUSH_PROMISE"} /\ HeadOK(iframe.hd) BY <1>2, <2>2 DEF FrameOK
    <3>2. /\ DOMAIN g = Fields /\ g.state = iframe.state /\ g.payloadleft = cont.length
          /\ g.padlen = f.padlen /\ g.sbuf = f.sbuf /\ g.mark = f.mark
          /\ DOMAIN g.hd = {"type", "flags", "stream", "length"}
          /\ g.hd.type = iframe.hd.type /\ g.hd.stream = iframe.hd.stream
          /\ g.hd.length = iframe.hd.length + cont.length
      BY <2>5, <2>6, <3>1 DEF Fields, HeadOK
    <3> HIDE DEF g
    <3>3. HeadOK(g.hd) BY <2>3, <3>1, <3>2 DEF HeadOK
    <3>4. Basic(g) BY <2>3, <2>5, <3>2, <3>3 DEF Basic
    <3>5. /\ state \in {"READ_HEADER_BLOCK", "IGN_HEADER_BLOCK"}
          /\ state = "READ_HEADER_BLOCK" => iframe.state = "EXPECT_CONTINUATION"
      BY <2>5 DEF Resumed
    <3> HIDE DEF state
    <3>6. h.state = state /\ h.payloadleft = cont.length /\ Basic(h) /\ h.hd = g.hd BY <3>2, <3>4, InIs
    <3> HIDE DEF h
    <3>7. FrameOK(h) /\ ~PadNext(h)
      <4>1. h.state \in Plain BY <3>5, <3>6 DEF Plain
      <4> QED BY <3>1, <3>2, <3>6, <4>1, PlainFrame
    <3>8. SpotOK(sent, at + n, h, s.goaway)
      <4>1. h.state \in InPayload /\ h.state \notin InData BY <2>7, <3>5, <3>6
      <4>2. cont.type # "DATA" BY <2>9
      <4> QED BY <2>1, <2>2, <3>6, <3>7, <4>1, <4>2, HeadReadSpot
    <3>9. state \in Heard => g.hd.stream \in s.live \ s.closing
      <4>1. state \in Heard => iframe.state \in Heard BY <3>5 DEF Heard
      <4> QED BY <3>2, <4>1 DEF IInv
    <3>10. Continues(g, state, n, TRUE) BY <2>4, <2>9 DEF state
    <3> QED BY <1>1, <1>3, <2>1, <2>2, <3>2, <3>7, <3>8, <3>9, <3>10, ContinuesKeeps DEF h
  <2> QED BY <2>8, <2>9
<1> QED BY <1>4, <1>5

-----------------------------------------------------------------------------
(* Payloads.                                                                *)

\* What the windows have been charged with when n more bytes of a payload are read.
LEMMA ChargeKept ==
  ASSUME IInv, calling, iframe.state \in InPayload, NEW n \in Nat, n <= iframe.payloadleft,
         s.goaway = "none"
  PROVE  ContentSize(sent.frames, at + n) = charged + (IF iframe.state \in InData THEN n ELSE 0)
<1>1. /\ SpotOK(sent, at, iframe, "none") /\ sent \in Inputs /\ at \in Nat
      /\ charged = ContentSize(sent.frames, at) /\ iframe.payloadleft \in Nat
  BY DEF IInv, Reads, FrameOK
<1> QED BY <1>1, ChargeWithin

\* A pass that takes a part of what is left of the payload.
PayloadRead(n) == n \in Nat /\ at + n <= last /\ n <= iframe.payloadleft /\ iframe.payloadleft \in Nat

\* The pass takes no more than is left of the payload.
LEMMA PayloadTaken ==
  ASSUME IInv
  PROVE  PayloadRead(PayloadReadLen) /\ iframe.payloadleft - PayloadReadLen \in Nat
<1>1. at \in Nat /\ last \in Nat /\ at <= last /\ iframe.payloadleft \in Nat BY DEF IInv, FrameOK
<1> QED BY <1>1 DEF PayloadReadLen, Least, PayloadRead

\* The reader stays in the payload.
LEMMA StaysInside ==
  ASSUME IInv, calling, iframe.state \in InPayload, NEW n, PayloadRead(n), NEW busy \in BOOLEAN, Pass(n, busy),
         Basic(iframe'), iframe'.state \in Plain \ {"IGN_ALL"}, iframe'.payloadleft = iframe.payloadleft - n,
         iframe'.state \in {"READ_HEADER_BLOCK", "IGN_HEADER_BLOCK"} =>
              iframe'.hd.type \in {"HEADERS", "PUSH_PROMISE"},
         iframe'.state \in Heard => iframe'.hd.stream \in s'.live \ s'.closing,
         iframe'.state \in InData => iframe.state \in InData,
         iframe'.state \notin InData => iframe.state \notin InData \/ s'.goaway # "none",
         SessionOK(s'), Onward(s, s'), request' \in BOOLEAN,
         charged' = charged + (IF iframe.state \in InData THEN n ELSE 0)
  PROVE  IInv'
<1>1. /\ SpotOK(sent, at, iframe, s.goaway) /\ sent \in Inputs /\ at \in Nat /\ charged \in Nat
      /\ charged <= at
  BY DEF IInv, Reads
<1>2. n \in Nat /\ at + n <= last /\ n <= iframe.payloadleft /\ iframe.payloadleft \in Nat BY DEF PayloadRead
<1>3. FrameOK(iframe') /\ ~PadNext(iframe') BY PlainFrame
<1>4. iframe'.state \in InPayload BY DEF Plain, InPayload, States, InHead
<1>5. s.goaway # "none" => s'.goaway # "none" BY DEF Onward
<1>6. SpotOK(sent, at + n, iframe', s'.goaway) BY <1>1, <1>2, <1>3, <1>4, <1>5, SpotWithin
<1>7. s'.goaway = "none" => charged' = ContentSize(sent.frames, at + n) BY <1>2, <1>5, ChargeKept
<1>8. Reads(sent, at + n, iframe', s', charged') BY <1>3, <1>6, <1>7 DEF Reads
<1>9. charged' \in Nat /\ charged' <= at + n BY <1>1, <1>2
<1> QED BY <1>2, <1>8, <1>9, PassKeeps

\* The reader has read the payload.
LEMMA LeavesPayload ==
  ASSUME IInv, calling, iframe.state \in InPayload, NEW n, PayloadRead(n), n = iframe.payloadleft,
         NEW busy \in BOOLEAN, Pass(n, busy), iframe' = ResetFrame,
         SessionOK(s'), Onward(s, s'), request' \in BOOLEAN,
         charged' = charged + (IF iframe.state \in InData THEN n ELSE 0)
  PROVE  IInv'
<1>1. charged \in Nat /\ charged <= at /\ at \in Nat BY DEF IInv
<1>2. n \in Nat /\ at + n <= last BY DEF PayloadRead
<1>3. s.goaway # "none" => s'.goaway # "none" BY DEF Onward
<1>4. s'.goaway = "none" => charged' = ContentSize(sent.frames, at + n) BY <1>2, <1>3, ChargeKept
<1>5. charged' \in Nat /\ charged' <= at + n BY <1>1, <1>2
<1> QED BY <1>2, <1>4, <1>5, ResetKeeps

\* What is left of the payload, when nothing else of the inbound frame changes.
LEMMA LeftInside ==
  ASSUME IInv, iframe.state \in InPayload, NEW n, PayloadRead(n),
         iframe' = [iframe EXCEPT !.payloadleft = iframe.payloadleft - n]
  PROVE  /\ Basic(iframe') /\ iframe'.state = iframe.state /\ iframe'.payloadleft = iframe.payloadleft - n
         /\ iframe'.hd = iframe.hd
         /\ iframe'.state \in {"READ_HEADER_BLOCK", "IGN_HEADER_BLOCK"} =>
              iframe'.hd.type \in {"HEADERS", "PUSH_PROMISE"}
<1>1. FrameOK(iframe) BY DEF IInv
<1>2. iframe.payloadleft - n \in Nat BY DEF PayloadRead
<1>3. Basic(iframe) BY <1>1, FrameIsBasic
<1>4. /\ Basic(iframe') /\ iframe'.state = iframe.state /\ iframe'.payloadleft = iframe.payloadleft - n
      /\ iframe'.hd = iframe.hd
  BY <1>2, <1>3, LeftIs
<1>5. iframe.state \in {"READ_HEADER_BLOCK", "IGN_HEADER_BLOCK"} =>
        iframe.hd.type \in {"HEADERS", "PUSH_PROMISE"}
  BY <1>1 DEF FrameOK, InBlock
<1> QED BY <1>4, <1>5

\* READ_CLIENT_MAGIC: a reader that gets through it is at the head of the first frame.
LEMMA ReadClientMagicKeeps == IInv /\ ReadClientMagic => IInv'
<1> SUFFICES ASSUME IInv, ReadClientMagic PROVE IInv' OBVIOUS
<1> DEFINE n == PayloadReadLen
           left == iframe.payloadleft - n
           wrong == \E i \in 1..n : Taken(n)[i] # Byte("magic", TRUE)
<1>1. /\ calling /\ iframe.state = "READ_CLIENT_MAGIC" /\ s' = s /\ request' = request /\ charged' = charged
      /\ IF wrong THEN calling' = FALSE /\ UNCHANGED <<sent, wire, meaning, at, last, iframe>>
         ELSE /\ iframe' = IF left = 0 THEN In(ResetFrame, "READ_FIRST_SETTINGS")
                           ELSE [iframe EXCEPT !.payloadleft = left]
              /\ Pass(n, FALSE)
  BY DEF ReadClientMagic, InState, Stays
<1>2. n \in Nat /\ at + n <= last /\ n <= iframe.payloadleft /\ left \in Nat /\ iframe.payloadleft \in Nat
  BY PayloadTaken DEF PayloadRead
<1>3. /\ Reads(sent, at, iframe, s, charged) /\ sent \in Inputs /\ at \in Nat /\ charged \in Nat
      /\ charged <= at /\ request \in BOOLEAN
  BY <1>1 DEF IInv
<1>4. at + iframe.payloadleft = MagicLength BY <1>1, <1>3 DEF Reads, SpotOK
<1>5. s.goaway = "none" => charged' = ContentSize(sent.frames, at + n)
  <2>1. at + n <= MagicLength BY <1>2, <1>3, <1>4
  <2> QED BY <1>1, <1>2, <1>3, <2>1, MagicContent DEF Reads
<1>6. SessionOK(s') /\ Onward(s, s') /\ request' \in BOOLEAN /\ charged' \in Nat /\ charged' <= at + n
  BY <1>1, <1>2, <1>3 DEF Reads, Onward
<1> HIDE DEF n, wrong
<1>7. CASE wrong BY <1>1, <1>3, <1>7 DEF IInv
<1>8. CASE ~wrong /\ left = 0
  <2>1. iframe' = In(ResetFrame, "READ_FIRST_SETTINGS") /\ Pass(n, FALSE) BY <1>1, <1>8
  <2>2. /\ iframe'.state = "READ_FIRST_SETTINGS" /\ Basic(iframe') /\ iframe'.sbuf = <<>>
        /\ iframe'.mark = HeadLength /\ iframe'.padlen = 0
    BY <2>1, ResetIs, InIs DEF Basic
  <2>3. iframe'.state \in InHead /\ iframe'.state \notin InBlock /\ iframe'.state \notin Heard
        /\ iframe'.state \notin InPayload
    BY <2>2 DEF InHead, InBlock, Heard, InPayload
  <2>4. FrameOK(iframe') /\ ~PadNext(iframe') BY <2>2, <2>3, HeadFrame, NothingIsSeq, Lengths
  <2>5. SpotOK(sent, at + n, iframe', s'.goaway)
    <3>1. at + n = MagicLength BY <1>2, <1>3, <1>4, <1>8
    <3>2. Ahead(sent, 0, at + n, iframe'.sbuf) BY <2>2, <3>1, EndStep, NothingIsSeq, Lengths DEF Ahead
    <3>3. 0 \in 0..Len(sent.frames) BY <1>3, InputOK
    <3> QED BY <2>2, <2>3, <2>4, <3>2, <3>3 DEF SpotOK
  <2>6. Reads(sent, at + n, iframe', s', charged') BY <1>1, <1>5, <1>6, <2>3, <2>4, <2>5 DEF Reads
  <2> QED BY <1>1, <1>2, <1>6, <2>1, <2>6, PassKeeps
<1>9. CASE ~wrong /\ left # 0
  <2>1. iframe' = [iframe EXCEPT !.payloadleft = left] /\ Pass(n, FALSE) BY <1>1, <1>9
  <2>2. Basic(iframe) /\ FrameOK(iframe) BY <1>3, FrameIsBasic DEF Reads
  <2>3. /\ iframe'.state = "READ_CLIENT_MAGIC" /\ iframe'.hd = iframe.hd /\ iframe'.payloadleft = left
        /\ iframe'.padlen = iframe.padlen /\ Basic(iframe')
    BY <1>1, <1>2, <2>1, <2>2, LeftIs
  <2>4. iframe'.state \notin InHead \cup InBlock \cup Heard \cup InPayload /\ ~PadNext(iframe')
        /\ iframe'.state \in States
    BY <2>3 DEF InHead, InBlock, Heard, InPayload, PadNext, States
  <2>5. FrameOK(iframe')
    <3>1. iframe'.padlen = 0 BY <1>1, <2>2, <2>3 DEF FrameOK
    <3>2. BufferOK(iframe') BY <2>3, <2>4 DEF BufferOK, Basic
    <3> QED BY <2>3, <2>4, <3>1, <3>2 DEF FrameOK, Basic, Fields
  <2>6. at + n + left = MagicLength BY <1>2, <1>3, <1>4
  <2>7. SpotOK(sent, at + n, iframe', s'.goaway) BY <2>3, <2>4, <2>6 DEF SpotOK
  <2>8. Reads(sent, at + n, iframe', s', charged') BY <1>1, <1>5, <1>6, <2>4, <2>5, <2>7 DEF Reads
  <2> QED BY <1>1, <1>2, <1>6, <2>1, <2>8, PassKeeps
<1> QED BY <1>7, <1>8, <1>9

\* IGN_PAYLOAD.
LEMMA IgnPayloadKeeps == IInv /\ IgnPayload => IInv'
<1> SUFFICES ASSUME IInv, IgnPayload PROVE IInv' OBVIOUS
<1> DEFINE n == PayloadReadLen
           left == iframe.payloadleft - n
           bad == [s EXCEPT !.bad = TRUE]
<1>1. /\ calling /\ iframe.state = "IGN_PAYLOAD" /\ request' = request /\ charged' = charged /\ Pass(n, FALSE)
      /\ iframe' = IF left > 0 THEN [iframe EXCEPT !.payloadleft = left] ELSE ResetFrame
      /\ s' = s \/ s' = bad
  BY DEF IgnPayload, InState
<1>2. PayloadRead(n) /\ left \in Nat BY PayloadTaken
<1>3. SessionOK(s) /\ request' \in BOOLEAN /\ charged \in Nat BY <1>1 DEF IInv
<1>4. SessionOK(s') /\ Onward(s, s')
  <2>1. /\ DOMAIN bad = DOMAIN s /\ Alike(s, bad) /\ bad.goaway = s.goaway /\ bad.events = s.events
    BY <1>3 DEF Alike, SessionOK, Shape
  <2> HIDE DEF bad
  <2>2. Shape(bad) BY <1>3, <2>1 DEF Shape, SessionOK, Alike
  <2>3. \A id : Gone(s, id) => Gone(bad, id) BY <2>1 DEF Gone, Alike
  <2>4. SessionOK(bad) BY <1>3, <2>1, <2>2, <2>3, NothingTold
  <2> QED BY <1>1, <1>3, <2>1, <2>4 DEF Onward
<1>5. iframe.state \in InPayload \ (InData \cup Heard) /\ iframe.state \in Plain \ {"IGN_ALL"}
  BY <1>1 DEF InPayload, States, InHead, InData, Heard, Plain
<1>6. charged' = charged + (IF iframe.state \in InData THEN n ELSE 0) BY <1>1, <1>3, <1>5
<1> HIDE DEF n
<1>7. CASE left > 0
  <2>1. iframe' = [iframe EXCEPT !.payloadleft = left] BY <1>1, <1>7
  <2>2. /\ Basic(iframe') /\ iframe'.state = iframe.state /\ iframe'.payloadleft = iframe.payloadleft - n
        /\ iframe'.hd = iframe.hd
        /\ iframe'.state \in {"READ_HEADER_BLOCK", "IGN_HEADER_BLOCK"} =>
             iframe'.hd.type \in {"HEADERS", "PUSH_PROMISE"}
    BY <1>2, <1>5, <2>1, LeftInside
  <2> QED BY <1>1, <1>2, <1>3, <1>4, <1>5, <1>6, <2>2, StaysInside
<1>8. CASE ~(left > 0)
  <2>1. iframe' = ResetFrame /\ n = iframe.payloadleft BY <1>1, <1>2, <1>8 DEF PayloadRead
  <2> QED BY <1>1, <1>2, <1>3, <1>4, <1>5, <1>6, <2>1, LeavesPayload
<1> QED BY <1>7, <1>8

\* IGN_DATA: what is ignored of DATA is charged, too.
LEMMA IgnDataKeeps == IInv /\ IgnData => IInv'
<1> SUFFICES ASSUME IInv, IgnData PROVE IInv' OBVIOUS
<1> DEFINE n == PayloadReadLen
           left == iframe.payloadleft - n
<1>1. /\ calling /\ iframe.state = "IGN_DATA" /\ request' = request /\ charged' = charged + n /\ Pass(n, FALSE)
      /\ iframe' = IF left > 0 THEN [iframe EXCEPT !.payloadleft = left] ELSE ResetFrame
      /\ s' = s
  BY DEF IgnData, InState
<1>2. PayloadRead(n) /\ left \in Nat BY PayloadTaken
<1>3. SessionOK(s') /\ Onward(s, s') /\ request' \in BOOLEAN BY <1>1 DEF IInv, Onward
<1>4. iframe.state \in (InPayload \cap InData) \ Heard /\ iframe.state \in Plain \ {"IGN_ALL"}
  BY <1>1 DEF InPayload, States, InHead, InData, Heard, Plain
<1>5. charged' = charged + (IF iframe.state \in InData THEN n ELSE 0) BY <1>1, <1>4
<1> HIDE DEF n
<1>6. CASE left > 0
  <2>1. iframe' = [iframe EXCEPT !.payloadleft = left] BY <1>1, <1>6
  <2>2. /\ Basic(iframe') /\ iframe'.state = iframe.state /\ iframe'.payloadleft = iframe.payloadleft - n
        /\ iframe'.hd = iframe.hd
        /\ iframe'.state \in {"READ_HEADER_BLOCK", "IGN_HEADER_BLOCK"} =>
             iframe'.hd.type \in {"HEADERS", "PUSH_PROMISE"}
    BY <1>2, <1>4, <2>1, LeftInside
  <2> QED BY <1>1, <1>2, <1>3, <1>4, <1>5, <2>2, StaysInside
<1>7. CASE ~(left > 0)
  <2>1. iframe' = ResetFrame /\ n = iframe.payloadleft BY <1>1, <1>2, <1>7 DEF PayloadRead
  <2> QED BY <1>1, <1>2, <1>3, <1>4, <1>5, <2>1, LeavesPayload
<1> QED BY <1>6, <1>7

\* READ_GOAWAY_DEBUG: the rest of GOAWAY is read before the frame is processed.
LEMMA ReadGoawayDebugKeeps == IInv /\ ReadGoawayDebug => IInv'
<1> SUFFICES ASSUME IInv, ReadGoawayDebug PROVE IInv' OBVIOUS
<1> DEFINE n == PayloadReadLen
           left == iframe.payloadleft - n
           f == [iframe EXCEPT !.payloadleft = left]
<1>1. /\ calling /\ iframe.state = "READ_GOAWAY_DEBUG" /\ charged' = charged
      /\ IF left > 0 THEN Continues(f, iframe.state, n, FALSE)
         ELSE Processed(ProcessGoaway(s, iframe.hd), n)
  BY DEF ReadGoawayDebug, InState
<1>2. PayloadRead(n) /\ left \in Nat BY PayloadTaken
<1>3. SessionOK(s) /\ request \in BOOLEAN /\ charged \in Nat /\ FrameOK(iframe) BY DEF IInv
<1>4. iframe.state \in InPayload \ (InData \cup Heard) /\ iframe.state \in Plain \ {"IGN_ALL"}
      /\ iframe.state \notin {"READ_HEADER_BLOCK", "IGN_HEADER_BLOCK"}
  BY <1>1 DEF InPayload, States, InHead, InData, Heard, Plain
<1>5. charged' = charged + (IF iframe.state \in InData THEN n ELSE 0) BY <1>1, <1>3, <1>4
<1> HIDE DEF n
<1>6. CASE left > 0
  <2>1. iframe' = In(f, iframe.state) /\ Pass(n, FALSE) /\ s' = s /\ request' = request
    BY <1>1, <1>6 DEF Continues
  <2>2. Basic(f) /\ f.payloadleft = left BY <1>2, <1>3, FrameIsBasic, LeftIs
  <2> HIDE DEF f
  <2>3. Basic(iframe') /\ iframe'.state = iframe.state /\ iframe'.payloadleft = iframe.payloadleft - n
    BY <2>1, <2>2, InIs DEF Basic
  <2>4. SessionOK(s') /\ Onward(s, s') BY <1>3, <2>1 DEF Onward
  <2> QED BY <1>1, <1>2, <1>3, <1>4, <1>5, <2>1, <2>3, <2>4, StaysInside
<1>7. CASE ~(left > 0)
  <2>1. s' = ProcessGoaway(s, iframe.hd) /\ iframe' = ResetFrame /\ Pass(n, FALSE) /\ request' = request
    BY <1>1, <1>7 DEF Processed
  <2>2. n = iframe.payloadleft BY <1>2, <1>7 DEF PayloadRead
  <2>3. SessionOK(s') /\ Onward(s, s') BY <1>3, <2>1, ProcessGoawayOK
  <2> QED BY <1>1, <1>2, <1>3, <1>4, <1>5, <2>1, <2>2, <2>3, LeavesPayload
<1> QED BY <1>6, <1>7

\* The frame has a wrong length: its payload will be ignored.
LEMMA FrameSizeErrorKeeps == IInv /\ FrameSizeError => IInv'
<1> SUFFICES ASSUME IInv, FrameSizeError PROVE IInv' OBVIOUS
<1>1. /\ calling /\ iframe.state = "FRAME_SIZE_ERROR" /\ charged' = charged /\ request' = request
      /\ s' = Terminate(s) /\ iframe' = In(iframe, "IGN_PAYLOAD") /\ Pass(0, TRUE)
  BY DEF FrameSizeError, InState
<1>2. SessionOK(s) /\ request \in BOOLEAN /\ charged \in Nat /\ Basic(iframe) /\ iframe.payloadleft \in Nat
      /\ at \in Nat /\ at <= last
  <2>1. FrameOK(iframe) BY DEF IInv
  <2> QED BY <2>1, FrameIsBasic DEF IInv, Basic
<1>3. SessionOK(s') /\ Onward(s, s') BY <1>1, <1>2, TerminateOK
<1>4. Basic(iframe') /\ iframe'.state = "IGN_PAYLOAD" /\ iframe'.payloadleft = iframe.payloadleft - 0
  BY <1>1, <1>2, InIs DEF Basic
<1>5. iframe.state \in InPayload \ InData /\ "IGN_PAYLOAD" \in Plain \ (InData \cup Heard \cup {"IGN_ALL"})
  BY <1>1 DEF InPayload, States, InHead, InData, Heard, Plain
<1>6. PayloadRead(0) BY <1>2 DEF PayloadRead, IInv
<1>7. charged' = charged + (IF iframe.state \in InData THEN 0 ELSE 0) BY <1>1, <1>2
<1> QED BY <1>1, <1>2, <1>3, <1>4, <1>5, <1>6, <1>7, StaysInside

\* IGN_ALL drops the piece.
LEMMA IgnAllKeeps == IInv /\ IgnAll => IInv'
<1> SUFFICES ASSUME IInv, IgnAll PROVE IInv' OBVIOUS
<1>1. /\ calling /\ iframe.state = "IGN_ALL" /\ iframe' = iframe /\ s' = s /\ request' = request
      /\ charged' = charged /\ at' = last /\ ~calling' /\ calling' \in BOOLEAN /\ sent' = sent
      /\ wire' = wire /\ last' = last
  BY DEF IgnAll, InState, Drop, Stays
<1>2. /\ FrameOK(iframe) /\ SessionOK(s) /\ s.goaway # "none" /\ sent \in Inputs /\ wire = Wire(sent)
      /\ at \in Nat /\ last \in Nat /\ at <= last /\ last <= Len(wire) /\ charged \in Nat /\ charged <= at
      /\ request \in BOOLEAN
  BY <1>1 DEF IInv
<1>3. iframe.state \notin Heard /\ ~PadNext(iframe) /\ iframe.state \notin InHead \cup InPayload
  BY <1>1 DEF Heard, PadNext, InHead, InPayload
<1>4. SpotOK(sent, last, iframe, s.goaway) BY <1>1, <1>2, <1>3 DEF SpotOK
<1>5. Reads(sent, last, iframe, s, charged) BY <1>2, <1>3, <1>4 DEF Reads
<1>6. Reads(sent', at', iframe', s', charged') BY <1>1, <1>5
<1>7. charged' <= at' BY <1>1, <1>2
<1> QED BY <1>1, <1>2, <1>3, <1>6, <1>7 DEF IInv

\* The padding of a frame, and the bytes of a piece in front of it.
LEMMA ReadLenIs ==
  ASSUME NEW f, f.padlen \in Nat, NEW left \in Nat, NEW n \in Nat
  PROVE  /\ EffectiveReadLen(f, left, n) \in Int /\ EffectiveReadLen(f, left, n) <= n
         /\ \A m : m = (IF EffectiveReadLen(f, left, n) < 0 THEN 0 ELSE EffectiveReadLen(f, left, n)) =>
              m \in Nat /\ m <= n
<1> DEFINE r == EffectiveReadLen(f, left, n)
<1>1. TrailPadlen(f) \in Int BY DEF TrailPadlen
<1>2. r \in Int /\ r <= n BY <1>1 DEF EffectiveReadLen
<1> HIDE DEF r
<1>3. ASSUME NEW m, m = IF r < 0 THEN 0 ELSE r PROVE m \in Nat /\ m <= n BY <1>2, <1>3
<1> QED BY <1>2, <1>3 DEF r

\* A piece of a payload is a sequence.
LEMMA TakenIs ==
  ASSUME IInv, NEW m \in Nat
  PROVE  IsSeq(Taken(m)) /\ Len(Taken(m)) = m
<1>1. at \in Nat BY DEF IInv
<1>2. IsSeq(SubSeq(wire, at + 1, at + m)) /\ Len(SubSeq(wire, at + 1, at + m)) = m BY <1>1, PieceOf
<1> QED BY <1>2 DEF Taken

\* A piece of a header block: the inflater decodes what is not padding.
LEMMA HeaderBlockKeeps == IInv /\ HeaderBlock => IInv'
<1> SUFFICES ASSUME IInv, HeaderBlock PROVE IInv' OBVIOUS
<1> DEFINE n == PayloadReadLen
           left == iframe.payloadleft - n
           f == [iframe EXCEPT !.payloadleft = left]
           id == f.hd.stream
           take == (f.state = "READ_HEADER_BLOCK")
           read == EffectiveReadLen(iframe, left, n)
           m == IF read < 0 THEN 0 ELSE read
           final == /\ "END_HEADERS" \in f.hd.flags
                    /\ iframe.payloadleft - read = TrailPadlen(iframe)
           got == Inflate(s, id, Taken(m), final, take)
           decodes == read > 0 \/ (read = 0 /\ final)
           t == IF decodes THEN got.s ELSE s
<1>1. calling /\ iframe.state \in {"READ_HEADER_BLOCK", "IGN_HEADER_BLOCK"}
      /\ request' = request /\ charged' = charged
  BY DEF HeaderBlock
<1>2. IF decodes /\ got.result = "refused"
      THEN /\ iframe' = In([iframe EXCEPT !.payloadleft = @ - got.read], "IGN_HEADER_BLOCK")
           /\ s' = AddRst(got.s, id)
           /\ Pass(got.read, TRUE)
      ELSE IF decodes /\ got.result = "broken"
      THEN /\ iframe' = IF left = 0 THEN ResetFrame ELSE In(f, "IGN_PAYLOAD")
           /\ s' = got.s
           /\ Pass(n, left > 0)
      ELSE IF left > 0 THEN iframe' = f /\ s' = t /\ Pass(n, FALSE)
           ELSE EndOfBlock(f, t, n)
  BY DEF HeaderBlock
<1>3. PayloadRead(n) /\ left \in Nat /\ n \in Nat /\ at + n <= last /\ n <= iframe.payloadleft
      /\ iframe.payloadleft \in Nat
  BY PayloadTaken DEF PayloadRead
<1>4. SessionOK(s) /\ request \in BOOLEAN /\ charged \in Nat /\ FrameOK(iframe) BY DEF IInv
<1>5. iframe.hd.type \in {"HEADERS", "PUSH_PROMISE"} /\ iframe.padlen \in Nat /\ Basic(iframe)
  BY <1>1, <1>4, FrameIsBasic DEF FrameOK, InBlock
<1>6. /\ f.state = iframe.state /\ f.hd = iframe.hd /\ f.payloadleft = left /\ f.padlen = iframe.padlen
      /\ Basic(f)
  BY <1>3, <1>5, LeftIs
<1> HIDE DEF f, n
<1>7. m \in Nat /\ m <= n BY <1>3, <1>5, ReadLenIs
<1> HIDE DEF m, read, final
<1>8. IsSeq(Taken(m)) /\ Len(Taken(m)) = m BY <1>7, TakenIs
<1>9. take \in BOOLEAN /\ (take => id \in s.live \ s.closing)
  <2>1. take => iframe.state \in Heard BY <1>6 DEF Heard
  <2> QED BY <1>6, <2>1 DEF IInv
<1> HIDE DEF take
<1>10. /\ SessionOK(got.s) /\ got.read \in Nat /\ got.read <= m
       /\ got.result \in {"ok", "broken", "refused"}
       /\ got.result = "ok" => Alike(s, got.s) /\ got.s.goaway = s.goaway
       /\ got.result = "refused" => take /\ id \in got.s.closing /\ got.s.live = s.live
       /\ Onward(s, got.s) /\ (got.result = "broken" => got.s.goaway # "none")
  <2> DEFINE y == Taken(m)
  <2>1. IsSeq(y) /\ Len(y) = m BY <1>8
  <2>2. got = Inflate(s, id, y, final, take) BY DEF y
  <2> HIDE DEF y, id, got
  <2>3. SessionOK(s) BY <1>4
  <2>4. CASE take
    <3>1. take = TRUE BY <2>4
    <3>2. Inflated(s, id, y, TRUE, Inflate(s, id, y, final, TRUE)) BY <1>9, <2>1, <2>3, <2>4, InflateOK
    <3>3. Inflated(s, id, y, TRUE, got) BY <2>2, <3>1, <3>2
    <3> QED BY <2>1, <2>4, <3>3 DEF Inflated
  <2>5. CASE ~take
    <3>1. take = FALSE BY <1>9, <2>5
    <3>2. Inflated(s, id, y, FALSE, Inflate(s, id, y, final, FALSE)) BY <2>1, <2>3, InflateOK
    <3>3. Inflated(s, id, y, FALSE, got) BY <2>2, <3>1, <3>2
    <3> QED BY <2>1, <2>5, <3>3 DEF Inflated
  <2> QED BY <2>4, <2>5
<1>11. iframe.state \in InPayload \ InData /\ iframe.state \in Plain \ {"IGN_ALL"}
  BY <1>1 DEF InPayload, States, InHead, InData, Plain
<1>12. charged' = charged + (IF iframe.state \in InData THEN n ELSE 0) BY <1>1, <1>4, <1>11
<1>13. {"IGN_HEADER_BLOCK", "IGN_PAYLOAD"} \subseteq Plain \ ({"IGN_ALL"} \cup Heard \cup InData)
  BY DEF Plain, Heard, InData
<1>14. request' \in BOOLEAN BY <1>1, <1>4
<1> HIDE DEF got
<1>15. CASE decodes /\ got.result = "refused"
  <2> DEFINE g == [iframe EXCEPT !.payloadleft = @ - got.read]
  <2>1. iframe' = In(g, "IGN_HEADER_BLOCK") /\ s' = AddRst(got.s, id) /\ Pass(got.read, TRUE) BY <1>2, <1>15
  <2>2. PayloadRead(got.read) /\ iframe.payloadleft - got.read \in Nat
    <3>1. got.read <= n BY <1>3, <1>7, <1>10
    <3>2. at \in Nat /\ last \in Nat BY DEF IInv
    <3> QED BY <1>3, <1>10, <3>1, <3>2 DEF PayloadRead
  <2>3. g.hd = iframe.hd /\ g.payloadleft = iframe.payloadleft - got.read /\ Basic(g)
    BY <1>5, <2>2, LeftIs
  <2> HIDE DEF g
  <2>4. Basic(iframe') /\ iframe'.state = "IGN_HEADER_BLOCK" /\ iframe'.hd = iframe.hd
        /\ iframe'.payloadleft = iframe.payloadleft - got.read
    BY <2>1, <2>3, InIs DEF Basic
  <2>5. s' = got.s BY <1>10, <1>15, <2>1 DEF AddRst
  <2>6. SessionOK(s') /\ Onward(s, s') BY <1>10, <2>5
  <2>7. charged' = charged + (IF iframe.state \in InData THEN got.read ELSE 0) BY <1>1, <1>4, <1>11
  <2> QED BY <1>1, <1>5, <1>11, <1>13, <1>14, <2>1, <2>2, <2>4, <2>6, <2>7, StaysInside
<1>16. CASE decodes /\ got.result = "broken"
  <2>1. /\ iframe' = IF left = 0 THEN ResetFrame ELSE In(f, "IGN_PAYLOAD")
        /\ s' = got.s /\ Pass(n, left > 0)
    BY <1>2, <1>16
  <2>2. SessionOK(s') /\ Onward(s, s') BY <1>10, <2>1
  <2>3. CASE left = 0
    <3>1. iframe' = ResetFrame /\ n = iframe.payloadleft /\ (left > 0) \in BOOLEAN BY <1>3, <2>1, <2>3
    <3> HIDE DEF left
    <3> QED BY <1>1, <1>3, <1>11, <1>12, <1>14, <2>1, <2>2, <3>1, LeavesPayload
  <2>4. CASE left # 0
    <3>1. Basic(iframe') /\ iframe'.state = "IGN_PAYLOAD" /\ iframe'.payloadleft = iframe.payloadleft - n
          /\ (left > 0) \in BOOLEAN
      BY <1>6, <2>1, <2>4, InIs DEF Basic
    <3>2. Pass(n, left > 0) BY <2>1
    <3> HIDE DEF left
    <3> QED BY <1>1, <1>3, <1>11, <1>12, <1>13, <1>14, <2>2, <3>1, <3>2, StaysInside
  <2> QED BY <2>3, <2>4
<1>17. CASE ~(decodes /\ got.result \in {"refused", "broken"})
  <2>1. IF left > 0 THEN iframe' = f /\ s' = t /\ Pass(n, FALSE) ELSE EndOfBlock(f, t, n) BY <1>2, <1>17
  <2>2. SessionOK(t) /\ Alike(s, t) /\ t.goaway = s.goaway
    <3>1. CASE decodes
      <4>1. t = got.s /\ got.result = "ok" BY <1>10, <1>17, <3>1
      <4> HIDE DEF t
      <4> QED BY <1>10, <4>1
    <3>2. CASE ~decodes
      <4>1. t = s BY <3>2
      <4> HIDE DEF t
      <4> QED BY <1>4, <4>1 DEF Alike
    <3> QED BY <3>1, <3>2
  <2> HIDE DEF t, decodes
  <2>3. iframe.state \in Heard => iframe.hd.stream \in t.live \ t.closing BY <2>2 DEF IInv, Alike
  <2>4. CASE left > 0
    <3>1. iframe' = f /\ s' = t /\ Pass(n, FALSE) BY <2>1, <2>4
    <3>2. SessionOK(s') /\ Onward(s, s') BY <2>2, <3>1 DEF Onward
    <3>3. iframe'.state = iframe.state /\ iframe'.hd = iframe.hd /\ Basic(iframe')
          /\ iframe'.payloadleft = iframe.payloadleft - n
      BY <1>6, <3>1
    <3>4. iframe'.state \in Heard => iframe'.hd.stream \in s'.live \ s'.closing BY <2>3, <3>1, <3>3
    <3> HIDE DEF left
    <3> QED BY <1>1, <1>3, <1>5, <1>11, <1>12, <1>14, <3>1, <3>2, <3>3, <3>4, StaysInside
  <2>5. CASE ~(left > 0)
    <3>0. EndOfBlock(f, t, n) BY <2>1, <2>5
    <3>1. n = iframe.payloadleft BY <1>3, <2>5
    <3>2. CASE "END_HEADERS" \in f.hd.flags
      <4>1. /\ iframe' = ResetFrame /\ Pass(n, FALSE)
            /\ s' = IF f.state = "READ_HEADER_BLOCK" THEN AfterBlock(t, f.hd, request) ELSE t
        BY <3>0, <3>2 DEF EndOfBlock
      <4>2. SessionOK(s') /\ s'.goaway = s.goaway BY <2>2, <4>1, AfterBlockOK
      <4>3. Onward(s, s') BY <4>2 DEF Onward
      <4> QED BY <1>1, <1>3, <1>11, <1>12, <1>14, <3>1, <4>1, <4>2, <4>3, LeavesPayload
    <3>3. CASE "END_HEADERS" \notin f.hd.flags
      <4> DEFINE a == SetMark(f, HeadLength)
                 b == [a EXCEPT !.padlen = 0]
                 state == IF f.state = "READ_HEADER_BLOCK" THEN "EXPECT_CONTINUATION" ELSE "IGN_CONTINUATION"
      <4>1. iframe' = In(b, state) /\ s' = t /\ Pass(n, FALSE) BY <3>0, <3>3 DEF EndOfBlock
      <4>2. HeadLength \in Marks BY DEF Marks
      <4>3. /\ DOMAIN a = Fields /\ a.hd = iframe.hd /\ a.payloadleft = left /\ a.sbuf = <<>>
            /\ a.mark = HeadLength /\ Basic(a)
        BY <1>6, <4>2, SetMarkIs
      <4> HIDE DEF a
      <4>4. /\ DOMAIN b = Fields /\ b.hd = iframe.hd /\ b.sbuf = <<>> /\ b.mark = HeadLength /\ b.padlen = 0
            /\ Basic(b)
        BY <4>3 DEF Basic, Fields
      <4> HIDE DEF b
      <4>5. state \in {"EXPECT_CONTINUATION", "IGN_CONTINUATION"}
            /\ (state = "EXPECT_CONTINUATION" => iframe.state = "READ_HEADER_BLOCK")
        BY <1>6
      <4> HIDE DEF state
      <4>6. /\ iframe'.state = state /\ iframe'.hd = iframe.hd /\ iframe'.sbuf = <<>>
            /\ iframe'.mark = HeadLength /\ iframe'.padlen = 0 /\ Basic(iframe')
        BY <4>1, <4>4, InIs
      <4>7. iframe'.state \in InHead /\ iframe'.state \in InBlock BY <4>5, <4>6 DEF InHead, InBlock
      <4>8. FrameOK(iframe') BY <1>5, <4>6, <4>7, HeadFrame, NothingIsSeq, Lengths
      <4>9. iframe'.state \in Heard => iframe'.hd.stream \in s'.live \ s'.closing
        <5>1. iframe'.state \in Heard => iframe.state \in Heard BY <4>5, <4>6 DEF Heard
        <5> QED BY <2>3, <4>1, <4>6, <5>1
      <4>10. SpotOK(sent, at + n, iframe', s'.goaway)
        <5>1. SpotOK(sent, at, iframe, s.goaway) /\ sent \in Inputs /\ at \in Nat BY <1>1 DEF IInv, Reads
        <5>2. SpotOK(sent, at + iframe.payloadleft, iframe', s'.goaway)
          BY <1>3, <1>11, <4>6, <4>7, <5>1, SpotAfter
        <5> QED BY <3>1, <5>2
      <4>11. s'.goaway = "none" => charged' = ContentSize(sent.frames, at + n)
        BY <1>1, <1>3, <1>11, <1>12, <2>2, <4>1, ChargeKept
      <4>12. SessionOK(s') /\ Onward(s, s') BY <2>2, <4>1 DEF Onward
      <4>13. Reads(sent, at + n, iframe', s', charged') BY <4>8, <4>9, <4>10, <4>11, <4>12 DEF Reads
      <4>14. charged' \in Nat /\ charged' <= at + n
        <5>1. charged <= at /\ at \in Nat BY DEF IInv
        <5> QED BY <1>1, <1>3, <1>4, <5>1
      <4> QED BY <1>1, <1>3, <1>14, <4>1, <4>12, <4>13, <4>14, PassKeeps
    <3> QED BY <3>2, <3>3
  <2> QED BY <2>4, <2>5
<1> QED BY <1>10, <1>15, <1>16, <1>17

\* READ_DATA: the stream may be gone since the last piece.
LEMMA ReadDataKeeps == IInv /\ ReadData => IInv'
<1> SUFFICES ASSUME IInv, ReadData PROVE IInv' OBVIOUS
<1> DEFINE id == iframe.hd.stream
           n == PayloadReadLen
           left == iframe.payloadleft - n
           f == [iframe EXCEPT !.payloadleft = left]
           read == EffectiveReadLen(iframe, left, n)
           m == IF read < 0 THEN 0 ELSE read
           got == TakeData(s, id, Taken(m))
<1>1. calling /\ iframe.state = "READ_DATA" BY DEF ReadData, InState
<1>2. SessionOK(s) /\ request \in BOOLEAN /\ charged \in Nat /\ FrameOK(iframe) BY DEF IInv
<1>3. id \in s.live \ s.closing BY <1>1 DEF IInv, Heard
<1>4. /\ charged' = charged + n
      /\ IF ~got.take
         THEN iframe' = In(f, "IGN_DATA") /\ s' = got.s /\ Pass(n, TRUE) /\ UNCHANGED request
         ELSE IF left > 0 THEN iframe' = f /\ s' = got.s /\ Pass(n, FALSE) /\ UNCHANGED request
         ELSE Processed(EndData(got.s, iframe.hd), n)
  BY <1>3 DEF ReadData
<1>5. PayloadRead(n) /\ left \in Nat /\ n \in Nat /\ n <= iframe.payloadleft /\ iframe.payloadleft \in Nat
  BY PayloadTaken DEF PayloadRead
<1>6. iframe.padlen \in Nat /\ Basic(iframe) BY <1>2, FrameIsBasic DEF FrameOK
<1>7. f.state = iframe.state /\ f.hd = iframe.hd /\ f.payloadleft = left /\ Basic(f) BY <1>5, <1>6, LeftIs
<1> HIDE DEF f, n
<1>8. m \in Nat BY <1>5, <1>6, ReadLenIs
<1> HIDE DEF m, read
<1>9. IsSeq(Taken(m)) BY <1>8, TakenIs
<1>10. /\ SessionOK(got.s) /\ got.s.goaway = s.goaway /\ got.s.live = s.live /\ got.take \in BOOLEAN
       /\ got.take => Alike(s, got.s)
  <2> DEFINE y == Taken(m)
  <2>1. IsSeq(y) BY <1>9
  <2> HIDE DEF y
  <2>2. LET r == TakeData(s, id, y)
        IN  /\ SessionOK(r.s) /\ r.s.goaway = s.goaway /\ r.s.live = s.live /\ r.take \in BOOLEAN
            /\ r.take => Alike(s, r.s)
    BY <1>2, <1>3, <2>1, TakeDataOK
  <2> QED BY <2>2 DEF y
<1>11. iframe.state \in InPayload \cap InData /\ {"READ_DATA", "IGN_DATA"} \subseteq (Plain \cap InData) \ {"IGN_ALL"}
       /\ "IGN_DATA" \notin Heard
  BY <1>1 DEF InPayload, States, InHead, InData, Plain, Heard
<1>12. charged' = charged + (IF iframe.state \in InData THEN n ELSE 0) BY <1>4, <1>11
<1> HIDE DEF got
<1>13. CASE ~got.take
  <2>1. iframe' = In(f, "IGN_DATA") /\ s' = got.s /\ Pass(n, TRUE) /\ request' = request BY <1>4, <1>13
  <2>2. SessionOK(s') /\ Onward(s, s') /\ request' \in BOOLEAN BY <1>2, <1>10, <2>1 DEF Onward
  <2>3. Basic(iframe') /\ iframe'.state = "IGN_DATA" /\ iframe'.payloadleft = iframe.payloadleft - n
    BY <1>7, <2>1, InIs DEF Basic
  <2> QED BY <1>1, <1>5, <1>11, <1>12, <2>1, <2>2, <2>3, StaysInside
<1>14. CASE got.take /\ left > 0
  <2>1. iframe' = f /\ s' = got.s /\ Pass(n, FALSE) /\ request' = request BY <1>4, <1>14
  <2>2. SessionOK(s') /\ Onward(s, s') /\ request' \in BOOLEAN BY <1>2, <1>10, <2>1 DEF Onward
  <2>3. Basic(iframe') /\ iframe'.state = "READ_DATA" /\ iframe'.payloadleft = iframe.payloadleft - n
        /\ iframe'.hd = iframe.hd
    BY <1>1, <1>7, <2>1
  <2>4. iframe'.hd.stream \in s'.live \ s'.closing BY <1>3, <1>10, <1>14, <2>1, <2>3 DEF Alike
  <2> QED BY <1>1, <1>5, <1>11, <1>12, <2>1, <2>2, <2>3, <2>4, StaysInside
<1>15. CASE got.take /\ ~(left > 0)
  <2>1. s' = EndData(got.s, iframe.hd) /\ iframe' = ResetFrame /\ Pass(n, FALSE) /\ request' = request
    BY <1>4, <1>15 DEF Processed
  <2>2. SessionOK(s') /\ s'.goaway = s.goaway BY <1>10, <2>1, EndDataOK
  <2>3. Onward(s, s') /\ request' \in BOOLEAN BY <1>2, <2>1, <2>2 DEF Onward
  <2>4. n = iframe.payloadleft BY <1>5, <1>15
  <2> QED BY <1>1, <1>5, <1>11, <1>12, <2>1, <2>2, <2>3, <2>4, LeavesPayload
<1> QED BY <1>10, <1>13, <1>14, <1>15

\* The bytes that fill the buffer are bytes of the payload.
LEMMA FillTaken ==
  ASSUME IInv, iframe.state \in {"READ_NBYTE", "READ_PAD_DATA"}
  PROVE  LET f == [Filled EXCEPT !.payloadleft = @ - BufReadLen]
         IN  /\ PayloadRead(BufReadLen) /\ Basic(f) /\ f.state = iframe.state /\ f.hd = iframe.hd
             /\ f.payloadleft = iframe.payloadleft - BufReadLen /\ f.padlen = iframe.padlen
             /\ f.mark = iframe.mark /\ f.sbuf = Filled.sbuf
<1> DEFINE n == BufReadLen
<1>1. /\ n \in Nat /\ at + n <= last /\ n <= iframe.mark - Len(iframe.sbuf) /\ Len(iframe.sbuf) \in Nat
      /\ Basic(Filled) /\ Filled.state = iframe.state /\ Filled.hd = iframe.hd
      /\ Filled.payloadleft = iframe.payloadleft /\ Filled.padlen = iframe.padlen
      /\ Filled.mark = iframe.mark
  BY FilledIs
<1>2. FrameOK(iframe) BY DEF IInv
<1>3. iframe.mark - Len(iframe.sbuf) <= iframe.payloadleft /\ iframe.payloadleft \in Nat /\ iframe.mark \in Nat
  BY <1>2, Lengths DEF FrameOK, BufferOK, Marks
<1> HIDE DEF n
<1>4. n <= iframe.payloadleft /\ iframe.payloadleft - n \in Nat BY <1>1, <1>3
<1>5. PayloadRead(n) BY <1>1, <1>3, <1>4 DEF PayloadRead
<1> DEFINE f == [Filled EXCEPT !.payloadleft = @ - n]
<1>6. f = [Filled EXCEPT !.payloadleft = iframe.payloadleft - n] BY <1>1
<1>7. /\ f.state = iframe.state /\ f.hd = iframe.hd /\ f.payloadleft = iframe.payloadleft - n
      /\ f.padlen = iframe.padlen /\ f.mark = iframe.mark /\ f.sbuf = Filled.sbuf /\ Basic(f)
  <2> HIDE DEF f
  <2> QED BY <1>1, <1>4, <1>6, LeftIs
<1> QED BY <1>5, <1>7 DEF n

\* The Pad Length has been read: it is the number of bytes of the padding.
LEMMA PadLenRead ==
  ASSUME IInv, calling, iframe.state \in {"READ_NBYTE", "READ_PAD_DATA"}, PadNext(iframe), ~Incomplete,
         NEW f, f.sbuf = Filled.sbuf
  PROVE  /\ BufReadLen = 1 /\ ComputePad(f) \in Int
         /\ ~(ComputePad(f) < 0) => ComputePad(f) \in Nat \ {0}
<1>1. FrameOK(iframe) BY DEF IInv
<1>2. iframe.mark = 1 /\ Len(iframe.sbuf) < 1 /\ IsSeq(iframe.sbuf) BY <1>1 DEF PadNext, FrameOK, BufferOK
<1>3. Len(iframe.sbuf) = 0 BY <1>2 DEF IsSeq
<1>4. BufReadLen = 1 BY <1>2, <1>3, FilledIs
<1> DEFINE x == iframe.sbuf
           y == SubSeq(wire, at + 1, at + 1)
<1>5. at \in Nat /\ wire = Wire(sent) BY DEF IInv
<1>6. IsSeq(y) /\ Len(y) = 1 /\ y[1] = wire[at + 1]
  <2>1. IsSeq(y) /\ Len(y) = 1
    <3>1. \A n \in Nat : IsSeq(SubSeq(wire, at + 1, at + n)) /\ Len(SubSeq(wire, at + 1, at + n)) = n
      BY <1>5, PieceOf
    <3> QED BY <3>1
  <2>2. y[1] = wire[at + 1]
    <3>1. \A n \in Nat : \A i \in 1..n : SubSeq(wire, at + 1, at + n)[i] = wire[at + i] BY <1>5, PieceOf
    <3>2. 1 \in Nat /\ 1 \in 1..1 OBVIOUS
    <3> QED BY <3>1, <3>2
  <2> QED BY <2>1, <2>2
<1>7. f.sbuf = x \o y BY <1>4, FilledIs
<1> HIDE DEF x, y
<1>8. IsSeq(x) /\ Len(x) = 0 BY <1>2, <1>3 DEF x
<1>9. \A i \in 1..Len(y) : (x \o y)[Len(x) + i] = y[i] BY <1>6, <1>8, Joined
<1>10. f.sbuf[1] = wire[at + 1]
  <2>1. 1 \in 1..Len(y) /\ Len(x) + 1 = 1 BY <1>6, <1>8
  <2> QED BY <1>6, <1>7, <1>9, <2>1
<1>11. f.sbuf[1].value \in Nat BY <1>5, <1>10 DEF IInv, Reads, SpotOK
<1> QED BY <1>4, <1>11 DEF ComputePad

\* The fixed part is not there as a whole.
LEMMA FillWaits ==
  ASSUME IInv, calling, iframe.state \in {"READ_NBYTE", "READ_PAD_DATA"}, Incomplete,
         iframe' = [Filled EXCEPT !.payloadleft = @ - BufReadLen], Pass(BufReadLen, FALSE),
         s' = s, request' = request, charged' = charged
  PROVE  IInv'
<1> DEFINE n == BufReadLen
           f == [Filled EXCEPT !.payloadleft = @ - BufReadLen]
<1>1. /\ PayloadRead(n) /\ Basic(f) /\ f.state = iframe.state /\ f.hd = iframe.hd
      /\ f.payloadleft = iframe.payloadleft - n /\ f.padlen = iframe.padlen
      /\ f.mark = iframe.mark /\ f.sbuf = Filled.sbuf
  BY FillTaken
<1>2. iframe' = f /\ Pass(n, FALSE) OBVIOUS
<1> HIDE DEF f
<1>3. n \in Nat /\ Len(f.sbuf) < f.mark /\ Len(f.sbuf) = Len(iframe.sbuf) + n /\ Len(iframe.sbuf) \in Nat
  BY <1>1, FilledIs
<1> HIDE DEF n
<1>4. at + n <= last /\ n <= iframe.payloadleft /\ iframe.payloadleft \in Nat BY <1>1 DEF PayloadRead
<1>5. /\ FrameOK(iframe) /\ SpotOK(sent, at, iframe, s.goaway) /\ sent \in Inputs /\ at \in Nat
      /\ SessionOK(s) /\ charged \in Nat /\ charged <= at /\ request \in BOOLEAN
      /\ iframe.state \in Heard => iframe.hd.stream \in s.live \ s.closing
  BY DEF IInv, Reads
<1>6. iframe.mark \in Nat BY <1>5, Lengths DEF FrameOK, BufferOK, Marks
<1>7. PadNext(f) <=> PadNext(iframe) BY <1>1 DEF PadNext
<1>8. PadNext(iframe) => n = 0
  <2>1. PadNext(iframe) => iframe.mark = 1 BY <1>5 DEF PadNext, FrameOK, BufferOK
  <2> QED BY <1>1, <1>3, <2>1
<1>9. FrameOK(f)
  <2>1. f.mark - Len(f.sbuf) = iframe.mark - Len(iframe.sbuf) - n BY <1>1, <1>3, <1>6
  <2>2. CASE iframe.state = "READ_NBYTE"
    <3>1. /\ iframe.mark - Len(iframe.sbuf) <= iframe.payloadleft
          /\ iframe.hd.type \notin {"HEADERS", "PUSH_PROMISE", "GOAWAY"} =>
               iframe.mark - Len(iframe.sbuf) = iframe.payloadleft
          /\ iframe.hd.type \in {"HEADERS", "PUSH_PROMISE"} =>
               iframe.mark = IF PadNext(iframe) THEN 1 ELSE FixedFields(iframe.hd)
          /\ iframe.hd.type \in {"HEADERS", "PUSH_PROMISE", "PRIORITY", "RST_STREAM", "WINDOW_UPDATE",
                                 "PING", "GOAWAY"}
      BY <1>5, <2>2 DEF FrameOK, BufferOK
    <3>2. f.mark - Len(f.sbuf) <= f.payloadleft BY <1>1, <1>3, <1>4, <1>6, <2>1, <3>1
    <3>3. f.hd.type \notin {"HEADERS", "PUSH_PROMISE", "GOAWAY"} => f.mark - Len(f.sbuf) = f.payloadleft
      BY <1>1, <2>1, <3>1
    <3> QED BY <1>1, <1>3, <1>7, <2>2, <3>1, <3>2, <3>3, NbyteFrame
  <2>3. CASE iframe.state = "READ_PAD_DATA"
    <3>1. iframe.mark = 1 /\ iframe.mark - Len(iframe.sbuf) <= iframe.payloadleft /\ iframe.padlen = 0
      BY <1>5, <2>3 DEF FrameOK, BufferOK
    <3>2. n = 0 BY <1>8, <2>3 DEF PadNext
    <3>3. f.payloadleft >= 1 BY <1>1, <1>3, <1>4, <3>1, <3>2
    <3> QED BY <1>1, <1>3, <2>3, <3>1, <3>3, PadDataFrame
  <2> QED BY <2>2, <2>3
<1>10. iframe.state \in InPayload BY DEF InPayload, States, InHead
<1>11. PadNext(f) => Wire(sent)[at + n + 1].value \in Nat
  <2>1. PadNext(f) => Wire(sent)[at + 1].value \in Nat BY <1>5, <1>7 DEF SpotOK
  <2>2. PadNext(f) => at + n + 1 = at + 1 BY <1>5, <1>7, <1>8
  <2> QED BY <2>1, <2>2
<1>12. SpotOK(sent, at + n, f, s.goaway)
  <2>1. f.state \in InPayload BY <1>1, <1>10
  <2>2. f.state \notin InData => iframe.state \notin InData BY <1>1
  <2>3. f.state \in InData => iframe.state \in InData BY <1>1
  <2> QED BY <1>1, <1>3, <1>4, <1>5, <1>10, <1>11, <2>1, <2>2, <2>3, SpotWithin
<1>13. s.goaway = "none" => charged = ContentSize(sent.frames, at + n)
  <2>1. s.goaway = "none" =>
          ContentSize(sent.frames, at + n) = charged + (IF iframe.state \in InData THEN n ELSE 0)
    BY <1>3, <1>4, <1>10, ChargeKept
  <2>2. iframe.state \in InData => n = 0
    <3>1. iframe.state \in InData => PadNext(iframe) BY DEF InData, PadNext
    <3> QED BY <1>8, <3>1
  <2> QED BY <1>5, <2>1, <2>2
<1>14. Reads(sent, at + n, iframe', s', charged') BY <1>1, <1>2, <1>5, <1>9, <1>12, <1>13 DEF Reads
<1>15. Onward(s, s') /\ request' \in BOOLEAN /\ charged' \in Nat /\ charged' <= at + n
  BY <1>3, <1>5 DEF Onward
<1> QED BY <1>2, <1>3, <1>4, <1>14, <1>15, PassKeeps

\* READ_PAD_DATA: the Pad Length is charged.
LEMMA ReadPadDataKeeps == IInv /\ ReadPadData => IInv'
<1> SUFFICES ASSUME IInv, ReadPadData PROVE IInv' OBVIOUS
<1> DEFINE n == BufReadLen
           f == [Filled EXCEPT !.payloadleft = @ - n]
           padlen == ComputePad(f)
           g == [f EXCEPT !.padlen = padlen]
<1>1. calling /\ iframe.state = "READ_PAD_DATA" BY DEF ReadPadData, InState
<1>2. CASE Incomplete
  <2>1. iframe' = f /\ Pass(n, FALSE) /\ s' = s /\ request' = request /\ charged' = charged
    BY <1>2 DEF ReadPadData
  <2> QED BY <1>1, <1>2, <2>1, FillWaits
<1>3. CASE ~Incomplete
  <2>1. /\ charged' = charged + n
        /\ IF padlen < 0 THEN Fails(f, "IGN_DATA", n) ELSE Continues(g, "READ_DATA", n, TRUE)
    BY <1>3 DEF ReadPadData
  <2>2. PadNext(iframe) BY <1>1 DEF PadNext
  <2>3. /\ PayloadRead(n) /\ Basic(f) /\ f.state = iframe.state /\ f.hd = iframe.hd
        /\ f.payloadleft = iframe.payloadleft - n /\ f.sbuf = Filled.sbuf
    BY <1>1, FillTaken
  <2> HIDE DEF f
  <2>4. n = 1 /\ padlen \in Int /\ (~(padlen < 0) => padlen \in Nat \ {0}) BY <1>1, <1>3, <2>2, <2>3, PadLenRead
  <2>5. iframe.state \in InPayload \cap InData /\ {"READ_DATA", "IGN_DATA"} \subseteq (Plain \cap InData) \ {"IGN_ALL"}
        /\ "IGN_DATA" \notin Heard
    BY <1>1 DEF InPayload, States, InHead, InData, Plain, Heard
  <2>6. charged' = charged + (IF iframe.state \in InData THEN n ELSE 0) BY <2>1, <2>5
  <2>7. iframe.hd.stream \in s.live \ s.closing BY <1>1 DEF IInv, Heard
  <2>8. SessionOK(s) /\ request \in BOOLEAN BY DEF IInv
  <2> HIDE DEF padlen, n
  <2>9. CASE padlen < 0
    <3>1. s' = Terminate(s) /\ iframe' = In(f, "IGN_DATA") /\ Pass(n, TRUE) /\ request' = request
      BY <2>1, <2>9 DEF Fails
    <3>2. SessionOK(s') /\ Onward(s, s') BY <2>8, <3>1, TerminateOK
    <3>3. Basic(iframe') /\ iframe'.state = "IGN_DATA" /\ iframe'.payloadleft = iframe.payloadleft - n
      BY <2>3, <3>1, InIs DEF Basic
    <3> QED BY <1>1, <2>3, <2>5, <2>6, <2>8, <3>1, <3>2, <3>3, StaysInside
  <2>10. CASE ~(padlen < 0)
    <3>1. s' = s /\ iframe' = In(g, "READ_DATA") /\ Pass(n, TRUE) /\ request' = request
      BY <2>1, <2>10 DEF Continues
    <3>2. SessionOK(s') /\ Onward(s, s') BY <2>8, <3>1 DEF Onward
    <3>3. Basic(g) /\ g.hd = iframe.hd /\ g.payloadleft = iframe.payloadleft - n
      BY <2>3, <2>4, <2>10 DEF Basic, Fields
    <3> HIDE DEF g
    <3>4. Basic(iframe') /\ iframe'.state = "READ_DATA" /\ iframe'.payloadleft = iframe.payloadleft - n
          /\ iframe'.hd = iframe.hd
      BY <3>1, <3>3, InIs DEF Basic
    <3> QED BY <1>1, <2>3, <2>5, <2>6, <2>7, <2>8, <3>1, <3>2, <3>4, StaysInside
  <2> QED BY <2>9, <2>10
<1> QED BY <1>2, <1>3

\* The fixed part of HEADERS is there: the Pad Length, or the priority.
LEMMA NbyteOfHeadersKeeps ==
  ASSUME IInv, calling, iframe.state = "READ_NBYTE", ~Incomplete,
         iframe.hd.type \in {"HEADERS", "PUSH_PROMISE"},
         NEW n, n = BufReadLen, NEW f, f = [Filled EXCEPT !.payloadleft = @ - BufReadLen],
         NbyteOfHeaders(f, n), charged' = charged
  PROVE  IInv'
<1> DEFINE padlen == ComputePad(f)
           padded == [f EXCEPT !.padlen = padlen]
<1>1. /\ PayloadRead(n) /\ Basic(f) /\ f.state = iframe.state /\ f.hd = iframe.hd
      /\ f.payloadleft = iframe.payloadleft - n /\ f.padlen = iframe.padlen /\ f.sbuf = Filled.sbuf
  BY FillTaken
<1>2. IF f.padlen # 0 \/ "PADDED" \notin f.hd.flags THEN BeginBlock(f, n)
      ELSE IF padlen < 0 THEN Fails(f, "IGN_PAYLOAD", n)
      ELSE IF FixedFields(f.hd) = 0 THEN BeginBlock(SetMark(padded, 0), n)
      ELSE IF f.payloadleft < FixedFields(f.hd) THEN Continues(padded, "FRAME_SIZE_ERROR", n, TRUE)
      ELSE Continues(SetMark(padded, FixedFields(f.hd)), "READ_NBYTE", n, FALSE)
  BY DEF NbyteOfHeaders
<1>3. /\ FrameOK(iframe) /\ SpotOK(sent, at, iframe, s.goaway) /\ sent \in Inputs /\ at \in Nat
      /\ SessionOK(s) /\ charged \in Nat /\ charged <= at /\ request \in BOOLEAN
  BY DEF IInv, Reads
<1>4. n \in Nat /\ at + n <= last /\ n <= iframe.payloadleft /\ iframe.payloadleft \in Nat
      /\ f.payloadleft \in Nat
  BY <1>1 DEF PayloadRead, Basic
<1>5. iframe.state \in InPayload \ InData
  BY DEF InPayload, States, InHead, InData
<1>6. {"READ_HEADER_BLOCK", "IGN_HEADER_BLOCK", "READ_NBYTE", "IGN_PAYLOAD", "FRAME_SIZE_ERROR"}
        \subseteq InPayload \ InData
  BY DEF InPayload, States, InHead, InData
<1>7. s.goaway = "none" => charged = ContentSize(sent.frames, at + n)
  BY <1>3, <1>4, <1>5, ChargeKept
<1>8. charged' = charged + (IF iframe.state \in InData THEN n ELSE 0) BY <1>3, <1>5
\* Wherever the payload goes on, the reader is in the same frame
<1>9. \A h : Basic(h) /\ h.payloadleft = f.payloadleft =>
        \A state \in {"READ_HEADER_BLOCK", "IGN_HEADER_BLOCK"} : SpotOK(sent, at + n, In(h, state), s.goaway)
  <2> TAKE h
  <2>1. HAVE Basic(h) /\ h.payloadleft = f.payloadleft
  <2> TAKE state \in {"READ_HEADER_BLOCK", "IGN_HEADER_BLOCK"}
  <2> DEFINE i == In(h, state)
  <2>2. i.state = state /\ i.payloadleft = iframe.payloadleft - n BY <1>1, <2>1, InIs DEF Basic
  <2> HIDE DEF i
  <2>3. ~PadNext(i) /\ i.state \in InPayload \ InData BY <1>6, <2>2 DEF PadNext
  <2>4. SpotOK(sent, at + n, i, s.goaway) BY <1>3, <1>4, <1>5, <2>2, <2>3, SpotWithin
  <2> QED BY <2>4 DEF i
<1>10. CASE f.padlen # 0 \/ "PADDED" \notin f.hd.flags
  <2>1. BeginBlock(f, n) BY <1>2, <1>10
  <2> QED BY <1>1, <1>4, <1>7, <1>9, <2>1, BeginBlockKeeps
<1>11. CASE ~(f.padlen # 0 \/ "PADDED" \notin f.hd.flags)
  <2>1. PadNext(iframe) BY <1>1, <1>11 DEF PadNext
  <2>2. padlen \in Int /\ (~(padlen < 0) => padlen \in Nat \ {0}) BY <1>1, <2>1, PadLenRead
  <2> HIDE DEF padlen
  <2>3. CASE padlen < 0
    <3>1. s' = Terminate(s) /\ iframe' = In(f, "IGN_PAYLOAD") /\ Pass(n, TRUE) /\ request' = request
      BY <1>2, <1>11, <2>3 DEF Fails
    <3>2. SessionOK(s') /\ Onward(s, s') BY <1>3, <3>1, TerminateOK
    <3>3. Basic(iframe') /\ iframe'.state = "IGN_PAYLOAD" /\ iframe'.payloadleft = iframe.payloadleft - n
      <4>1. Basic(f) /\ f.payloadleft = iframe.payloadleft - n BY <1>1
      <4> DEFINE i == In(f, "IGN_PAYLOAD")
      <4>2. iframe' = i BY <3>1
      <4>3. Basic(i) /\ i.state = "IGN_PAYLOAD" /\ i.payloadleft = f.payloadleft BY <4>1, InBasic, Zenon
      <4> HIDE DEF i
      <4> QED BY <4>1, <4>2, <4>3
    <3>4. "IGN_PAYLOAD" \in Plain \ ({"IGN_ALL"} \cup Heard \cup InData) BY DEF Plain, Heard, InData
    <3> QED BY <1>1, <1>3, <1>5, <1>8, <3>1, <3>2, <3>3, <3>4, StaysInside
  <2>4. CASE ~(padlen < 0)
    <3>1. padlen \in Nat \ {0} BY <2>2, <2>4
    <3>2. /\ Basic(padded) /\ padded.hd = iframe.hd /\ padded.payloadleft = f.payloadleft
          /\ padded.padlen = padlen
      BY <1>1, <3>1 DEF Basic, Fields
    <3> HIDE DEF padded
    <3>3. CASE FixedFields(f.hd) = 0
      <4> DEFINE g == SetMark(padded, 0)
      <4>1. BeginBlock(g, n) BY <1>2, <1>11, <2>4, <3>3
      <4>2. 0 \in Marks BY DEF Marks
      <4>3. Basic(g) /\ g.hd = iframe.hd /\ g.payloadleft = f.payloadleft BY <3>2, <4>2, SetMarkIs
      <4> HIDE DEF g
      <4> QED BY <1>1, <1>4, <1>7, <1>9, <4>1, <4>3, BeginBlockKeeps
    <3>4. CASE FixedFields(f.hd) # 0 /\ f.payloadleft < FixedFields(f.hd)
      <4>1. s' = s /\ iframe' = In(padded, "FRAME_SIZE_ERROR") /\ Pass(n, TRUE) /\ request' = request
        BY <1>2, <1>11, <2>4, <3>4 DEF Continues
      <4>2. SessionOK(s') /\ Onward(s, s') BY <1>3, <4>1 DEF Onward
      <4>3. /\ Basic(iframe') /\ iframe'.state = "FRAME_SIZE_ERROR"
            /\ iframe'.payloadleft = iframe.payloadleft - n
        BY <1>1, <3>2, <4>1, InIs DEF Basic
      <4>4. "FRAME_SIZE_ERROR" \in Plain \ ({"IGN_ALL"} \cup Heard \cup InData) BY DEF Plain, Heard, InData
      <4> QED BY <1>1, <1>3, <1>5, <1>8, <4>1, <4>2, <4>3, <4>4, StaysInside
    <3>5. CASE FixedFields(f.hd) # 0 /\ ~(f.payloadleft < FixedFields(f.hd))
      <4> DEFINE g == SetMark(padded, FixedFields(f.hd))
                 h == In(g, "READ_NBYTE")
      <4>1. Continues(g, "READ_NBYTE", n, FALSE) BY <1>2, <1>11, <2>4, <3>5
      <4>2. FixedFields(f.hd) \in Marks /\ FixedFields(f.hd) \in Nat BY FixedIs
      <4>3. /\ Basic(g) /\ g.hd = iframe.hd /\ g.payloadleft = f.payloadleft /\ g.padlen = padlen
            /\ g.sbuf = <<>> /\ g.mark = FixedFields(f.hd) /\ DOMAIN g = Fields
        BY <3>2, <4>2, SetMarkIs
      <4> HIDE DEF g
      <4>4. /\ Basic(h) /\ h.state = "READ_NBYTE" /\ h.hd = iframe.hd /\ h.payloadleft = f.payloadleft
            /\ h.padlen = padlen /\ h.sbuf = <<>> /\ h.mark = FixedFields(f.hd)
        BY <4>3, InIs
      <4> HIDE DEF h
      <4>5. ~PadNext(h) BY <3>1, <4>4 DEF PadNext
      <4>6. Len(h.sbuf) = 0 BY <4>4, NothingIsSeq
      <4>7. Len(h.sbuf) < h.mark /\ h.mark - Len(h.sbuf) <= h.payloadleft
        BY <1>4, <3>5, <4>2, <4>4, <4>6
      <4>8. FrameOK(h) BY <1>1, <4>4, <4>5, <4>7, NbyteFrame
      <4>9. SpotOK(sent, at + n, h, s.goaway)
        <5>1. h.state \in InPayload \ InData BY <1>6, <4>4
        <5>2. h.payloadleft = iframe.payloadleft - n BY <1>1, <4>4
        <5> QED BY <1>3, <1>4, <1>5, <4>5, <5>1, <5>2, SpotWithin
      <4>10. "READ_NBYTE" \notin Heard BY DEF Heard
      <4>11. charged' \in Nat /\ charged' <= at + n BY <1>3, <1>4
      <4>12. s.goaway = "none" => charged' = ContentSize(sent.frames, at + n) BY <1>7
      <4> QED BY <1>4, <4>1, <4>3, <4>8, <4>9, <4>10, <4>11, <4>12, ContinuesKeeps DEF h
    <3> QED BY <3>3, <3>4, <3>5
  <2> QED BY <2>2, <2>3, <2>4
<1> QED BY <1>10, <1>11

\* READ_NBYTE: the fixed part of a payload.
LEMMA ReadNbyteKeeps == IInv /\ ReadNbyte => IInv'
<1> SUFFICES ASSUME IInv, ReadNbyte PROVE IInv' OBVIOUS
<1> DEFINE n == BufReadLen
           f == [Filled EXCEPT !.payloadleft = @ - n]
<1>1. calling /\ iframe.state = "READ_NBYTE" /\ charged' = charged BY DEF ReadNbyte, InState
<1>2. CASE Incomplete
  <2>1. iframe' = f /\ Pass(n, FALSE) /\ s' = s /\ request' = request BY <1>2 DEF ReadNbyte
  <2> QED BY <1>1, <1>2, <2>1, FillWaits
<1>3. CASE ~Incomplete
  <2>1. /\ PayloadRead(n) /\ Basic(f) /\ f.state = iframe.state /\ f.hd = iframe.hd
        /\ f.payloadleft = iframe.payloadleft - n
    BY <1>1, FillTaken
  <2>2. n = iframe.mark - Len(iframe.sbuf) BY <1>3, FilledIs
  <2>3. /\ iframe.hd.type \in {"HEADERS", "PUSH_PROMISE", "PRIORITY", "RST_STREAM", "WINDOW_UPDATE",
                               "PING", "GOAWAY"}
        /\ iframe.hd.type \notin {"HEADERS", "PUSH_PROMISE", "GOAWAY"} => n = iframe.payloadleft
        /\ iframe.hd.stream \in Nat
    <3>1. FrameOK(iframe) BY DEF IInv
    <3> QED BY <1>1, <2>2, <3>1 DEF FrameOK, BufferOK, HeadOK
  <2>4. SessionOK(s) /\ request \in BOOLEAN /\ charged \in Nat BY DEF IInv
  <2>5. iframe.state \in InPayload \ InData BY <1>1 DEF InPayload, States, InHead, InData
  <2>6. charged' = charged + (IF iframe.state \in InData THEN n ELSE 0) BY <1>1, <2>4, <2>5
  <2>7. /\ f.hd.type \in {"HEADERS", "PUSH_PROMISE"} => NbyteOfHeaders(f, n)
        /\ f.hd.type = "RST_STREAM" => Processed(ProcessRst(s, f.hd.stream), n)
        /\ f.hd.type = "PING" => Processed(ProcessPing(s, f.hd), n)
        /\ f.hd.type = "GOAWAY" => Continues(f, "READ_GOAWAY_DEBUG", n, TRUE)
        /\ f.hd.type \in {"PRIORITY", "WINDOW_UPDATE"} => Processed(ProcessOther(s, f.hd), n)
    BY <1>3 DEF ReadNbyte
  <2>8. CASE iframe.hd.type \in {"HEADERS", "PUSH_PROMISE"}
    <3>1. NbyteOfHeaders(f, n) BY <2>1, <2>7, <2>8
    <3> QED BY <1>1, <1>3, <2>8, <3>1, NbyteOfHeadersKeeps
  <2> HIDE DEF f, n
  <2>9. CASE iframe.hd.type = "GOAWAY"
    <3>1. s' = s /\ iframe' = In(f, "READ_GOAWAY_DEBUG") /\ Pass(n, TRUE) /\ request' = request
      BY <2>1, <2>7, <2>9 DEF Continues
    <3>2. SessionOK(s') /\ Onward(s, s') BY <2>4, <3>1 DEF Onward
    <3>3. /\ Basic(iframe') /\ iframe'.state = "READ_GOAWAY_DEBUG"
          /\ iframe'.payloadleft = iframe.payloadleft - n
      BY <2>1, <3>1, InIs DEF Basic
    <3>4. "READ_GOAWAY_DEBUG" \in Plain \ ({"IGN_ALL"} \cup Heard \cup InData) BY DEF Plain, Heard, InData
    <3> QED BY <1>1, <2>1, <2>4, <2>5, <2>6, <3>1, <3>2, <3>3, <3>4, StaysInside
  <2>10. CASE iframe.hd.type \in {"RST_STREAM", "PING", "PRIORITY", "WINDOW_UPDATE"}
    <3>1. \E t : SessionOK(t) /\ Onward(s, t) /\ Processed(t, n)
      <4>1. CASE iframe.hd.type = "RST_STREAM"
        <5>1. Processed(ProcessRst(s, iframe.hd.stream), n) BY <2>1, <2>7, <4>1
        <5> QED BY <2>3, <2>4, <5>1, ProcessRstOK
      <4>2. CASE iframe.hd.type = "PING"
        <5>1. Processed(ProcessPing(s, iframe.hd), n) BY <2>1, <2>7, <4>2
        <5> QED BY <2>4, <5>1, ProcessPingOK
      <4>3. CASE iframe.hd.type \in {"PRIORITY", "WINDOW_UPDATE"}
        <5>1. Processed(ProcessOther(s, iframe.hd), n) BY <2>1, <2>7, <4>3
        <5> QED BY <2>4, <4>3, <5>1, ProcessOtherOK
      <4> QED BY <2>10, <4>1, <4>2, <4>3
    <3>2. SessionOK(s') /\ Onward(s, s') /\ iframe' = ResetFrame /\ Pass(n, FALSE) /\ request' = request
      BY <3>1 DEF Processed
    <3>3. n = iframe.payloadleft BY <2>3, <2>10
    <3> QED BY <1>1, <2>1, <2>4, <2>5, <2>6, <3>2, <3>3, LeavesPayload
  <2> QED BY <2>3, <2>8, <2>9, <2>10
<1> QED BY <1>2, <1>3

\* What is left of SETTINGS when n more bytes of an entry are there.
LEMMA EntryLeft ==
  ASSUME NEW left \in Nat, NEW have \in Nat, have < EntryLength, NEW m \in Nat \ {0},
         left + have = m * EntryLength
  PROVE  /\ EntryLength - have <= left
         /\ left - (EntryLength - have) > 0 =>
              m - 1 \in Nat \ {0} /\ left - (EntryLength - have) = (m - 1) * EntryLength
<1>1. EntryLength \in Nat \ {0} BY Lengths
<1> DEFINE x == (m - 1) * EntryLength
<1>2. x \in Nat /\ (m - 1 = 0 => x = 0)
  <2>1. \A a \in Nat : a * EntryLength \in Nat /\ (a = 0 => a * EntryLength = 0) BY <1>1
  <2>2. m - 1 \in Nat OBVIOUS
  <2> QED BY <2>1, <2>2
<1>3. m * EntryLength = x + EntryLength BY <1>1
<1>4. m - 1 \in Nat OBVIOUS
<1> HIDE DEF x
<1>5. left - (EntryLength - have) = x
  <2>1. left + have = x + EntryLength BY <1>3
  <2> QED BY <1>1, <1>2, <2>1
<1>6. EntryLength - have <= left BY <1>1, <1>2, <1>5
<1> QED BY <1>2, <1>4, <1>5, <1>6 DEF x

\* An entry of SETTINGS: the list of entries changes, and nothing else.
LEMMA EntrySet ==
  ASSUME NEW f, Basic(f), NEW entry
  PROVE  LET g == SetSettingsEntry(f, entry)
         IN  /\ Basic(g) /\ g.state = f.state /\ g.hd = f.hd /\ g.payloadleft = f.payloadleft
             /\ g.mark = f.mark /\ g.sbuf = f.sbuf /\ g.padlen = f.padlen
<1>1. PICK iv, least : SetSettingsEntry(f, entry) = [f EXCEPT !.iv = iv, !.least = least]
  BY Zenon DEF SetSettingsEntry
<1> QED BY <1>1 DEF Basic, Fields

\* The entries of SETTINGS are read one by one, and then processed.
LEMMA ReadSettingsKeeps == IInv /\ ReadSettings => IInv'
<1> SUFFICES ASSUME IInv, ReadSettings PROVE IInv' OBVIOUS
<1> DEFINE n == BufReadLen
           left == iframe.payloadleft - n
           f == [Filled EXCEPT !.payloadleft = @ - n]
           g == IF n > 0 THEN SetSettingsEntry(f, f.sbuf[Len(f.sbuf)].value) ELSE f
<1>1. /\ calling /\ iframe.state = "READ_SETTINGS" /\ charged' = charged
      /\ IF Incomplete THEN Continues(f, f.state, n, FALSE)
         ELSE IF g.payloadleft > 0 THEN Continues(SetMark(g, EntryLength), g.state, n, FALSE)
         ELSE Processed(ProcessSettings(s, g.hd, WithLeast(g)), n)
  BY DEF ReadSettings, InState
<1>2. /\ n \in Nat /\ at + n <= last /\ n <= iframe.mark - Len(iframe.sbuf) /\ Len(iframe.sbuf) \in Nat
      /\ Incomplete <=> Len(Filled.sbuf) < iframe.mark
      /\ ~Incomplete => n = iframe.mark - Len(iframe.sbuf)
      /\ Basic(Filled) /\ Filled.state = iframe.state /\ Filled.hd = iframe.hd
      /\ Filled.payloadleft = iframe.payloadleft /\ Filled.padlen = iframe.padlen
      /\ Filled.mark = iframe.mark /\ Len(Filled.sbuf) = Len(iframe.sbuf) + n
  BY FilledIs
<1>3. /\ FrameOK(iframe) /\ SpotOK(sent, at, iframe, s.goaway) /\ sent \in Inputs /\ at \in Nat
      /\ SessionOK(s) /\ charged \in Nat /\ charged <= at /\ request \in BOOLEAN
  BY <1>1 DEF IInv, Reads
<1>4. /\ iframe.payloadleft \in Nat
      /\ \/ iframe.mark = 0 /\ iframe.payloadleft = 0
         \/ /\ iframe.mark = EntryLength /\ Len(iframe.sbuf) < EntryLength
            /\ \E m \in Nat \ {0} : iframe.payloadleft + Len(iframe.sbuf) = m * EntryLength
  BY <1>1, <1>3 DEF FrameOK, BufferOK
<1> HIDE DEF n
<1>5. /\ n <= iframe.payloadleft
      /\ iframe.mark = 0 => ~Incomplete
      /\ iframe.mark = EntryLength /\ ~Incomplete /\ left > 0 =>
           \E m \in Nat \ {0} : left = m * EntryLength
  <2>1. CASE iframe.mark = 0 /\ iframe.payloadleft = 0
    <3>1. EntryLength # 0 BY Lengths
    <3> QED BY <1>2, <2>1, <3>1
  <2>2. CASE /\ iframe.mark = EntryLength /\ Len(iframe.sbuf) < EntryLength
             /\ \E m \in Nat \ {0} : iframe.payloadleft + Len(iframe.sbuf) = m * EntryLength
    <3>1. PICK m \in Nat \ {0} : iframe.payloadleft + Len(iframe.sbuf) = m * EntryLength BY <2>2
    <3>2. EntryLength \in Nat \ {0} BY Lengths
    <3> DEFINE rest == EntryLength - Len(iframe.sbuf)
    <3>3. /\ rest <= iframe.payloadleft
          /\ iframe.payloadleft - rest > 0 =>
               m - 1 \in Nat \ {0} /\ iframe.payloadleft - rest = (m - 1) * EntryLength
      BY <1>2, <1>4, <2>2, <3>1, EntryLeft
    <3>4. rest \in Int BY <1>2, <3>2
    <3>5. n <= rest /\ (~Incomplete => n = rest) BY <1>2, <2>2
    <3> HIDE DEF rest
    <3>6. n <= iframe.payloadleft BY <1>2, <1>4, <3>3, <3>4, <3>5
    <3>7. iframe.mark # 0 BY <2>2, <3>2
    <3>8. ~Incomplete /\ left > 0 => \E i \in Nat \ {0} : left = i * EntryLength
      <4>1. HAVE ~Incomplete /\ left > 0
      <4>2. left = iframe.payloadleft - rest BY <3>5, <4>1
      <4>3. m - 1 \in Nat \ {0} /\ left = (m - 1) * EntryLength BY <3>3, <4>1, <4>2
      <4> QED BY <4>3
    <3> QED BY <3>6, <3>7, <3>8
  <2> QED BY <1>4, <2>1, <2>2
<1>6. PayloadRead(n) /\ left \in Nat BY <1>2, <1>4, <1>5 DEF PayloadRead
<1>7. /\ Basic(f) /\ f.state = iframe.state /\ f.hd = iframe.hd /\ f.payloadleft = left
      /\ f.padlen = iframe.padlen /\ f.mark = iframe.mark /\ f.sbuf = Filled.sbuf
  <2>1. f = [Filled EXCEPT !.payloadleft = left] BY <1>2
  <2> HIDE DEF f
  <2> QED BY <1>2, <1>6, <2>1, LeftIs
<1> HIDE DEF f
<1>8. Basic(g) /\ g.state = iframe.state /\ g.hd = iframe.hd /\ g.payloadleft = left
  <2>1. \A entry : /\ Basic(SetSettingsEntry(f, entry)) /\ SetSettingsEntry(f, entry).state = f.state
                   /\ SetSettingsEntry(f, entry).hd = f.hd
                   /\ SetSettingsEntry(f, entry).payloadleft = f.payloadleft
    BY <1>7, EntrySet
  <2> QED BY <1>7, <2>1
<1> HIDE DEF g
<1>9. iframe.state \in InPayload \ (InData \cup Heard)
  BY <1>1 DEF InPayload, States, InHead, InData, Heard
<1>10. s.goaway = "none" => charged' = ContentSize(sent.frames, at + n)
  BY <1>1, <1>3, <1>6, <1>9, ChargeKept DEF PayloadRead
\* Wherever it goes on, the reader is in the same frame
<1>11. \A h : Basic(h) /\ h.state = iframe.state /\ h.payloadleft = left =>
         SpotOK(sent, at + n, h, s.goaway)
  <2> TAKE h
  <2>1. HAVE Basic(h) /\ h.state = iframe.state /\ h.payloadleft = left
  <2>2. ~PadNext(h) /\ h.state \in InPayload \ InData BY <1>1, <1>9, <2>1 DEF PadNext
  <2> QED BY <1>2, <1>3, <1>4, <1>5, <1>9, <2>1, <2>2, SpotWithin
<1>12. charged' \in Nat /\ charged' <= at + n BY <1>1, <1>2, <1>3
<1>13. CASE Incomplete
  <2> DEFINE h == In(f, f.state)
  <2>1. Continues(f, f.state, n, FALSE) BY <1>1, <1>13
  <2>2. DOMAIN f = Fields BY <1>7 DEF Basic
  <2>3. Basic(h) /\ h.state = f.state /\ h.payloadleft = f.payloadleft /\ h.mark = f.mark /\ h.sbuf = f.sbuf
    BY <1>7, <2>2, InIs
  <2> HIDE DEF h
  <2>4. PICK m \in Nat \ {0} : iframe.payloadleft + Len(iframe.sbuf) = m * EntryLength
    BY <1>4, <1>5, <1>13
  <2>5. h.payloadleft + Len(h.sbuf) = m * EntryLength
    <3>1. h.payloadleft + Len(h.sbuf) = (iframe.payloadleft - n) + (Len(iframe.sbuf) + n)
      BY <1>2, <1>7, <2>3
    <3>2. (iframe.payloadleft - n) + (Len(iframe.sbuf) + n) = iframe.payloadleft + Len(iframe.sbuf)
      BY <1>2, <1>4
    <3> QED BY <2>4, <3>1, <3>2
  <2>6. h.mark = EntryLength /\ Len(h.sbuf) < EntryLength BY <1>2, <1>4, <1>5, <1>7, <1>13, <2>3
  <2>7. h.state = "READ_SETTINGS" BY <1>1, <1>7, <2>3
  <2>8. FrameOK(h) BY <2>3, <2>5, <2>6, <2>7, SettingsFrame
  <2>9. SpotOK(sent, at + n, h, s.goaway) BY <1>7, <1>11, <2>3
  <2>10. f.state \notin Heard BY <1>7, <1>9
  <2> QED BY <1>1, <1>2, <1>10, <1>12, <2>1, <2>2, <2>8, <2>9, <2>10, ContinuesKeeps DEF h
<1>14. CASE ~Incomplete /\ left > 0
  <2> DEFINE e == SetMark(g, EntryLength)
             h == In(e, g.state)
  <2>1. Continues(e, g.state, n, FALSE) BY <1>1, <1>8, <1>14
  <2>2. EntryLength \in Marks BY DEF Marks
  <2>3. /\ DOMAIN e = Fields /\ e.payloadleft = left /\ e.sbuf = <<>> /\ e.mark = EntryLength /\ Basic(e)
    BY <1>8, <2>2, SetMarkIs
  <2> HIDE DEF e
  <2>4. Basic(h) /\ h.state = g.state /\ h.payloadleft = left /\ h.mark = EntryLength /\ h.sbuf = <<>>
    BY <2>3, InIs
  <2> HIDE DEF h
  <2>5. iframe.mark = EntryLength BY <1>2, <1>4, <1>6, <1>14
  <2>6. PICK m \in Nat \ {0} : left = m * EntryLength BY <1>5, <1>14, <2>5
  <2>7. Len(h.sbuf) = 0 BY <2>4, NothingIsSeq
  <2>8. h.payloadleft + Len(h.sbuf) = m * EntryLength BY <1>6, <2>4, <2>6, <2>7
  <2>9. Len(h.sbuf) < EntryLength BY <2>7, Lengths
  <2>10. h.state = "READ_SETTINGS" /\ g.state \notin Heard BY <1>1, <1>8, <1>9, <2>4
  <2>11. FrameOK(h) BY <2>4, <2>8, <2>9, <2>10, SettingsFrame
  <2>12. SpotOK(sent, at + n, h, s.goaway) BY <1>8, <1>11, <2>4
  <2> QED BY <1>1, <1>2, <1>10, <1>12, <2>1, <2>3, <2>10, <2>11, <2>12, ContinuesKeeps DEF h
<1>15. CASE ~Incomplete /\ ~(left > 0)
  <2>1. /\ s' = ProcessSettings(s, g.hd, WithLeast(g)) /\ iframe' = ResetFrame /\ Pass(n, FALSE)
        /\ request' = request
    BY <1>1, <1>8, <1>15 DEF Processed
  <2>2. SessionOK(s') /\ Onward(s, s') BY <1>3, <2>1, ProcessSettingsOK
  <2>3. n = iframe.payloadleft BY <1>2, <1>4, <1>6, <1>15
  <2>4. charged' = charged + (IF iframe.state \in InData THEN n ELSE 0) BY <1>1, <1>3, <1>9
  <2> QED BY <1>1, <1>3, <1>6, <1>9, <2>1, <2>2, <2>3, <2>4, LeavesPayload
<1> QED BY <1>13, <1>14, <1>15

-----------------------------------------------------------------------------
(* The calls.                                                               *)

\* A piece of the connection is handed over.
LEMMA RecvKeeps == ASSUME IInv, NEW n \in 1..Len(wire), Recv(n) PROVE IInv'
<1>1. /\ ~calling /\ at + n <= Len(wire) /\ last' = at + n /\ sent' = sent /\ wire' = wire
      /\ iframe' = iframe /\ s' = s /\ request' = request /\ charged' = charged
      /\ IF WantRead(s) THEN calling' = TRUE /\ at' = at ELSE at' = at + n /\ calling' = calling
  BY DEF Recv
<1>2. /\ sent \in Inputs /\ wire = Wire(sent) /\ at \in Nat /\ request \in BOOLEAN /\ charged \in Nat
      /\ charged <= at /\ FrameOK(iframe) /\ SessionOK(s)
      /\ iframe.state = "IGN_ALL" => s.goaway # "none"
      /\ iframe.state \in Heard => iframe.hd.stream \in s.live \ s.closing
      /\ WantRead(s) => Reads(sent, at, iframe, s, charged)
  BY DEF IInv
<1>3. n \in Nat BY <1>2, WireIs DEF IsSeq
<1>4. CASE WantRead(s)
  <2>1. calling' = TRUE /\ at' = at BY <1>1, <1>4
  <2>2. at' <= last' /\ last' \in Nat /\ last' <= Len(wire') BY <1>1, <1>2, <1>3, <2>1
  <2>3. s'.goaway # "sent" BY <1>1, <1>4 DEF WantRead
  <2>4. Reads(sent', at', iframe', s', charged') BY <1>1, <1>2, <1>4, <2>1
  <2> QED BY <1>1, <1>2, <2>1, <2>2, <2>3, <2>4 DEF IInv
<1>5. CASE ~WantRead(s)
  <2>1. calling' = FALSE /\ at' = at + n BY <1>1, <1>5 DEF IInv
  <2>2. at' <= last' /\ last' \in Nat /\ at' \in Nat /\ last' <= Len(wire') /\ charged' <= at'
    BY <1>1, <1>2, <1>3, <2>1
  <2>3. ~WantRead(s)' BY <1>1, <1>5 DEF WantRead
  <2> QED BY <1>1, <1>2, <2>1, <2>2, <2>3 DEF IInv
<1> QED BY <1>4, <1>5

\* The GOAWAY and the RST_STREAM that were queued go out.
LEMMA SessionSendKeeps == IInv /\ SessionSend => IInv'
<1> SUFFICES ASSUME IInv, SessionSend PROVE IInv' OBVIOUS
<1>1. /\ ~calling /\ UNCHANGED <<sent, wire, meaning, at, last, calling, iframe, request, charged>>
      /\ \/ s.goaway = "queued" /\ s' = [s EXCEPT !.goaway = "sent"]
         \/ s.goaway = "none" /\ s' = [s EXCEPT !.live = @ \ s.closing, !.closing = {}]
  BY DEF SessionSend
<1>2. SessionOK(s) /\ Shape(s) BY DEF IInv, SessionOK
<1>3. /\ DOMAIN s' = DOMAIN s /\ s'.newest = s.newest /\ s'.events = s.events /\ s'.peerGone = s.peerGone
      /\ \/ s.goaway = "queued" /\ s'.goaway = "sent" /\ s'.live = s.live /\ s'.closing = s.closing
         \/ /\ s.goaway = "none" /\ s'.goaway = "none"
            /\ s'.live = s.live \ s.closing /\ s'.closing = {}
  BY <1>1, <1>2 DEF Shape
<1>4. Shape(s') BY <1>2, <1>3 DEF Shape
<1>5. \A id : Gone(s, id) => Gone(s', id)
  <2> SUFFICES ASSUME NEW id, Gone(s, id) PROVE Gone(s', id) OBVIOUS
  <2>1. CASE id \in s.closing
    <3>1. id \in s.live /\ id \in Nat /\ id <= s.newest BY <1>2, <2>1, StreamIdsNat DEF Shape
    <3> QED BY <1>3, <2>1, <3>1 DEF Gone
  <2>2. CASE id \notin s.closing BY <1>3, <2>2 DEF Gone
  <2> QED BY <2>1, <2>2
<1>6. SessionOK(s') BY <1>2, <1>3, <1>4, <1>5, NothingTold
<1>7. iframe'.state = "IGN_ALL" => s'.goaway # "none" BY <1>1, <1>3 DEF IInv
<1>8. iframe'.state \in Heard => iframe'.hd.stream \in s'.live \ s'.closing BY <1>1, <1>3 DEF IInv
<1>9. WantRead(s)' => Reads(sent, at, iframe, s, charged)'
  <2> HAVE WantRead(s)'
  <2>1. WantRead(s) /\ s'.goaway = s.goaway BY <1>3 DEF WantRead
  <2>2. Reads(sent, at, iframe, s, charged) BY <2>1 DEF IInv
  <2>3. Reads(sent, at, iframe, s', charged)
    <3>1. iframe.state \in Heard => iframe.hd.stream \in s'.live \ s'.closing BY <1>1, <1>8
    <3> QED BY <1>6, <2>1, <2>2, <3>1 DEF Reads
  <2> QED BY <1>1, <2>3
<1> QED BY <1>1, <1>6, <1>7, <1>8, <1>9 DEF IInv

\* At the beginning nothing has been read.
LEMMA InitKeeps == Init => IInv
<1> SUFFICES ASSUME Init PROVE IInv OBVIOUS
<1>1. /\ sent \in Inputs /\ at = 0 /\ last = 0 /\ calling = FALSE /\ s = NewSession /\ request = FALSE
      /\ charged = 0 /\ wire = Wire(sent)
      /\ iframe = [ResetFrame EXCEPT !.state = "READ_CLIENT_MAGIC", !.payloadleft = MagicLength]
  BY DEF Init, Wire
<1>2. IsSeq(Wire(sent)) BY <1>1, WireIs
<1>3. Len(wire) \in Nat BY <1>1, <1>2 DEF IsSeq
<1>4. SessionOK(s)
  <2>1. /\ s.newest = 0 /\ s.live = {} /\ s.closing = {} /\ s.goaway = "none" /\ s.events = <<>>
        /\ DOMAIN s = {"newest", "live", "shut", "closing", "asked", "unacked", "goaway", "peerGone",
                       "half", "bad", "inflated", "events"}
    BY <1>1 DEF NewSession
  <2>2. Shape(s) BY <2>1 DEF Shape
  <2>3. DOMAIN s.events = {} BY <2>1, NothingIsSeq
  <2> QED BY <2>1, <2>2, <2>3, NothingIsSeq DEF SessionOK, Final
<1>5. /\ Basic(ResetFrame) /\ ResetFrame.sbuf = <<>> /\ ResetFrame.mark = HeadLength /\ ResetFrame.padlen = 0
  BY ResetIs
<1>6. /\ Basic(iframe) /\ iframe.state = "READ_CLIENT_MAGIC" /\ iframe.padlen = 0
      /\ iframe.payloadleft = MagicLength
  <2>1. MagicLength \in Nat BY Lengths
  <2> HIDE DEF ResetFrame
  <2> QED BY <1>1, <1>5, <2>1 DEF Basic, Fields
<1>7. /\ iframe.state \in States /\ iframe.state \notin InHead \cup InBlock \cup InPayload \cup Heard
      /\ iframe.state \notin {"READ_NBYTE", "READ_PAD_DATA", "READ_SETTINGS", "IGN_ALL"}
  BY <1>6 DEF States, InHead, InBlock, InPayload, Heard
<1>8. FrameOK(iframe)
  <2>1. BufferOK(iframe) BY <1>6, <1>7 DEF BufferOK, Basic
  <2> QED BY <1>6, <1>7, <2>1 DEF FrameOK, Basic, Fields
<1>9. SpotOK(sent, at, iframe, s.goaway)
  <2>1. ~PadNext(iframe) BY <1>7 DEF PadNext
  <2>2. at + iframe.payloadleft = MagicLength BY <1>1, <1>6, Lengths
  <2> QED BY <1>7, <2>1, <2>2 DEF SpotOK
<1>10. charged = ContentSize(sent.frames, at) BY <1>1, NoContentYet
<1>11. Reads(sent, at, iframe, s, charged) BY <1>4, <1>7, <1>8, <1>9, <1>10 DEF Reads
<1>12. /\ at \in Nat /\ last \in Nat /\ at <= last /\ last <= Len(wire) /\ calling \in BOOLEAN
       /\ request \in BOOLEAN /\ charged \in Nat /\ charged <= at
  <2>1. at = 0 /\ last = 0 /\ charged = 0 BY <1>1
  <2>2. calling \in BOOLEAN /\ request \in BOOLEAN BY <1>1
  <2> QED BY <1>3, <2>1, <2>2
<1>13. ~calling BY <1>1
<1>14. /\ iframe.state = "IGN_ALL" => s.goaway # "none"
       /\ iframe.state \in Heard => iframe.hd.stream \in s.live \ s.closing
  BY <1>7
<1> QED BY <1>1, <1>4, <1>8, <1>11, <1>12, <1>13, <1>14 DEF IInv

-----------------------------------------------------------------------------
(* The theorems.                                                            *)

\* A pass of the loop keeps the invariant, in every state of the inbound frame.
LEMMA StepKeeps == IInv /\ Step => IInv'
BY ReadClientMagicKeeps, ReadHeadKeeps, ReadNbyteKeeps, ReadGoawayDebugKeeps, ReadSettingsKeeps,
   HeaderBlockKeeps, ReadContinuationKeeps, ReadPadDataKeeps, ReadDataKeeps, IgnDataKeeps,
   IgnPayloadKeeps, IgnAllKeeps, FrameSizeErrorKeeps
   DEF Step

\* The reader always knows where in the connection it is: it holds the bytes of a head that are
\* there, or counts down the payload of one frame; what was told of the messages is final.
THEOREM ReaderKnowsItsPlace == Spec => []IInv
<1>1. Init => IInv BY InitKeeps
<1>2. IInv /\ [Next]_vars => IInv'
  <2> SUFFICES ASSUME IInv, [Next]_vars PROVE IInv' OBVIOUS
  <2>1. CASE \E n \in 1..Len(wire) : Recv(n) BY <2>1, RecvKeeps
  <2>2. CASE SessionSend BY <2>2, SessionSendKeeps
  <2>3. CASE Step BY <2>3, StepKeeps
  <2>4. CASE UNCHANGED vars
    <3>1. /\ sent' = sent /\ wire' = wire /\ at' = at /\ last' = last /\ calling' = calling
          /\ iframe' = iframe /\ s' = s /\ request' = request /\ charged' = charged
      BY <2>4 DEF vars
    <3>2. WantRead(s)' <=> WantRead(s) BY <3>1 DEF WantRead
    <3>3. Reads(sent, at, iframe, s, charged)' <=> Reads(sent, at, iframe, s, charged) BY <3>1
    <3> QED BY <3>1, <3>2, <3>3 DEF IInv
  <2> QED BY <2>1, <2>2, <2>3, <2>4 DEF Next
<1> QED BY <1>1, <1>2, PTL DEF Spec

\* The counts of the reader are right, whatever a peer sends and however it is cut: what is left of
\* the frame, what is buffered, and what the windows are charged with (nghttp2_session.c:5247, 6290).
THEOREM CountsAreRight == Spec => []CountsRight
<1>1. IInv => TypeOK
  <2> SUFFICES ASSUME IInv PROVE TypeOK OBVIOUS
  <2>1. FrameOK(iframe) /\ SessionOK(s) /\ at \in Nat /\ last \in Nat /\ at <= last /\ last <= Len(wire)
        /\ charged \in Nat /\ charged <= at /\ calling \in BOOLEAN /\ request \in BOOLEAN
    BY DEF IInv
  <2>2. Len(wire) \in Nat BY WireIs DEF IInv, IsSeq
  <2>3. at \in 0..last /\ last \in 0..Len(wire) /\ charged \in 0..Len(wire) BY <2>1, <2>2
  <2>4. /\ iframe.payloadleft \in Nat /\ iframe.padlen \in Nat /\ Len(iframe.sbuf) <= iframe.mark
        /\ iframe.mark \in Marks
    BY <2>1 DEF FrameOK, BufferOK
  <2>5. s.closing \subseteq s.live /\ s.live \subseteq StreamIds BY <2>1 DEF SessionOK, Shape
  <2> QED BY <2>1, <2>3, <2>4, <2>5 DEF TypeOK, Marks
<1>2. IInv => ContentCharged
  <2> DEFINE data == {k \in 1..Len(sent.frames) : sent.frames[k].type = "DATA"}
             content == UNION {EndOf(k - 1) + HeadLength + 1..Least(at, EndOf(k)) : k \in data}
  <2> SUFFICES ASSUME IInv, ~calling, NothingDropped, s.goaway = "none"
      PROVE  charged = Cardinality(content)
    BY DEF ContentCharged
  <2>1. WantRead(s) BY DEF NothingDropped
  <2>2. charged = ContentSize(sent.frames, at) BY <2>1 DEF IInv, Reads
  <2>3. \A k : EndOf(k) = EndAt(sent.frames, k) BY EndOfIs
  <2>4. ASSUME NEW k \in data
        PROVE  \A b : b \in EndOf(k - 1) + HeadLength + 1..Least(at, EndOf(k)) <=>
                        b \in 1..at /\ b > EndOf(k - 1) + HeadLength /\ b <= EndOf(k)
    <3>1. sent \in Inputs /\ at \in Nat BY DEF IInv
    <3>2. EndAt(sent.frames, k - 1) \in Nat /\ EndAt(sent.frames, k) \in Nat BY <3>1, InputOK, EndNext
    <3>3. EndOf(k - 1) \in Nat /\ EndOf(k) \in Nat /\ HeadLength \in Nat BY <2>3, <3>2, Lengths
    <3> QED BY <3>1, <3>3 DEF Least
  <2>5. content = ContentRead(sent.frames, at)
    <3>1. \A b : b \in content <=> \E k \in data : b \in 1..at /\ b > EndOf(k - 1) + HeadLength /\ b <= EndOf(k)
      BY <2>4
    <3> HIDE DEF content
    <3> QED BY <2>3, <3>1 DEF ContentRead, InContent
  <2> QED BY <2>2, <2>5 DEF ContentSize
<1>3. IInv => CountsRight BY <1>1, <1>2 DEF CountsRight
<1> QED BY <1>3, ReaderKnowsItsPlace, PTL

\* The application hears nothing of a stream that is to be reset, nor of anything once the GOAWAY
\* that ends the session is out (nghttp2_session.c:3610, 5307, 6575).
THEOREM NothingHeardAfterReset == Spec => HeardNoMore
<1>1. IInv => ResetIsFinal
  <2> SUFFICES ASSUME IInv PROVE ResetIsFinal OBVIOUS
  <2>1. Final(s.events) BY DEF IInv, SessionOK
  <2> QED BY <2>1 DEF Final, Told1, ResetIsFinal
<1>2. IInv /\ [Next]_vars /\ s.goaway = "sent" => s'.events = s.events
  <2> SUFFICES ASSUME IInv, [Next]_vars, s.goaway = "sent" PROVE s'.events = s.events OBVIOUS
  <2>1. ~calling BY DEF IInv
  <2>2. CASE \E n \in 1..Len(wire) : Recv(n) BY <2>2 DEF Recv
  <2>3. CASE SessionSend
    <3>1. SessionOK(s) BY DEF IInv
    <3> QED BY <2>3, <3>1 DEF SessionSend, SessionOK, Shape
  <2>4. CASE Step
    <3>1. calling
      BY <2>4 DEF Step, InState, ReadClientMagic, ReadHead, ReadNbyte, ReadGoawayDebug, ReadSettings,
         HeaderBlock, ReadContinuation, ReadPadData, ReadData, IgnData, IgnPayload, IgnAll, FrameSizeError
    <3> QED BY <2>1, <3>1
  <2>5. CASE UNCHANGED vars BY <2>5 DEF vars
  <2> QED BY <2>2, <2>3, <2>4, <2>5 DEF Next
<1>3. IInv' => ResetIsFinal' BY <1>1, PTL
<1>4. IInv /\ IInv' /\ [Next]_vars => [ResetIsFinal' /\ (s.goaway = "sent" => s'.events = s.events)]_vars
  BY <1>2, <1>3
<1> QED BY <1>4, ReaderKnowsItsPlace, PTL DEF Spec, HeardNoMore
=============================================================================
