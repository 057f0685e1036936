--------------------------- MODULE RecvWindowProofs ---------------------------
(***************************************************************************)
(* The ledgers of RecvWindow, proved for windows, streams and payloads of   *)
(* any number: server and peer agree on every window, what the application  *)
(* holds is what the windows count, and a peer that keeps within its        *)
(* windows is never accused.  The argument is that of a ledger: every step  *)
(* moves bytes from one column to another, the columns being what the       *)
(* server has left, what it has announced and the peer has not read, what   *)
(* the peer has sent and the server has not read, and the peer's credit.    *)
(***************************************************************************)
EXTENDS RecvWindow, Functions, FiniteSetTheorems, WellFoundedInduction, TLAPS

-----------------------------------------------------------------------------
(* Sums over the values of a function, and with them the sums over a        *)
(* sequence: what adding to a sequence, taking from it and changing one     *)
(* value do to the sum.  The provers take no induction over a formula; the  *)
(* sums are proved by induction over a set of numbers instead.              *)

\* Induction: a set of numbers that has 0, and with each number the next, has all.
LEMMA NatSet ==
  ASSUME NEW T, T \subseteq Nat, 0 \in T, \A n \in T : n + 1 \in T
  PROVE  T = Nat
<1> DEFINE R == OpToRel(<, Nat)
           B == Nat \ T
<1>1. \A x, y \in Nat : <<x, y>> \in R <=> x < y BY DEF OpToRel
<1>2. IsWellFoundedOn(R, Nat) BY NatLessThanWellFounded
<1> HIDE DEF R
<1>3. SUFFICES ASSUME B # {} PROVE FALSE OBVIOUS
<1>4. B \subseteq Nat OBVIOUS
<1> HIDE DEF B
<1>5. PICK x \in B : \A y \in B : ~(<<y, x>> \in R) BY <1>2, <1>3, <1>4, WFMin
<1>6. x \in Nat /\ x \notin T BY <1>4, <1>5 DEF B
<1>7. x # 0 BY <1>6
<1>8. x - 1 \in Nat BY <1>6, <1>7
<1>9. x - 1 \in B BY <1>6, <1>8 DEF B
<1>10. x - 1 < x BY <1>6
<1>11. <<x - 1, x>> \in R BY <1>1, <1>6, <1>8, <1>10
<1> QED BY <1>5, <1>9, <1>11

\* The element of s that a sum takes first.
Pick(s) == CHOOSE x \in s : TRUE

\* The recursion SumFunctionOnSet is defined by, on the subsets of S.
Part(g, f, s) == IF s = {} THEN 0 ELSE f[Pick(s)] + g[s \ {Pick(s)}]
Parts(f, S) == CHOOSE g : g = [s \in SUBSET S |-> Part(g, f, s)]

LEMMA PickIn == ASSUME NEW s, s # {} PROVE Pick(s) \in s
BY DEF Pick

LEMMA SumIsPart == ASSUME NEW f, NEW S PROVE SumFunctionOnSet(f, S) = Parts(f, S)[S]
BY DEF SumFunctionOnSet, FoldFunctionOnSet, MapThenFoldSet, Parts, Part, Pick

\* One less is left after the first was taken.
LEMMA OneLess ==
  ASSUME NEW s, IsFiniteSet(s), s # {}
  PROVE  /\ IsFiniteSet(s \ {Pick(s)}) /\ Cardinality(s) \in Nat \ {0}
         /\ Cardinality(s \ {Pick(s)}) = Cardinality(s) - 1
<1>1. Pick(s) \in s BY PickIn
<1>2. Cardinality(s) \in Nat BY FS_CardinalityType
<1>3. Cardinality(s) # 0 BY FS_EmptySet
<1>4. Cardinality(s \ {Pick(s)}) = Cardinality(s) - 1 /\ IsFiniteSet(s \ {Pick(s)}) BY <1>1, FS_RemoveElement
<1> QED BY <1>2, <1>3, <1>4

\* The recursion of a sum over a finite set is well defined.
LEMMA PartsExist ==
  ASSUME NEW f, NEW S, IsFiniteSet(S)
  PROVE  \A s \in SUBSET S : Parts(f, S)[s] = Part(Parts(f, S), f, s)
<1> DEFINE K(n) == {s \in SUBSET S : Cardinality(s) <= n}
           T == {n \in Nat : \E g : g = [s \in K(n) |-> Part(g, f, s)]}
<1>1. \A s \in SUBSET S : IsFiniteSet(s) /\ Cardinality(s) \in Nat BY FS_Subset, FS_CardinalityType
<1>2. 0 \in T
  <2> DEFINE z == [s \in K(0) |-> 0]
  <2>1. \A s \in K(0) : s = {} BY <1>1, FS_EmptySet
  <2>2. z = [s \in K(0) |-> Part(z, f, s)] BY <2>1 DEF Part
  <2> QED BY <2>2
<1>3. \A n \in T : n + 1 \in T
  <2> TAKE n \in T
  <2>1. PICK g : g = [s \in K(n) |-> Part(g, f, s)] OBVIOUS
  <2> DEFINE h == [s \in K(n + 1) |-> Part(g, f, s)]
  <2>2. n \in Nat OBVIOUS
  <2>3. \A s \in K(n) : s \in K(n + 1) /\ h[s] = g[s] BY <1>1, <2>1, <2>2
  <2>4. ASSUME NEW s \in K(n + 1) PROVE Part(g, f, s) = Part(h, f, s)
    <3>1. CASE s = {} BY <3>1 DEF Part
    <3>2. CASE s # {}
      <4>1. IsFiniteSet(s) /\ Cardinality(s) <= n + 1 BY <1>1
      <4>2. Cardinality(s \ {Pick(s)}) = Cardinality(s) - 1 BY <3>2, <4>1, OneLess
      <4>3. s \ {Pick(s)} \in K(n) BY <1>1, <2>2, <4>1, <4>2
      <4> HIDE DEF h, K
      <4> QED BY <2>3, <3>2, <4>3 DEF Part
    <3> QED BY <3>1, <3>2
  <2>5. h = [s \in K(n + 1) |-> Part(h, f, s)]
    <3>1. \A s \in K(n + 1) : Part(g, f, s) = Part(h, f, s) BY <2>4
    <3>2. h = [s \in K(n + 1) |-> Part(g, f, s)] OBVIOUS
    <3> HIDE DEF h, K
    <3> QED BY <3>1, <3>2
  <2> HIDE DEF h, K
  <2> QED BY <2>2, <2>5
<1>4. T = Nat
  <2>1. T \subseteq Nat OBVIOUS
  <2> HIDE DEF T
  <2> QED BY <1>2, <1>3, <2>1, NatSet
<1>5. Cardinality(S) \in T BY <1>1, <1>4
<1>6. K(Cardinality(S)) = SUBSET S
  <2>1. \A s \in SUBSET S : Cardinality(s) <= Cardinality(S) BY FS_Subset
  <2> QED BY <2>1
<1>7. \E g : g = [s \in SUBSET S |-> Part(g, f, s)]
  <2> HIDE DEF K
  <2> QED BY <1>5, <1>6
<1>8. Parts(f, S) = [s \in SUBSET S |-> Part(Parts(f, S), f, s)] BY <1>7 DEF Parts
<1> QED BY <1>8

\* What each part of a sum is.
LEMMA PartsAre ==
  ASSUME NEW f, NEW S, IsFiniteSet(S), NEW s \in SUBSET S
  PROVE  Parts(f, S)[s] = IF s = {} THEN 0 ELSE f[Pick(s)] + Parts(f, S)[s \ {Pick(s)}]
<1>2. Parts(f, S)[s] = Part(Parts(f, S), f, s) BY PartsExist
<1> QED BY <1>2 DEF Part

\* A part of a sum does not depend on what is not in it.
LEMMA PartsAgree ==
  ASSUME NEW f, NEW g, NEW S, NEW R, IsFiniteSet(S), IsFiniteSet(R),
         NEW s, s \subseteq S, s \subseteq R, \A x \in s : f[x] = g[x]
  PROVE  Parts(f, S)[s] = Parts(g, R)[s]
<1> DEFINE Same(t) == Parts(f, S)[t] = Parts(g, R)[t]
           T == {n \in Nat : \A t \in SUBSET s : Cardinality(t) = n => Same(t)}
<1>1. \A t \in SUBSET s : IsFiniteSet(t) /\ Cardinality(t) \in Nat BY FS_Subset, FS_CardinalityType
<1>2. 0 \in T
  <2> SUFFICES ASSUME NEW t \in SUBSET s, Cardinality(t) = 0 PROVE Same(t) OBVIOUS
  <2>1. t = {} BY <1>1, FS_EmptySet
  <2>2. Parts(f, S)[t] = 0 /\ Parts(g, R)[t] = 0 BY <2>1, PartsAre
  <2> QED BY <2>2
<1>3. \A n \in T : n + 1 \in T
  <2> SUFFICES ASSUME NEW n \in T, NEW t \in SUBSET s, Cardinality(t) = n + 1 PROVE Same(t) OBVIOUS
  <2> DEFINE r == t \ {Pick(t)}
  <2>1. n \in Nat OBVIOUS
  <2>2. t # {} BY <2>1, FS_EmptySet
  <2>3. Cardinality(r) = n /\ r \in SUBSET s BY <1>1, <2>1, <2>2, OneLess
  <2>4. Same(r) BY <2>3
  <2>5. f[Pick(t)] = g[Pick(t)] BY <2>2, PickIn
  <2> HIDE DEF T
  <2>8. t \in SUBSET S /\ t \in SUBSET R OBVIOUS
  <2>6. Parts(f, S)[t] = f[Pick(t)] + Parts(f, S)[r] BY <2>2, <2>8, PartsAre
  <2>7. Parts(g, R)[t] = g[Pick(t)] + Parts(g, R)[r] BY <2>2, <2>8, PartsAre
  <2> QED BY <2>4, <2>5, <2>6, <2>7
<1>4. T = Nat
  <2>1. T \subseteq Nat OBVIOUS
  <2> HIDE DEF T
  <2> QED BY <1>2, <1>3, <2>1, NatSet
<1>5. Cardinality(s) \in T BY <1>1, <1>4
<1> QED BY <1>5

\* A sum is of what is summed only.
LEMMA SumAgrees ==
  ASSUME NEW f, NEW g, NEW S, IsFiniteSet(S), \A x \in S : f[x] = g[x]
  PROVE  SumFunctionOnSet(f, S) = SumFunctionOnSet(g, S)
BY PartsAgree, SumIsPart

\* The sum, one element first.
LEMMA SumFirst ==
  ASSUME NEW f, NEW S, IsFiniteSet(S)
  PROVE  SumFunctionOnSet(f, S) = IF S = {} THEN 0 ELSE f[Pick(S)] + SumFunctionOnSet(f, S \ {Pick(S)})
<1>1. CASE S = {} BY <1>1, PartsAre, SumIsPart
<1>2. CASE S # {}
  <2> DEFINE R == S \ {Pick(S)}
  <2>1. IsFiniteSet(R) /\ R \subseteq S BY <1>2, OneLess
  <2>2. Parts(f, S)[R] = Parts(f, R)[R] BY <2>1, PartsAgree
  <2>3. Parts(f, S)[S] = f[Pick(S)] + Parts(f, S)[R] BY <1>2, PartsAre
  <2> QED BY <1>2, <2>2, <2>3, SumIsPart
<1> QED BY <1>1, <1>2

\* A sum of integers is one, and a sum of natural numbers, too.
LEMMA SumType ==
  ASSUME NEW f, NEW S, IsFiniteSet(S), \A x \in S : f[x] \in Int
  PROVE  SumFunctionOnSet(f, S) \in Int /\ ((\A x \in S : f[x] >= 0) => SumFunctionOnSet(f, S) >= 0)
<1> DEFINE Sum(s) == SumFunctionOnSet(f, s)
           Good(s) == Sum(s) \in Int /\ ((\A x \in S : f[x] >= 0) => Sum(s) >= 0)
           T == {n \in Nat : \A s \in SUBSET S : Cardinality(s) = n => Good(s)}
<1>1. \A s \in SUBSET S : IsFiniteSet(s) /\ Cardinality(s) \in Nat BY FS_Subset, FS_CardinalityType
<1>2. 0 \in T
  <2> SUFFICES ASSUME NEW s \in SUBSET S, Cardinality(s) = 0 PROVE Good(s) OBVIOUS
  <2>1. s = {} BY <1>1, FS_EmptySet
  <2>2. Sum(s) = 0 BY <1>1, <2>1, SumFirst
  <2> QED BY <2>2
<1>3. \A n \in T : n + 1 \in T
  <2> SUFFICES ASSUME NEW n \in T, NEW s \in SUBSET S, Cardinality(s) = n + 1 PROVE Good(s) OBVIOUS
  <2> DEFINE r == s \ {Pick(s)}
  <2>1. n \in Nat OBVIOUS
  <2>2. s # {} BY <2>1, FS_EmptySet
  <2>3. Cardinality(r) = n /\ r \in SUBSET S BY <1>1, <2>1, <2>2, OneLess
  <2>4. Good(r) BY <2>3
  <2>5. f[Pick(s)] \in Int /\ Pick(s) \in S BY <2>2, PickIn
  <2>6. Sum(s) = f[Pick(s)] + Sum(r) BY <1>1, <2>2, SumFirst
  <2> HIDE DEF Sum, r
  <2> QED BY <2>4, <2>5, <2>6
<1>4. T = Nat
  <2>1. T \subseteq Nat OBVIOUS
  <2> HIDE DEF T
  <2> QED BY <1>2, <1>3, <2>1, NatSet
<1>5. Cardinality(S) \in T BY <1>1, <1>4
<1> QED BY <1>5

\* Zeros add up to nothing.
LEMMA SumZeros ==
  ASSUME NEW f, NEW S, IsFiniteSet(S), \A x \in S : f[x] = 0
  PROVE  SumFunctionOnSet(f, S) = 0
<1> DEFINE Sum(s) == SumFunctionOnSet(f, s)
           T == {n \in Nat : \A s \in SUBSET S : Cardinality(s) = n => Sum(s) = 0}
<1>1. \A s \in SUBSET S : IsFiniteSet(s) /\ Cardinality(s) \in Nat BY FS_Subset, FS_CardinalityType
<1>2. 0 \in T
  <2> SUFFICES ASSUME NEW s \in SUBSET S, Cardinality(s) = 0 PROVE Sum(s) = 0 OBVIOUS
  <2>1. s = {} BY <1>1, FS_EmptySet
  <2> QED BY <1>1, <2>1, SumFirst
<1>3. \A n \in T : n + 1 \in T
  <2> SUFFICES ASSUME NEW n \in T, NEW s \in SUBSET S, Cardinality(s) = n + 1 PROVE Sum(s) = 0 OBVIOUS
  <2> DEFINE r == s \ {Pick(s)}
  <2>1. n \in Nat OBVIOUS
  <2>2. s # {} BY <2>1, FS_EmptySet
  <2>3. Cardinality(r) = n /\ r \in SUBSET S BY <1>1, <2>1, <2>2, OneLess
  <2>4. Sum(r) = 0 BY <2>3
  <2>5. f[Pick(s)] = 0 BY <2>2, PickIn
  <2>6. Sum(s) = f[Pick(s)] + Sum(r) BY <1>1, <2>2, SumFirst
  <2> HIDE DEF Sum, r
  <2> QED BY <2>4, <2>5, <2>6
<1>4. T = Nat
  <2>1. T \subseteq Nat OBVIOUS
  <2> HIDE DEF T
  <2> QED BY <1>2, <1>3, <2>1, NatSet
<1>5. Cardinality(S) \in T BY <1>1, <1>4
<1> QED BY <1>5

\* Any element of a sum can be taken first.
LEMMA SumRemove ==
  ASSUME NEW f, NEW S, IsFiniteSet(S), \A x \in S : f[x] \in Int, NEW a \in S
  PROVE  SumFunctionOnSet(f, S) = f[a] + SumFunctionOnSet(f, S \ {a})
<1> DEFINE Sum(s) == SumFunctionOnSet(f, s)
           Good(s) == \A b \in s : Sum(s) = f[b] + Sum(s \ {b})
           T == {n \in Nat : \A s \in SUBSET S : Cardinality(s) = n => Good(s)}
<1>1. \A s \in SUBSET S : IsFiniteSet(s) /\ Cardinality(s) \in Nat BY FS_Subset, FS_CardinalityType
<1>0. \A s \in SUBSET S : Sum(s) \in Int BY <1>1, SumType
<1>2. 0 \in T
  <2> SUFFICES ASSUME NEW s \in SUBSET S, Cardinality(s) = 0 PROVE Good(s) OBVIOUS
  <2>1. s = {} BY <1>1, FS_EmptySet
  <2> QED BY <2>1
<1>3. \A n \in T : n + 1 \in T
  <2> SUFFICES ASSUME NEW n \in T PROVE n + 1 \in T OBVIOUS
  <2>0. n + 1 \in Nat /\ \A s \in SUBSET S : Cardinality(s) = n => Good(s) OBVIOUS
  <2> SUFFICES ASSUME NEW s \in SUBSET S, Cardinality(s) = n + 1 PROVE Good(s)
    <3> HIDE DEF Good
    <3> QED BY <2>0
  <2> SUFFICES ASSUME NEW b \in s PROVE Sum(s) = f[b] + Sum(s \ {b}) OBVIOUS
  <2> DEFINE c == Pick(s)
  <2>1. n \in Nat OBVIOUS
  <2>2. c \in s BY PickIn
  <2>3. Sum(s) = f[c] + Sum(s \ {c}) BY <1>1, SumFirst
  <2>4. CASE b = c BY <2>3, <2>4
  <2>5. CASE b # c
    <3> HIDE DEF c
    <3>1. s \ {c} \in SUBSET S /\ s \ {b} \in SUBSET S /\ (s \ {b}) \ {c} \in SUBSET S OBVIOUS
    <3>2. Cardinality(s \ {c}) = n /\ Cardinality(s \ {b}) = n
      <4>1. IsFiniteSet(s) BY <1>1
      <4>2. Cardinality(s \ {c}) = Cardinality(s) - 1 BY <2>2, <4>1, FS_RemoveElement
      <4>3. Cardinality(s \ {b}) = Cardinality(s) - 1 BY <4>1, FS_RemoveElement
      <4> QED BY <2>1, <4>2, <4>3
    <3>3. Good(s \ {c}) /\ Good(s \ {b}) BY <2>0, <3>1, <3>2
    <3>4. b \in s \ {c} /\ c \in s \ {b} BY <2>2, <2>5
    <3> DEFINE r == (s \ {b}) \ {c}
    <3>7. (s \ {c}) \ {b} = r OBVIOUS
    <3>5. Sum(s \ {c}) = f[b] + Sum(r) BY <3>3, <3>4, <3>7
    <3>6. Sum(s \ {b}) = f[c] + Sum(r) BY <3>3, <3>4
    <3>8. f[b] \in Int /\ f[c] \in Int /\ Sum(r) \in Int BY <1>0, <2>2, <3>1
    <3> HIDE DEF Sum, r
    <3> QED BY <2>3, <3>5, <3>6, <3>8
  <2> QED BY <2>4, <2>5
<1>4. T = Nat
  <2>1. T \subseteq Nat OBVIOUS
  <2> HIDE DEF T
  <2> QED BY <1>2, <1>3, <2>1, NatSet
<1>5. Cardinality(S) \in T BY <1>1, <1>4
<1> QED BY <1>5

\* One value of a function is changed.
LEMMA SumChange ==
  ASSUME NEW S, IsFiniteSet(S), NEW f \in [S -> Int], NEW a \in S, NEW g \in [S -> Int],
         \A x \in S \ {a} : g[x] = f[x]
  PROVE  SumFunction(g) = SumFunction(f) - f[a] + g[a]
<1> DEFINE R == S \ {a}
<1>1. \A x \in R : g[x] = f[x] OBVIOUS
<1>2. DOMAIN f = S /\ DOMAIN g = S OBVIOUS
<1>3. IsFiniteSet(R) BY FS_RemoveElement
<1>4. SumFunctionOnSet(g, R) = SumFunctionOnSet(f, R) BY <1>1, <1>3, SumAgrees
<1>5. SumFunctionOnSet(f, S) = f[a] + SumFunctionOnSet(f, R) BY SumRemove
<1>6. SumFunctionOnSet(g, S) = g[a] + SumFunctionOnSet(g, R) BY <1>1, SumRemove
<1>7. SumFunctionOnSet(f, R) \in Int BY <1>3, SumType
<1>8. SumFunction(g) = SumFunction(f) - f[a] + g[a]
  <2>1. SumFunction(g) = SumFunctionOnSet(g, S) /\ SumFunction(f) = SumFunctionOnSet(f, S) BY <1>2 DEF SumFunction
  <2> QED BY <1>1, <1>4, <1>5, <1>6, <1>7, <2>1
<1> QED BY <1>8

\* The numbers up to n.
LEMMA UpTo ==
  ASSUME NEW m \in Int, NEW n \in Int, m <= n + 1
  PROVE  IsFiniteSet(m..n) /\ n + 1 \in m..(n + 1) /\ (m..(n + 1)) \ {n + 1} = m..n
<1>1. IsFiniteSet(m..n) BY FS_Interval
<1>2. n + 1 \in m..(n + 1) /\ (m..(n + 1)) \ {n + 1} = m..n OBVIOUS
<1> QED BY <1>1, <1>2

\* The sum over a sequence is an integer, natural when its elements are.
LEMMA SumSeqType ==
  ASSUME NEW w \in Seq(Int)
  PROVE  SumFunction(w) \in Int /\ ((\A i \in DOMAIN w : w[i] >= 0) => SumFunction(w) >= 0)
<1>1. DOMAIN w = 1..Len(w) /\ Len(w) \in Nat /\ \A i \in 1..Len(w) : w[i] \in Int OBVIOUS
<1>2. IsFiniteSet(1..Len(w)) BY <1>1, FS_Interval
<1> QED BY <1>1, <1>2, SumType DEF SumFunction

LEMMA SumEmpty == SumFunction(<<>>) = 0
<1>1. DOMAIN <<>> = {} OBVIOUS
<1>2. IsFiniteSet({}) BY FS_EmptySet
<1> QED BY <1>1, <1>2, SumFirst DEF SumFunction

\* One more element at the end of a sequence.
LEMMA SumAppend ==
  ASSUME NEW w \in Seq(Int), NEW x \in Int
  PROVE  SumFunction(Append(w, x)) = SumFunction(w) + x
<1> DEFINE v == Append(w, x)
           n == Len(w)
<1>1. n \in Nat /\ DOMAIN w = 1..n /\ DOMAIN v = 1..(n + 1) OBVIOUS
<1>2. v[n + 1] = x /\ \A i \in 1..n : v[i] = w[i] /\ w[i] \in Int OBVIOUS
<1>3. \A i \in 1..(n + 1) : v[i] \in Int OBVIOUS
<1> HIDE DEF v, n
<1>4. /\ IsFiniteSet(1..n) /\ IsFiniteSet(1..(n + 1)) /\ n + 1 \in 1..(n + 1)
      /\ (1..(n + 1)) \ {n + 1} = 1..n
  <2>1. 1 \in Int /\ n \in Int /\ n + 1 \in Int /\ 1 <= n + 1 /\ 1 <= n + 2 BY <1>1
  <2> QED BY <2>1, UpTo, FS_Interval
<1>5. SumFunctionOnSet(v, 1..(n + 1)) = v[n + 1] + SumFunctionOnSet(v, 1..n)
  <2> DEFINE S == 1..(n + 1)
  <2>1. IsFiniteSet(S) /\ n + 1 \in S /\ S \ {n + 1} = 1..n /\ \A i \in S : v[i] \in Int BY <1>3, <1>4
  <2> HIDE DEF S
  <2>2. SumFunctionOnSet(v, S) = v[n + 1] + SumFunctionOnSet(v, S \ {n + 1}) BY <2>1, SumRemove
  <2> QED BY <2>1, <2>2 DEF S
<1> DEFINE N == 1..n
<1>10. IsFiniteSet(N) /\ \A i \in N : v[i] = w[i] /\ w[i] \in Int BY <1>2, <1>4
<1> HIDE DEF N
<1>6. SumFunctionOnSet(v, N) = SumFunctionOnSet(w, N) BY <1>10, SumAgrees
<1>7. SumFunctionOnSet(w, N) \in Int BY <1>10, SumType
<1>8. SumFunction(v) = SumFunctionOnSet(v, 1..(n + 1)) /\ SumFunction(w) = SumFunctionOnSet(w, 1..n)
  BY <1>1 DEF SumFunction
<1>9. SumFunction(v) = SumFunction(w) + x BY <1>1, <1>2, <1>5, <1>6, <1>7, <1>8 DEF N
<1> QED BY <1>9 DEF v

\* A sum does not depend on where the sequence begins.
LEMMA SumShifted ==
  ASSUME NEW w, NEW v, NEW l \in Nat, \A i \in 1..l : w[i + 1] \in Int /\ v[i] = w[i + 1]
  PROVE  SumFunctionOnSet(v, 1..l) = SumFunctionOnSet(w, 2..(l + 1))
<1> DEFINE Same(n) == SumFunctionOnSet(v, 1..n) = SumFunctionOnSet(w, 2..(n + 1))
           T == {n \in Nat : n <= l => Same(n)}
<1>1. 0 \in T
  <2>1. 1..0 = {} /\ 2..(0 + 1) = {} OBVIOUS
  <2>2. SumFunctionOnSet(v, {}) = 0 /\ SumFunctionOnSet(w, {}) = 0 BY SumFirst, FS_EmptySet
  <2> QED BY <2>1, <2>2
<1>2. \A n \in T : n + 1 \in T
  <2> SUFFICES ASSUME NEW n \in T, n + 1 <= l PROVE Same(n + 1) OBVIOUS
  <2>1. n \in Nat /\ Same(n) OBVIOUS
  <2> DEFINE A == 1..(n + 1)
             B == 2..(n + 2)
  <2>2. IsFiniteSet(A) /\ IsFiniteSet(B) BY <2>1, FS_Interval
  <2>3. n + 1 \in A /\ A \ {n + 1} = 1..n /\ n + 2 \in B /\ B \ {n + 2} = 2..(n + 1) BY <2>1
  <2>4. \A i \in A : v[i] \in Int BY <2>1
  <2>5. \A i \in B : w[i] \in Int
    <3> SUFFICES ASSUME NEW i \in B PROVE w[i] \in Int OBVIOUS
    <3>1. i - 1 \in 1..l /\ i = (i - 1) + 1 BY <2>1
    <3> QED BY <3>1
  <2>6. v[n + 1] = w[n + 2] /\ w[n + 2] \in Int
    <3>1. n + 1 \in 1..l /\ (n + 1) + 1 = n + 2 BY <2>1
    <3> QED BY <3>1
  <2>7. B = 2..((n + 1) + 1) BY <2>1
  <2> HIDE DEF A, B, T
  <2>8. SumFunctionOnSet(v, A) = v[n + 1] + SumFunctionOnSet(v, A \ {n + 1}) BY <2>2, <2>3, <2>4, SumRemove
  <2>9. SumFunctionOnSet(w, B) = w[n + 2] + SumFunctionOnSet(w, B \ {n + 2}) BY <2>2, <2>3, <2>5, SumRemove
  <2>10. SumFunctionOnSet(v, A) = SumFunctionOnSet(w, B) BY <2>1, <2>3, <2>6, <2>8, <2>9
  <2> QED BY <2>7, <2>10 DEF A
<1>3. T = Nat
  <2>1. T \subseteq Nat OBVIOUS
  <2> HIDE DEF T
  <2> QED BY <1>1, <1>2, <2>1, NatSet
<1>4. l \in T BY <1>3
<1> QED BY <1>4

\* The first element of a sequence is taken.
LEMMA SumTail ==
  ASSUME NEW w \in Seq(Int), w # <<>>
  PROVE  SumFunction(Tail(w)) = SumFunction(w) - w[1]
<1> DEFINE v == Tail(w)
           l == Len(w) - 1
           S == 1..Len(w)
<1>1. l \in Nat /\ DOMAIN v = 1..l /\ DOMAIN w = S /\ 2..(l + 1) = S \ {1} /\ 1 \in S OBVIOUS
<1>2. \A i \in 1..l : w[i + 1] \in Int /\ v[i] = w[i + 1] OBVIOUS
<1>3. IsFiniteSet(S) /\ \A i \in S : w[i] \in Int BY FS_Interval
<1> HIDE DEF v, l, S
<1>4. SumFunctionOnSet(v, 1..l) = SumFunctionOnSet(w, 2..(l + 1)) BY <1>1, <1>2, SumShifted
<1>5. SumFunctionOnSet(w, S) = w[1] + SumFunctionOnSet(w, S \ {1}) BY <1>1, <1>3, SumRemove
<1>6. SumFunctionOnSet(w, S \ {1}) \in Int
  <2>1. IsFiniteSet(S \ {1}) BY <1>3, FS_RemoveElement
  <2> QED BY <1>3, <2>1, SumType
<1>7. SumFunction(v) = SumFunctionOnSet(v, 1..l) /\ SumFunction(w) = SumFunctionOnSet(w, S) BY <1>1 DEF SumFunction
<1>9. w[1] \in Int BY <1>1, <1>3
<1>10. SumFunction(v) = SumFunctionOnSet(w, S \ {1}) BY <1>1, <1>4, <1>7
<1>11. SumFunction(w) = w[1] + SumFunctionOnSet(w, S \ {1}) BY <1>5, <1>7
<1>8. SumFunction(v) = SumFunction(w) - w[1] BY <1>6, <1>9, <1>10, <1>11
<1> QED BY <1>8 DEF v

-----------------------------------------------------------------------------
(* The sum of the first elements of a sequence.                             *)

SumTo(w, n) == SumFunctionOnSet(w, 1..n)

LEMMA SumToType ==
  ASSUME NEW w \in Seq(Int), NEW n \in 0..Len(w)
  PROVE  SumTo(w, n) \in Int /\ ((\A i \in DOMAIN w : w[i] >= 0) => SumTo(w, n) >= 0)
<1>1. n \in Int /\ 1 \in Int OBVIOUS
<1>2. IsFiniteSet(1..n) BY <1>1, FS_Interval
<1>3. \A i \in 1..n : i \in DOMAIN w /\ w[i] \in Int OBVIOUS
<1> DEFINE N == 1..n
<1>4. IsFiniteSet(N) /\ \A i \in N : i \in DOMAIN w /\ w[i] \in Int BY <1>2, <1>3
<1>5. SumTo(w, n) = SumFunctionOnSet(w, N) BY DEF SumTo
<1> HIDE DEF N
<1> QED BY <1>4, <1>5, SumType

LEMMA SumToNone == ASSUME NEW w PROVE SumTo(w, 0) = 0
<1>1. 1..0 = {} OBVIOUS
<1>2. IsFiniteSet({}) BY FS_EmptySet
<1> QED BY <1>1, <1>2, SumFirst DEF SumTo

LEMMA SumToAll == ASSUME NEW w \in Seq(Int) PROVE SumTo(w, Len(w)) = SumFunction(w)
BY DEF SumTo, SumFunction

\* One element more.
LEMMA SumToNext ==
  ASSUME NEW w \in Seq(Int), NEW n \in Nat, n + 1 <= Len(w)
  PROVE  SumTo(w, n + 1) = SumTo(w, n) + w[n + 1]
<1> DEFINE S == 1..(n + 1)
           R == 1..n
<1>1. IsFiniteSet(R) /\ n + 1 \in S /\ S \ {n + 1} = R BY UpTo
<1>2. IsFiniteSet(S) BY FS_Interval
<1>3. \A i \in S : w[i] \in Int OBVIOUS
<1>4. \A i \in R : w[i] \in Int OBVIOUS
<1>5. SumTo(w, n + 1) = SumFunctionOnSet(w, S) /\ SumTo(w, n) = SumFunctionOnSet(w, R) BY DEF SumTo
<1> HIDE DEF S, R
<1>6. SumFunctionOnSet(w, S) = w[n + 1] + SumFunctionOnSet(w, S \ {n + 1}) BY <1>1, <1>2, <1>3, SumRemove
<1>7. SumFunctionOnSet(w, R) \in Int BY <1>1, <1>4, SumType
<1>8. w[n + 1] \in Int BY <1>1, <1>3
<1>9. SumFunctionOnSet(w, S) = w[n + 1] + SumFunctionOnSet(w, R) BY <1>1, <1>6
<1>10. SumTo(w, n + 1) = w[n + 1] + SumTo(w, n) /\ SumTo(w, n) \in Int BY <1>5, <1>7, <1>9
<1> QED BY <1>8, <1>10

\* What comes later does not count.
LEMMA SumToAppend ==
  ASSUME NEW w \in Seq(Int), NEW x \in Int, NEW n \in 0..Len(w)
  PROVE  SumTo(Append(w, x), n) = SumTo(w, n)
<1> DEFINE v == Append(w, x)
           N == 1..n
<1>1. IsFiniteSet(N) BY FS_Interval
<1>2. \A i \in N : v[i] = w[i] OBVIOUS
<1>3. SumTo(v, n) = SumFunctionOnSet(v, N) /\ SumTo(w, n) = SumFunctionOnSet(w, N) BY DEF SumTo
<1> HIDE DEF v, N
<1>4. SumTo(v, n) = SumTo(w, n) BY <1>1, <1>2, <1>3, SumAgrees
<1> QED BY <1>4 DEF v

\* The first element is taken.
LEMMA SumToTail ==
  ASSUME NEW w \in Seq(Int), w # <<>>, NEW n \in 0..(Len(w) - 1)
  PROVE  SumTo(Tail(w), n) = SumTo(w, n + 1) - w[1]
<1> DEFINE v == Tail(w)
           S == 1..(n + 1)
<1>1. n \in Nat /\ 2..(n + 1) = S \ {1} /\ 1 \in S OBVIOUS
<1>2. \A i \in 1..n : w[i + 1] \in Int /\ v[i] = w[i + 1] OBVIOUS
<1>10. IsFiniteSet(S)
  <2>1. n + 1 \in Int /\ 1 \in Int BY <1>1
  <2> QED BY <2>1, FS_Interval
<1>11. \A i \in S : w[i] \in Int OBVIOUS
<1>3. IsFiniteSet(S) /\ \A i \in S : w[i] \in Int BY <1>10, <1>11
<1>4. SumTo(v, n) = SumFunctionOnSet(v, 1..n) /\ SumTo(w, n + 1) = SumFunctionOnSet(w, S) BY DEF SumTo
<1> HIDE DEF v, S
<1>5. SumFunctionOnSet(v, 1..n) = SumFunctionOnSet(w, 2..(n + 1)) BY <1>1, <1>2, SumShifted
<1>6. SumFunctionOnSet(w, S) = w[1] + SumFunctionOnSet(w, S \ {1}) BY <1>1, <1>3, SumRemove
<1>7. SumFunctionOnSet(w, S \ {1}) \in Int
  <2> DEFINE R == S \ {1}
  <2>1. IsFiniteSet(R) /\ \A i \in R : w[i] \in Int BY <1>1, <1>3, FS_RemoveElement
  <2> HIDE DEF R
  <2>2. SumFunctionOnSet(w, R) \in Int BY <2>1, SumType
  <2> QED BY <2>2 DEF R
<1>8. w[1] \in Int BY <1>1, <1>3
<1>12. SumTo(v, n) = SumFunctionOnSet(w, S \ {1}) BY <1>1, <1>4, <1>5
<1>13. SumTo(w, n + 1) = w[1] + SumTo(v, n) /\ SumTo(v, n) \in Int BY <1>4, <1>6, <1>7, <1>12
<1>9. SumTo(v, n) = SumTo(w, n + 1) - w[1] BY <1>8, <1>13
<1> QED BY <1>9 DEF v

\* The sum of natural numbers grows with each.
LEMMA SumToGrows ==
  ASSUME NEW w \in Seq(Nat), NEW m \in 0..Len(w), NEW n \in m..Len(w)
  PROVE  SumTo(w, m) <= SumTo(w, n)
<1> DEFINE T == {k \in Nat : m + k <= Len(w) => SumTo(w, m) <= SumTo(w, m + k)}
<1>0. w \in Seq(Int) /\ Len(w) \in Nat /\ m \in Nat /\ \A i \in DOMAIN w : w[i] >= 0 OBVIOUS
<1>1. \A k \in 0..Len(w) : SumTo(w, k) \in Int BY <1>0, SumToType
<1>2. 0 \in T BY <1>0, <1>1
<1>3. \A k \in T : k + 1 \in T
  <2> SUFFICES ASSUME NEW k \in Nat, m + k <= Len(w) => SumTo(w, m) <= SumTo(w, m + k), m + (k + 1) <= Len(w)
               PROVE  SumTo(w, m) <= SumTo(w, m + (k + 1))
    OBVIOUS
  <2>1. m + k \in Nat /\ (m + k) + 1 <= Len(w) /\ m + (k + 1) = (m + k) + 1 BY <1>0
  <2>2. SumTo(w, (m + k) + 1) = SumTo(w, m + k) + w[(m + k) + 1] BY <1>0, <2>1, SumToNext
  <2>3. w[(m + k) + 1] \in Nat BY <1>0, <2>1
  <2>4. SumTo(w, m) \in Int /\ SumTo(w, m + k) \in Int BY <1>0, <1>1, <2>1
  <2> QED BY <2>1, <2>2, <2>3, <2>4
<1>4. T = Nat BY <1>2, <1>3, NatSet
<1>5. n - m \in Nat /\ m + (n - m) = n BY <1>0
<1>6. n - m \in T BY <1>4, <1>5
<1> QED BY <1>0, <1>5, <1>6

-----------------------------------------------------------------------------
(* The ledgers.                                                             *)

Win == [local : Int, recv : Int, consumed : Int, reduction : Int, queued : BOOLEAN]
Out ==
  [type : {"WINDOW_UPDATE"}, id : Ids, inc : Nat \ {0}] \cup [type : {"RST_STREAM"}, id : StreamIds, inc : {0}]
    \cup [type : {"GOAWAY"}, id : {0}, inc : {0}]
Announcement == [type : {"SETTINGS"}, id : {0}, inc : 0..MaxWindow]
In ==
  [type : {"HEADERS"}, id : StreamIds] \cup [type : {"SETTINGS_ACK"}]
    \cup [type : {"DATA"}, id : StreamIds, len : Nat, pad : Nat \cup {NoPad}, end : BOOLEAN]
Srv ==
  [win : [Ids -> Win], stream : [StreamIds -> {"idle", "opened", "closing", "closed"}], shutRd : SUBSET StreamIds,
   urgent : Seq(Announcement), ob : Seq(Out), goaway : {"none", "queued", "sent"}, initial : 0..MaxWindow,
   inflight : Seq(0..MaxWindow), overrun : SUBSET Ids]
Reader ==
  [id : StreamIds, left : Nat, end : BOOLEAN, pad : Nat, padLength : Nat \cup {NoPad},
   state : {"READ_PAD_DATA", "READ_DATA", "IGN_DATA"}]

Types ==
  /\ srv \in Srv /\ fromPeer \in Seq(In) /\ toPeer \in Seq(Out \cup Announcement)
  /\ peer \in [credit : [Ids -> Int], initial : 0..MaxWindow, opened : SUBSET StreamIds, ended : SUBSET StreamIds]
  /\ held \in [StreamIds -> Nat] /\ frames \in Nat /\ calls \in Nat /\ use \in Uses
  /\ iframe = NoFrame \/ iframe \in Reader
  /\ iframe # NoFrame /\ iframe.state = "READ_PAD_DATA" => iframe.left > 0 /\ iframe.padLength \in Nat
  /\ \A i \in DOMAIN fromPeer : fromPeer[i].type = "DATA" => fromPeer[i].pad = NoPad \/ fromPeer[i].len > 0

\* The counts of one window, and the updates that are queued, are in their range.
InRange(s) ==
  /\ \A id \in Ids :
       /\ s.win[id].local <= MaxWindow /\ (Apart => s.win[id].recv <= MaxWindow)
       /\ s.win[id].consumed \in 0..MaxWindow /\ s.win[id].reduction >= 0
  /\ Apart => \A i \in DOMAIN s.ob : s.ob[i].inc <= MaxWindow

\* What a window has left, with what is queued to be announced taken off; what of it the
\* application has not consumed
Claim(s, id) == s.win[id].local - s.win[id].recv - Updates(s.ob, id)
Kept(s, id) == s.win[id].recv - s.win[id].consumed

\* By how much the server would accept more than the peer may send.
Slack(id) == Claim(srv, id) + SettingsGap(id) - Updates(toPeer, id) - peer.credit[id] - InFlight(id)

Balanced == \A id \in Ids : Counted(id) => Slack(id) = 0

\* Also when the session or the stream is closing, and updates are dropped
Roomy == use.honest /\ Apart => \A id \in Ids : id = 0 \/ Live(srv, id) => Slack(id) >= 0

AboutStream(f, id) == f.type \in {"HEADERS", "DATA"} /\ f.id = id

\* Nothing has happened to a stream at the server.
Untouched(id) ==
  /\ srv.stream[id] = "idle" /\ held[id] = 0 /\ Updates(srv.ob, id) = 0 /\ Updates(toPeer, id) = 0
  /\ iframe # NoFrame => iframe.id # id

Unopened ==
  \A id \in StreamIds \ peer.opened : Untouched(id) /\ \A i \in DOMAIN fromPeer : ~AboutStream(fromPeer[i], id)

\* HEADERS open a stream the server does not know yet, before any DATA of it.
Opening ==
  \A i \in DOMAIN fromPeer : fromPeer[i].type = "HEADERS" =>
    LET id == fromPeer[i].id
    IN /\ id \in peer.opened /\ Untouched(id) /\ peer.credit[id] + Bytes(fromPeer, id) = peer.initial
       /\ \A j \in DOMAIN fromPeer : (AboutStream(fromPeer[j], id) /\ i # j) => i < j /\ fromPeer[j].type = "DATA"

\* No DATA of a stream follows its end.
NoDataOf(id) == \A i \in DOMAIN fromPeer : fromPeer[i].type = "DATA" => fromPeer[i].id # id
Ending ==
  /\ \A i, j \in DOMAIN fromPeer :
       (i < j /\ fromPeer[i].type = "DATA" /\ fromPeer[j].type = "DATA" /\ fromPeer[i].id = fromPeer[j].id)
       => ~fromPeer[i].end
  /\ \A i \in DOMAIN fromPeer : fromPeer[i].type = "DATA" /\ fromPeer[i].end => fromPeer[i].id \in peer.ended
  /\ iframe # NoFrame /\ iframe.end => iframe.id \in peer.ended /\ NoDataOf(iframe.id)
  /\ \A id \in srv.shutRd : id \in peer.ended /\ NoDataOf(id) /\ (iframe # NoFrame => iframe.id # id)

\* A stream that was overrun is closing and was not read to its end; one that is to be reset
\* was opened.
ResetKnown(s) == \A i \in DOMAIN s.ob : s.ob[i].type = "RST_STREAM" => s.stream[s.ob[i].id] # "idle"
Touched ==
  /\ \A id \in srv.overrun : id # 0 => srv.stream[id] \in {"closing", "closed"}
  /\ 0 \in srv.overrun => IsClosing(srv)
  /\ srv.overrun \cap srv.shutRd = {}
  /\ ResetKnown(srv)

\* DATA is ignored only where nothing is counted any more.
Ignored ==
  iframe # NoFrame /\ iframe.state = "IGN_DATA" => IsClosing(srv) \/ srv.stream[iframe.id] # "opened"

HeldRight ==
  ~use.auto /\ use.increments = {} /\ use.sizes = {} =>
    /\ ~IsClosing(srv) => Kept(srv, 0) = HeldBytes
    /\ \A s \in StreamIds : Counted(s) => Kept(srv, s) = held[s]

Fitting(s) == \A id \in Ids : s.win[id].recv <= s.win[id].local /\ s.win[id].local >= 0
Within == use.initials = {} => srv.inflight = <<>> /\ Fitting(srv)

-----------------------------------------------------------------------------
(* The acknowledgements of SETTINGS.                                        *)

OfType(wire, type) == [i \in DOMAIN wire |-> IF wire[i].type = type THEN 1 ELSE 0]
Count(wire, type) == SumFunction(OfType(wire, type))
CountTo(wire, type, i) == SumTo(OfType(wire, type), i)

\* The initial window the peer knew when it sent the i-th of the frames the server has not read
InitialAt(i) ==
  LET acks == CountTo(fromPeer, "SETTINGS_ACK", i) IN IF acks = 0 THEN srv.initial ELSE srv.inflight[acks]

Acknowledged == Count(fromPeer, "SETTINGS_ACK")
AckLedger ==
  /\ Len(srv.inflight) = Acknowledged + Count(toPeer, "SETTINGS") + Len(srv.urgent)
  /\ peer.initial = InitialAt(Len(fromPeer))
  /\ \A j \in DOMAIN toPeer : toPeer[j].type = "SETTINGS" =>
       toPeer[j].inc = srv.inflight[Acknowledged + CountTo(toPeer, "SETTINGS", j)]
  /\ \A j \in DOMAIN srv.urgent :
       srv.urgent[j].inc = srv.inflight[Acknowledged + Count(toPeer, "SETTINGS") + j]

DataFor(f, id) == IF f.type = "DATA" /\ id \in {0, f.id} THEN f.len ELSE 0
IncFor(f, id) == IF Fits(f, "WINDOW_UPDATE", id) THEN f.inc ELSE 0
Lengths(wire, id) == [i \in DOMAIN wire |-> DataFor(wire[i], id)]
Incs(wire, id) == [i \in DOMAIN wire |-> IncFor(wire[i], id)]
BytesAfter(wire, i, id) == Bytes(wire, id) - SumTo(Lengths(wire, id), i)

\* An honest peer had the credit for what it has sent, also when an initial window announced
\* since then has taken it away.
Afforded ==
  use.honest =>
    /\ peer.credit[0] >= 0
    /\ \A i \in DOMAIN fromPeer : fromPeer[i].type = "DATA" =>
         peer.credit[fromPeer[i].id] + BytesAfter(fromPeer, i, fromPeer[i].id) >= peer.initial - InitialAt(i)
    /\ iframe # NoFrame =>
         peer.credit[iframe.id] + Bytes(fromPeer, iframe.id) >= peer.initial - srv.initial

LocalInitial ==
  use.increments = {} /\ use.sizes = {} =>
    \A id \in StreamIds : srv.stream[id] # "idle" => srv.win[id].local = srv.initial

NoneAccused == use.honest /\ Apart => srv.overrun = {}

LedgerInv ==
  /\ Types /\ InRange(srv) /\ Balanced /\ Roomy /\ Unopened /\ Opening /\ Ending /\ Touched
  /\ Ignored /\ HeldRight /\ Within /\ AckLedger /\ Afforded /\ LocalInitial /\ NoneAccused

-----------------------------------------------------------------------------
(* Sequences of frames.                                                     *)

\* The first of a sequence is taken, or one more appended.
LEMMA HeadAndTail ==
  ASSUME NEW S, NEW w \in Seq(S), w # <<>>
  PROVE  /\ Head(w) \in S /\ Head(w) = w[1] /\ Tail(w) \in Seq(S) /\ Len(Tail(w)) = Len(w) - 1
         /\ Len(w) \in Nat \ {0} /\ DOMAIN w = 1..Len(w) /\ DOMAIN Tail(w) = 1..Len(w) - 1
         /\ \A i \in 1..Len(w) - 1 : Tail(w)[i] = w[i + 1] /\ i + 1 \in DOMAIN w
<1>1. Len(w) \in Nat /\ DOMAIN w = 1..Len(w) OBVIOUS
<1>2. Len(w) # 0 OBVIOUS
<1>3. 1 \in 1..Len(w) BY <1>1, <1>2
<1>4. w[1] \in S BY <1>1, <1>3
<1>5. Head(w) = w[1] OBVIOUS
<1>6. Tail(w) \in Seq(S) /\ Len(Tail(w)) = Len(w) - 1 BY <1>2
<1> QED BY <1>1, <1>2, <1>4, <1>5, <1>6

LEMMA Appended ==
  ASSUME NEW S, NEW w \in Seq(S), NEW x \in S
  PROVE  /\ Append(w, x) \in Seq(S) /\ Len(Append(w, x)) = Len(w) + 1 /\ Len(w) \in Nat
         /\ DOMAIN w = 1..Len(w) /\ DOMAIN Append(w, x) = 1..Len(w) + 1
         /\ Append(w, x)[Len(w) + 1] = x /\ \A i \in 1..Len(w) : Append(w, x)[i] = w[i]
OBVIOUS

\* The fields of frames and items.
LEMMA InFields ==
  \A f \in In :
    /\ f.type \in {"HEADERS", "SETTINGS_ACK", "DATA"}
    /\ f.type # "SETTINGS_ACK" => f.id \in StreamIds
    /\ f.type = "DATA" => f.len \in Nat /\ f.pad \in Nat \cup {NoPad} /\ f.end \in BOOLEAN
BY DEF In

Msg == Out \cup Announcement
LEMMA MsgFields ==
  /\ \A f \in Msg : f.inc \in Nat /\ f.id \in Ids
  /\ \A f \in Out :
       /\ f.type \in {"WINDOW_UPDATE", "RST_STREAM", "GOAWAY"} /\ f.inc \in Nat /\ f.id \in Ids
       /\ f.type = "WINDOW_UPDATE" => f.inc > 0
       /\ f.type = "RST_STREAM" => f.id \in StreamIds
  /\ \A f \in Announcement : f.type = "SETTINGS" /\ f.id = 0 /\ f.inc \in 0..MaxWindow
<1>1. MaxWindow \in Nat BY SizesAssumption
<1> QED BY <1>1 DEF Msg, Out, Announcement, Ids

\* What one frame contributes to the sums.
LEMMA Contributions ==
  /\ \A f \in In, id \in Ids : DataFor(f, id) \in Nat
  /\ \A f \in Msg, id \in Ids : IncFor(f, id) \in Nat
<1>1. \A f \in In, id \in Ids : DataFor(f, id) \in Nat BY InFields DEF DataFor
<1>2. \A f \in Msg, id \in Ids : IncFor(f, id) \in Nat BY MsgFields DEF IncFor
<1> QED BY <1>1, <1>2

\* How the contributions of the frames follow what happens to the sequence.
LEMMA LengthsAre ==
  ASSUME NEW w \in Seq(In), NEW id \in Ids
  PROVE  /\ Lengths(w, id) \in Seq(Nat) /\ Lengths(w, id) \in Seq(Int) /\ Len(Lengths(w, id)) = Len(w)
         /\ \A i \in DOMAIN w : Lengths(w, id)[i] = DataFor(w[i], id)
         /\ \A f \in In : Lengths(Append(w, f), id) = Append(Lengths(w, id), DataFor(f, id))
         /\ w # <<>> => Lengths(Tail(w), id) = Tail(Lengths(w, id))
<1>1. \A f \in In : DataFor(f, id) \in Nat BY Contributions
<1>2. \A i \in 1..Len(w) : w[i] \in In OBVIOUS
<1>3. Lengths(w, id) \in Seq(Nat) /\ Lengths(w, id) \in Seq(Int) /\ Len(Lengths(w, id)) = Len(w)
  BY <1>1, <1>2 DEF Lengths
<1>4. \A i \in DOMAIN w : Lengths(w, id)[i] = DataFor(w[i], id) BY DEF Lengths
<1>5. ASSUME NEW f \in In PROVE Lengths(Append(w, f), id) = Append(Lengths(w, id), DataFor(f, id))
  BY <1>1, <1>2 DEF Lengths
<1>6. ASSUME w # <<>> PROVE Lengths(Tail(w), id) = Tail(Lengths(w, id))
  BY <1>1, <1>2, <1>6 DEF Lengths
<1> QED BY <1>3, <1>4, <1>5, <1>6

LEMMA IncsAre ==
  ASSUME NEW w \in Seq(Msg), NEW id \in Ids
  PROVE  /\ Incs(w, id) \in Seq(Nat) /\ Incs(w, id) \in Seq(Int) /\ Len(Incs(w, id)) = Len(w)
         /\ \A i \in DOMAIN w : Incs(w, id)[i] = IncFor(w[i], id)
         /\ \A f \in Msg : Incs(Append(w, f), id) = Append(Incs(w, id), IncFor(f, id))
         /\ w # <<>> => Incs(Tail(w), id) = Tail(Incs(w, id))
<1>1. \A f \in Msg : IncFor(f, id) \in Nat BY Contributions
<1>2. \A i \in 1..Len(w) : w[i] \in Msg OBVIOUS
<1>3. Incs(w, id) \in Seq(Nat) /\ Incs(w, id) \in Seq(Int) /\ Len(Incs(w, id)) = Len(w)
  BY <1>1, <1>2 DEF Incs
<1>4. \A i \in DOMAIN w : Incs(w, id)[i] = IncFor(w[i], id) BY DEF Incs
<1>5. ASSUME NEW f \in Msg PROVE Incs(Append(w, f), id) = Append(Incs(w, id), IncFor(f, id))
  BY <1>1, <1>2 DEF Incs
<1>6. ASSUME w # <<>> PROVE Incs(Tail(w), id) = Tail(Incs(w, id))
  BY <1>1, <1>2, <1>6 DEF Incs
<1> QED BY <1>3, <1>4, <1>5, <1>6

One(f, type) == IF f.type = type THEN 1 ELSE 0
LEMMA OfTypeIs ==
  ASSUME NEW S, NEW w \in Seq(S), NEW type
  PROVE  /\ OfType(w, type) \in Seq(Nat) /\ OfType(w, type) \in Seq(Int) /\ Len(OfType(w, type)) = Len(w)
         /\ \A i \in DOMAIN w : OfType(w, type)[i] = One(w[i], type)
         /\ \A f \in S : OfType(Append(w, f), type) = Append(OfType(w, type), One(f, type))
         /\ w # <<>> => OfType(Tail(w), type) = Tail(OfType(w, type))
<1>1. \A f \in S : One(f, type) \in Nat BY DEF One
<1>2. \A i \in 1..Len(w) : w[i] \in S OBVIOUS
<1>3. OfType(w, type) \in Seq(Nat) /\ OfType(w, type) \in Seq(Int) /\ Len(OfType(w, type)) = Len(w)
  BY <1>1, <1>2 DEF OfType
<1>4. \A i \in DOMAIN w : OfType(w, type)[i] = One(w[i], type) BY DEF OfType, One
<1>5. ASSUME NEW f \in S PROVE OfType(Append(w, f), type) = Append(OfType(w, type), One(f, type))
  BY <1>1, <1>2 DEF OfType, One
<1>6. ASSUME w # <<>> PROVE OfType(Tail(w), type) = Tail(OfType(w, type))
  BY <1>1, <1>2, <1>6 DEF OfType, One
<1> QED BY <1>3, <1>4, <1>5, <1>6

\* The bytes of DATA in a sequence of frames.
LEMMA BytesStep ==
  ASSUME NEW w \in Seq(In), NEW id \in Ids
  PROVE  /\ Bytes(w, id) \in Nat
         /\ \A f \in In : Bytes(Append(w, f), id) = Bytes(w, id) + DataFor(f, id)
         /\ w # <<>> => Bytes(Tail(w), id) = Bytes(w, id) - DataFor(Head(w), id)
<1> DEFINE c == Lengths(w, id)
<1>1. \A v : Bytes(v, id) = SumFunction(Lengths(v, id)) BY DEF Bytes, Lengths, DataFor
<1>2. c \in Seq(Nat) /\ c \in Seq(Int) /\ Len(c) = Len(w) /\ (\A f \in In : DataFor(f, id) \in Nat)
  BY LengthsAre, Contributions
<1>3. /\ \A f \in In : Lengths(Append(w, f), id) = Append(c, DataFor(f, id))
      /\ w # <<>> => Lengths(Tail(w), id) = Tail(c) /\ c[1] = DataFor(w[1], id)
  BY LengthsAre
<1> HIDE DEF c
<1>4. \A i \in DOMAIN c : c[i] >= 0 BY <1>2
<1>5. Bytes(w, id) \in Nat BY <1>1, <1>2, <1>4, SumSeqType DEF c
<1>10. Bytes(w, id) = SumFunction(c) BY <1>1 DEF c
<1>6. ASSUME NEW f \in In PROVE Bytes(Append(w, f), id) = Bytes(w, id) + DataFor(f, id)
  <2>1. SumFunction(Append(c, DataFor(f, id))) = SumFunction(c) + DataFor(f, id) BY <1>2, SumAppend
  <2>2. Bytes(Append(w, f), id) = SumFunction(Append(c, DataFor(f, id))) BY <1>1, <1>3
  <2> QED BY <1>10, <2>1, <2>2
<1>7. ASSUME w # <<>> PROVE Bytes(Tail(w), id) = Bytes(w, id) - DataFor(Head(w), id)
  <2>1. c # <<>> BY <1>2, <1>7
  <2>2. SumFunction(Tail(c)) = SumFunction(c) - c[1] BY <1>2, <2>1, SumTail
  <2>3. Bytes(Tail(w), id) = SumFunction(Tail(c)) BY <1>1, <1>3, <1>7
  <2>4. c[1] = DataFor(Head(w), id) BY <1>3, <1>7
  <2> QED BY <1>10, <2>2, <2>3, <2>4
<1> QED BY <1>5, <1>6, <1>7

\* The increments announced in a sequence of items.
LEMMA UpdatesStep ==
  ASSUME NEW w \in Seq(Msg), NEW id \in Ids
  PROVE  /\ Updates(w, id) \in Nat
         /\ \A f \in Msg : Updates(Append(w, f), id) = Updates(w, id) + IncFor(f, id)
         /\ w # <<>> => Updates(Tail(w), id) = Updates(w, id) - IncFor(Head(w), id)
<1> DEFINE c == Incs(w, id)
<1>1. \A v : Updates(v, id) = SumFunction(Incs(v, id)) BY DEF Updates, Incs, IncFor
<1>2. c \in Seq(Nat) /\ c \in Seq(Int) /\ Len(c) = Len(w) /\ (\A f \in Msg : IncFor(f, id) \in Nat)
  BY IncsAre, Contributions
<1>3. /\ \A f \in Msg : Incs(Append(w, f), id) = Append(c, IncFor(f, id))
      /\ w # <<>> => Incs(Tail(w), id) = Tail(c) /\ c[1] = IncFor(w[1], id)
  BY IncsAre
<1> HIDE DEF c
<1>4. \A i \in DOMAIN c : c[i] >= 0 BY <1>2
<1>5. Updates(w, id) \in Nat BY <1>1, <1>2, <1>4, SumSeqType DEF c
<1>10. Updates(w, id) = SumFunction(c) BY <1>1 DEF c
<1>6. ASSUME NEW f \in Msg PROVE Updates(Append(w, f), id) = Updates(w, id) + IncFor(f, id)
  <2>1. SumFunction(Append(c, IncFor(f, id))) = SumFunction(c) + IncFor(f, id) BY <1>2, SumAppend
  <2>2. Updates(Append(w, f), id) = SumFunction(Append(c, IncFor(f, id))) BY <1>1, <1>3
  <2> QED BY <1>10, <2>1, <2>2
<1>7. ASSUME w # <<>> PROVE Updates(Tail(w), id) = Updates(w, id) - IncFor(Head(w), id)
  <2>1. c # <<>> BY <1>2, <1>7
  <2>2. SumFunction(Tail(c)) = SumFunction(c) - c[1] BY <1>2, <2>1, SumTail
  <2>3. Updates(Tail(w), id) = SumFunction(Tail(c)) BY <1>1, <1>3, <1>7
  <2>4. c[1] = IncFor(Head(w), id) BY <1>3, <1>7
  <2> QED BY <1>10, <2>2, <2>3, <2>4
<1> QED BY <1>5, <1>6, <1>7

\* Nothing is announced by nothing.
LEMMA NothingSent == \A id : Bytes(<<>>, id) = 0 /\ Updates(<<>>, id) = 0
<1>1. \A id : Lengths(<<>>, id) = <<>> /\ Incs(<<>>, id) = <<>> BY DEF Lengths, Incs
<1> QED BY <1>1, SumEmpty DEF Bytes, Updates, Lengths, Incs, DataFor, IncFor

\* How many frames of a type there are, in all and up to a place.
LEMMA CountStep ==
  ASSUME NEW S, NEW w \in Seq(S), NEW type
  PROVE  /\ Count(w, type) \in Nat
         /\ \A f \in S : Count(Append(w, f), type) = Count(w, type) + One(f, type)
         /\ w # <<>> => Count(Tail(w), type) = Count(w, type) - One(Head(w), type)
<1> DEFINE c == OfType(w, type)
<1>2. c \in Seq(Nat) /\ c \in Seq(Int) /\ Len(c) = Len(w) /\ (\A f \in S : One(f, type) \in Nat)
  BY OfTypeIs DEF One
<1>3. /\ \A f \in S : OfType(Append(w, f), type) = Append(c, One(f, type))
      /\ w # <<>> => OfType(Tail(w), type) = Tail(c) /\ c[1] = One(w[1], type)
  BY OfTypeIs
<1> HIDE DEF c
<1>4. \A i \in DOMAIN c : c[i] >= 0 BY <1>2
<1>5. Count(w, type) \in Nat BY <1>2, <1>4, SumSeqType DEF c, Count
<1>10. Count(w, type) = SumFunction(c) BY DEF c, Count
<1>6. ASSUME NEW f \in S PROVE Count(Append(w, f), type) = Count(w, type) + One(f, type)
  <2>1. SumFunction(Append(c, One(f, type))) = SumFunction(c) + One(f, type) BY <1>2, SumAppend
  <2>2. Count(Append(w, f), type) = SumFunction(Append(c, One(f, type))) BY <1>3 DEF Count
  <2> QED BY <1>10, <2>1, <2>2
<1>7. ASSUME w # <<>> PROVE Count(Tail(w), type) = Count(w, type) - One(Head(w), type)
  <2>1. c # <<>> BY <1>2, <1>7
  <2>2. SumFunction(Tail(c)) = SumFunction(c) - c[1] BY <1>2, <2>1, SumTail
  <2>3. Count(Tail(w), type) = SumFunction(Tail(c)) BY <1>3, <1>7 DEF Count
  <2>4. c[1] = One(Head(w), type) BY <1>3, <1>7
  <2> QED BY <1>10, <2>2, <2>3, <2>4
<1> QED BY <1>5, <1>6, <1>7

LEMMA CountToStep ==
  ASSUME NEW S, NEW w \in Seq(S), NEW type
  PROVE  /\ CountTo(w, type, 0) = 0 /\ CountTo(w, type, Len(w)) = Count(w, type)
         /\ \A i \in 0..Len(w) : CountTo(w, type, i) \in 0..Count(w, type)
         /\ \A i \in 1..Len(w) : CountTo(w, type, i) = CountTo(w, type, i - 1) + One(w[i], type)
         /\ w # <<>> => \A i \in 0..Len(w) - 1 :
              CountTo(Tail(w), type, i) = CountTo(w, type, i + 1) - One(Head(w), type)
<1> DEFINE c == OfType(w, type)
<1>2. c \in Seq(Nat) /\ c \in Seq(Int) /\ Len(c) = Len(w) /\ Len(w) \in Nat
  BY OfTypeIs DEF One
<1>3. /\ \A f \in S : OfType(Append(w, f), type) = Append(c, One(f, type))
      /\ w # <<>> => OfType(Tail(w), type) = Tail(c)
      /\ \A i \in 1..Len(w) : c[i] = One(w[i], type)
  <2>1. \A f \in S : OfType(Append(w, f), type) = Append(c, One(f, type)) BY OfTypeIs
  <2>2. w # <<>> => OfType(Tail(w), type) = Tail(c) BY OfTypeIs
  <2>3. \A i \in DOMAIN w : c[i] = One(w[i], type) BY OfTypeIs
  <2>4. DOMAIN w = 1..Len(w) OBVIOUS
  <2> QED BY <2>1, <2>2, <2>3, <2>4
<1> HIDE DEF c
<1>4. CountTo(w, type, 0) = 0 BY SumToNone DEF CountTo
<1>5. CountTo(w, type, Len(w)) = Count(w, type) BY <1>2, SumToAll DEF CountTo, Count, c
<1>6. ASSUME NEW i \in 0..Len(w) PROVE CountTo(w, type, i) \in 0..Count(w, type)
  <2>1. SumTo(c, i) <= SumTo(c, Len(c)) BY <1>2, SumToGrows
  <2>2. SumTo(c, Len(c)) = Count(w, type) BY <1>2, <1>5 DEF CountTo, c
  <2>3. SumTo(c, i) \in Int /\ SumTo(c, i) >= 0
    <3>1. \A k \in DOMAIN c : c[k] >= 0 BY <1>2
    <3>2. i \in 0..Len(c) BY <1>2
    <3> QED BY <1>2, <3>1, <3>2, SumToType
  <2>4. Count(w, type) \in Nat BY CountStep
  <2> QED BY <2>1, <2>2, <2>3, <2>4 DEF CountTo, c
<1>7. ASSUME NEW i \in 1..Len(w) PROVE CountTo(w, type, i) = CountTo(w, type, i - 1) + One(w[i], type)
  <2>1. i - 1 \in Nat /\ (i - 1) + 1 = i /\ i <= Len(c) BY <1>2
  <2>2. SumTo(c, (i - 1) + 1) = SumTo(c, i - 1) + c[(i - 1) + 1] BY <1>2, <2>1, SumToNext
  <2> QED BY <1>3, <2>1, <2>2 DEF CountTo, c
<1>9. ASSUME w # <<>>, NEW i \in 0..Len(w) - 1
      PROVE  CountTo(Tail(w), type, i) = CountTo(w, type, i + 1) - One(Head(w), type)
  <2>1. c # <<>> /\ i \in 0..(Len(c) - 1) BY <1>2, <1>9
  <2>2. SumTo(Tail(c), i) = SumTo(c, i + 1) - c[1] BY <1>2, <2>1, SumToTail
  <2>3. c[1] = One(Head(w), type) BY <1>2, <1>3, <1>9
  <2> QED BY <1>3, <1>9, <2>2, <2>3 DEF CountTo, c
<1> QED BY <1>4, <1>5, <1>6, <1>7, <1>9

LEMMA CountToAppend ==
  ASSUME NEW S, NEW w \in Seq(S), NEW type, NEW f \in S, NEW i \in 0..Len(w)
  PROVE  CountTo(Append(w, f), type, i) = CountTo(w, type, i)
<1> DEFINE c == OfType(w, type)
<1>1. c \in Seq(Int) /\ Len(c) = Len(w) /\ One(f, type) \in Int BY OfTypeIs DEF One
<1>2. OfType(Append(w, f), type) = Append(c, One(f, type)) BY OfTypeIs
<1> HIDE DEF c
<1>3. SumTo(Append(c, One(f, type)), i) = SumTo(c, i) BY <1>1, SumToAppend
<1> QED BY <1>2, <1>3 DEF CountTo, c

LEMMA CountToTail ==
  ASSUME NEW S, NEW w \in Seq(S), w # <<>>, NEW type, NEW i \in 0..Len(w) - 1
  PROVE  CountTo(Tail(w), type, i) = CountTo(w, type, i + 1) - One(Head(w), type)
<1>1. w # <<>> => \A j \in 0..Len(w) - 1 :
        CountTo(Tail(w), type, j) = CountTo(w, type, j + 1) - One(Head(w), type)
  BY CountToStep
<1> QED BY <1>1

\* The bytes that follow a frame.
LEMMA AfterStep ==
  ASSUME NEW w \in Seq(In), NEW id \in Ids
  PROVE  /\ \A i \in 1..Len(w) : BytesAfter(w, i, id) \in Int
         /\ \A f \in In, i \in 1..Len(w) : BytesAfter(Append(w, f), i, id) = BytesAfter(w, i, id) + DataFor(f, id)
         /\ \A f \in In : BytesAfter(Append(w, f), Len(w) + 1, id) = 0
         /\ w # <<>> => /\ BytesAfter(w, 1, id) = Bytes(Tail(w), id)
                        /\ \A i \in 1..Len(w) - 1 : BytesAfter(Tail(w), i, id) = BytesAfter(w, i + 1, id)
<1> DEFINE c == Lengths(w, id)
<1>1. \A v : Bytes(v, id) = SumFunction(Lengths(v, id)) BY DEF Bytes, Lengths, DataFor
<1>2. c \in Seq(Int) /\ Len(c) = Len(w) /\ (\A f \in In : DataFor(f, id) \in Int) /\ Len(w) \in Nat
  BY LengthsAre, Contributions
<1>3. /\ \A f \in In : Lengths(Append(w, f), id) = Append(c, DataFor(f, id))
      /\ w # <<>> => Lengths(Tail(w), id) = Tail(c) /\ c[1] = DataFor(Head(w), id)
  BY LengthsAre
<1>4. \A f \in In : Lengths(Append(w, f), id) \in Seq(Int) /\ Len(Lengths(Append(w, f), id)) = Len(w) + 1
  <2> SUFFICES ASSUME NEW f \in In
               PROVE  Lengths(Append(w, f), id) \in Seq(Int) /\ Len(Lengths(Append(w, f), id)) = Len(w) + 1
    OBVIOUS
  <2>1. Append(w, f) \in Seq(In) /\ Len(Append(w, f)) = Len(w) + 1 OBVIOUS
  <2> QED BY <2>1, LengthsAre
<1> HIDE DEF c
<1>5. \A i \in 0..Len(w) : SumTo(c, i) \in Int BY <1>2, SumToType
<1>6. Bytes(w, id) \in Int /\ (\A f \in In : Bytes(Append(w, f), id) = Bytes(w, id) + DataFor(f, id)) BY BytesStep
<1>7. ASSUME NEW f \in In, NEW i \in 1..Len(w)
      PROVE  BytesAfter(Append(w, f), i, id) = BytesAfter(w, i, id) + DataFor(f, id)
  <2>1. SumTo(Append(c, DataFor(f, id)), i) = SumTo(c, i) BY <1>2, SumToAppend
  <2>2. DataFor(f, id) \in Int /\ SumTo(c, i) \in Int BY <1>2, <1>5
  <2>3. BytesAfter(w, i, id) = Bytes(w, id) - SumTo(c, i) BY DEF BytesAfter, c
  <2>4. BytesAfter(Append(w, f), i, id) = Bytes(Append(w, f), id) - SumTo(Append(c, DataFor(f, id)), i)
    BY <1>3 DEF BytesAfter
  <2>5. Bytes(Append(w, f), id) = Bytes(w, id) + DataFor(f, id) BY <1>6
  <2> QED BY <1>6, <2>1, <2>2, <2>3, <2>4, <2>5
<1>8. ASSUME NEW f \in In PROVE BytesAfter(Append(w, f), Len(w) + 1, id) = 0
  <2> DEFINE d == Lengths(Append(w, f), id)
  <2>1. SumTo(d, Len(d)) = SumFunction(d) BY <1>4, SumToAll
  <2>2. Bytes(Append(w, f), id) \in Int BY <1>2, <1>6
  <2> QED BY <1>1, <1>4, <2>1, <2>2 DEF BytesAfter
<1>9. ASSUME w # <<>>
      PROVE  /\ BytesAfter(w, 1, id) = Bytes(Tail(w), id)
             /\ \A i \in 1..Len(w) - 1 : BytesAfter(Tail(w), i, id) = BytesAfter(w, i + 1, id)
  <2>1. c # <<>> /\ Len(c) >= 1 BY <1>2, <1>9
  <2>2. Bytes(Tail(w), id) = Bytes(w, id) - c[1] BY <1>3, <1>9, BytesStep
  <2>3. SumTo(c, 1) = c[1]
    <3>1. SumTo(c, 0 + 1) = SumTo(c, 0) + c[0 + 1] BY <1>2, <2>1, SumToNext
    <3>2. SumTo(c, 0) = 0 BY SumToNone
    <3>3. c[1] \in Int BY <1>2, <2>1
    <3> QED BY <3>1, <3>2, <3>3
  <2>4. \A i \in 1..Len(w) - 1 : BytesAfter(Tail(w), i, id) = BytesAfter(w, i + 1, id)
    <3> SUFFICES ASSUME NEW i \in 1..Len(w) - 1 PROVE BytesAfter(Tail(w), i, id) = BytesAfter(w, i + 1, id)
      OBVIOUS
    <3>1. i \in 0..(Len(c) - 1) BY <1>2
    <3>2. SumTo(Tail(c), i) = SumTo(c, i + 1) - c[1] BY <1>2, <2>1, <3>1, SumToTail
    <3>3. SumTo(c, i + 1) \in Int /\ c[1] \in Int /\ Bytes(w, id) \in Int BY <1>2, <1>5, <1>6, <2>1
    <3>4. BytesAfter(Tail(w), i, id) = Bytes(Tail(w), id) - SumTo(Tail(c), i) BY <1>3, <1>9 DEF BytesAfter
    <3>5. BytesAfter(w, i + 1, id) = Bytes(w, id) - SumTo(c, i + 1) BY DEF BytesAfter, c
    <3> QED BY <2>2, <3>2, <3>3, <3>4, <3>5
  <2> QED BY <2>2, <2>3, <2>4 DEF BytesAfter, c
<1>10. \A i \in 1..Len(w) : BytesAfter(w, i, id) \in Int BY <1>5, <1>6 DEF BytesAfter, c
<1> QED BY <1>7, <1>8, <1>9, <1>10

-----------------------------------------------------------------------------
(* The helpers of the library.                                              *)

LEMMA SrvFields ==
  ASSUME NEW s \in Srv
  PROVE  /\ s.win \in [Ids -> Win] /\ s.stream \in [StreamIds -> {"idle", "opened", "closing", "closed"}]
         /\ s.shutRd \in SUBSET StreamIds /\ s.urgent \in Seq(Announcement) /\ s.ob \in Seq(Out) /\ s.ob \in Seq(Msg)
         /\ s.goaway \in {"none", "queued", "sent"} /\ s.initial \in 0..MaxWindow
         /\ s.inflight \in Seq(0..MaxWindow) /\ s.overrun \in SUBSET Ids
         /\ \A i \in Ids : /\ s.win[i].local \in Int /\ s.win[i].recv \in Int /\ s.win[i].consumed \in Int
                           /\ s.win[i].reduction \in Int /\ s.win[i].queued \in BOOLEAN
                           /\ Updates(s.ob, i) \in Nat
<1>1. s.ob \in Seq(Out) /\ s.ob \in Seq(Msg) BY DEF Srv, Msg
<1>2. \A i \in Ids : Updates(s.ob, i) \in Nat BY <1>1, UpdatesStep
<1>3. s.win \in [Ids -> Win] BY DEF Srv
<1>4. \A i \in Ids : /\ s.win[i].local \in Int /\ s.win[i].recv \in Int /\ s.win[i].consumed \in Int
                     /\ s.win[i].reduction \in Int /\ s.win[i].queued \in BOOLEAN
  BY <1>3 DEF Win
<1> QED BY <1>1, <1>2, <1>3, <1>4 DEF Srv

LEMMA IdsAre == StreamIds \subseteq Ids /\ 0 \in Ids /\ 0 \notin StreamIds /\ MaxWindow \in Nat /\ \A i \in Ids : i # 0 => i \in StreamIds
BY SizesAssumption DEF Ids

\* What every helper keeps: the streams only begin to close, the session only begins to end,
\* and the counts stay in their range.
Onward(s, t) ==
  /\ t \in Srv
  /\ t.shutRd = s.shutRd /\ t.urgent = s.urgent /\ t.initial = s.initial /\ t.inflight = s.inflight
  /\ \A i \in StreamIds : t.stream[i] = s.stream[i] \/ (s.stream[i] = "opened" /\ t.stream[i] = "closing")
  /\ t.goaway = s.goaway \/ (s.goaway = "none" /\ t.goaway = "queued")
  /\ \A i \in Ids : t.win[i].local = s.win[i].local
  /\ InRange(s) => InRange(t)
  /\ Fitting(s) => Fitting(t)
  /\ ResetKnown(s) => ResetKnown(t)

LEMMA OnwardTwice ==
  ASSUME NEW r, NEW s, NEW t, Onward(r, s), Onward(s, t)
  PROVE  Onward(r, t)
BY DEF Onward

LEMMA OnwardSame == ASSUME NEW s \in Srv PROVE Onward(s, s)
BY DEF Onward

\* One more item in the queue.
LEMMA QueueGrows ==
  ASSUME NEW s \in Srv, NEW f \in Out
  PROVE  /\ Append(s.ob, f) \in Seq(Out)
         /\ \A i \in Ids : Updates(Append(s.ob, f), i) = Updates(s.ob, i) + IncFor(f, i)
         /\ \A j \in DOMAIN Append(s.ob, f) :
              Append(s.ob, f)[j] = f \/ (j \in DOMAIN s.ob /\ Append(s.ob, f)[j] = s.ob[j])
<1>1. s.ob \in Seq(Out) /\ s.ob \in Seq(Msg) BY SrvFields
<1>2. f \in Msg BY DEF Msg
<1>3. \A i \in Ids : Updates(Append(s.ob, f), i) = Updates(s.ob, i) + IncFor(f, i) BY <1>1, <1>2, UpdatesStep
<1>4. \A j \in DOMAIN Append(s.ob, f) :
        Append(s.ob, f)[j] = f \/ (j \in DOMAIN s.ob /\ Append(s.ob, f)[j] = s.ob[j])
  BY <1>1
<1> QED BY <1>1, <1>3, <1>4

Same(s, t, i) ==
  /\ t.win[i] = s.win[i] /\ Updates(t.ob, i) = Updates(s.ob, i)
  /\ i # 0 => t.stream[i] = s.stream[i]
  /\ i \in t.overrun <=> i \in s.overrun

\* The session begins to end.
LEMMA TerminateIs ==
  ASSUME NEW s \in Srv
  PROVE  /\ Onward(s, Terminate(s)) /\ IsClosing(Terminate(s))
         /\ \A i \in Ids : Same(s, Terminate(s), i)
         /\ Terminate(s).overrun = s.overrun /\ Terminate(s).stream = s.stream
<1> DEFINE t == Terminate(s)
           f == [type |-> "GOAWAY", id |-> 0, inc |-> 0]
<1>1. CASE s.goaway # "none" BY <1>1, OnwardSame DEF Terminate, IsClosing, Same
<1>2. CASE s.goaway = "none"
  <2>1. /\ t = [s EXCEPT !.goaway = "queued", !.ob = Append(s.ob, f)]
        /\ t.win = s.win /\ t.stream = s.stream /\ t.shutRd = s.shutRd /\ t.urgent = s.urgent
        /\ t.ob = Append(s.ob, f) /\ t.goaway = "queued" /\ t.initial = s.initial
        /\ t.inflight = s.inflight /\ t.overrun = s.overrun
    BY <1>2 DEF Terminate, Srv
  <2>2. f \in Out /\ f.type = "GOAWAY" /\ f.inc = 0 /\ \A i : IncFor(f, i) = 0 BY DEF Out, IncFor, Fits
  <2> HIDE DEF f
  <2>3. /\ t.ob \in Seq(Out) /\ \A i \in Ids : Updates(t.ob, i) = Updates(s.ob, i) + 0
        /\ \A j \in DOMAIN t.ob : t.ob[j] = f \/ (j \in DOMAIN s.ob /\ t.ob[j] = s.ob[j])
    BY <2>1, <2>2, QueueGrows
  <2>4. t \in Srv BY <2>1, <2>3 DEF Srv
  <2> HIDE DEF t
  <2>5. \A i \in Ids : Same(s, t, i) BY <2>1, <2>3, SrvFields DEF Same
  <2>6. InRange(s) => InRange(t) BY <2>1, <2>2, <2>3, IdsAre DEF InRange
  <2>7. ResetKnown(s) => ResetKnown(t) BY <2>1, <2>2, <2>3 DEF ResetKnown
  <2>8. Onward(s, t) /\ IsClosing(t) BY <1>2, <2>1, <2>4, <2>6, <2>7 DEF Onward, IsClosing, Fitting
  <2> QED BY <2>1, <2>5, <2>8 DEF t
<1> QED BY <1>1, <1>2

\* A stream begins to close.
LEMMA AddRstIs ==
  ASSUME NEW s \in Srv, NEW id \in StreamIds, s.stream[id] # "idle"
  PROVE  /\ Onward(s, AddRst(s, id)) /\ AddRst(s, id).stream[id] # "opened"
         /\ \A i \in Ids : i # id => Same(s, AddRst(s, id), i)
         /\ AddRst(s, id).win = s.win /\ Updates(AddRst(s, id).ob, id) = Updates(s.ob, id)
         /\ AddRst(s, id).overrun = s.overrun /\ AddRst(s, id).goaway = s.goaway
         /\ Live(AddRst(s, id), id) <=> Live(s, id)
<1> DEFINE t == AddRst(s, id)
           f == [type |-> "RST_STREAM", id |-> id, inc |-> 0]
<1>1. CASE s.stream[id] = "closing" BY <1>1, OnwardSame DEF AddRst, Same
<1>2. CASE s.stream[id] # "closing"
  <2>0. s.stream[id] \in {"opened", "closed"} /\ id \in Ids BY <1>2, SrvFields, IdsAre
  <2>1. /\ t.win = s.win /\ t.shutRd = s.shutRd /\ t.urgent = s.urgent
        /\ t.ob = Append(s.ob, f) /\ t.goaway = s.goaway /\ t.initial = s.initial
        /\ t.inflight = s.inflight /\ t.overrun = s.overrun
        /\ t.stream = [s.stream EXCEPT ![id] = IF Live(s, id) THEN "closing" ELSE s.stream[id]]
        /\ t = [s EXCEPT !.stream = t.stream, !.ob = t.ob]
    BY <1>2 DEF AddRst, Srv
  <2>2. f \in Out /\ f.type = "RST_STREAM" /\ f.inc = 0 /\ f.id = id /\ \A i : IncFor(f, i) = 0
    BY DEF Out, IncFor, Fits
  <2> HIDE DEF f
  <2>3. /\ t.ob \in Seq(Out) /\ \A i \in Ids : Updates(t.ob, i) = Updates(s.ob, i) + 0
        /\ \A j \in DOMAIN t.ob : t.ob[j] = f \/ (j \in DOMAIN s.ob /\ t.ob[j] = s.ob[j])
    BY <2>1, <2>2, QueueGrows
  <2>4. /\ t.stream \in [StreamIds -> {"idle", "opened", "closing", "closed"}]
        /\ t.stream[id] = IF s.stream[id] = "opened" THEN "closing" ELSE "closed"
        /\ \A i \in StreamIds : i # id => t.stream[i] = s.stream[i]
    BY <2>0, <2>1, SrvFields DEF Live
  <2>5. t \in Srv BY <2>1, <2>3, <2>4 DEF Srv
  <2> HIDE DEF t
  <2>6. \A i \in Ids : (i # id => Same(s, t, i)) /\ Updates(t.ob, i) = Updates(s.ob, i)
    BY <2>1, <2>3, <2>4, SrvFields, IdsAre DEF Same
  <2>7. InRange(s) => InRange(t) BY <2>1, <2>2, <2>3, IdsAre DEF InRange
  <2>8. ResetKnown(s) => ResetKnown(t)
    <3> SUFFICES ASSUME ResetKnown(s), NEW j \in DOMAIN t.ob, t.ob[j].type = "RST_STREAM"
                 PROVE  t.stream[t.ob[j].id] # "idle"
      BY DEF ResetKnown
    <3>1. CASE t.ob[j] = f BY <2>2, <2>4, <3>1
    <3>2. CASE j \in DOMAIN s.ob /\ t.ob[j] = s.ob[j]
      <4>1. s.ob[j] \in Out /\ s.stream[s.ob[j].id] # "idle" BY <3>2, SrvFields DEF ResetKnown
      <4>2. s.ob[j].id \in StreamIds BY <3>2, <4>1, MsgFields
      <4> QED BY <2>0, <2>4, <3>2, <4>1, <4>2
    <3> QED BY <2>3, <3>1, <3>2
  <2>9. Onward(s, t) BY <2>0, <2>1, <2>4, <2>5, <2>7, <2>8 DEF Onward, Fitting
  <2>10. t.stream[id] # "opened" /\ (Live(t, id) <=> Live(s, id)) BY <2>0, <2>4 DEF Live
  <2>11. Updates(t.ob, id) = Updates(s.ob, id) BY <2>0, <2>6
  <2> QED BY <2>1, <2>6, <2>9, <2>10, <2>11 DEF t
<1> QED BY <1>1, <1>2

\* Only the counts of one window change.
Moves(s, t, id) ==
  /\ Onward(s, t) /\ t.stream = s.stream /\ t.overrun = s.overrun
  /\ \A i \in Ids : i # id => Same(s, t, i)

LEMMA MovesTwice ==
  ASSUME NEW r, NEW s, NEW t, NEW id, Moves(r, s, id), Moves(s, t, id)
  PROVE  Moves(r, t, id)
<1>1. Onward(r, t) BY OnwardTwice DEF Moves
<1>2. t.stream = r.stream /\ t.overrun = r.overrun BY DEF Moves
<1>3. \A i \in Ids : i # id => Same(r, t, i) BY DEF Moves, Same
<1> QED BY <1>1, <1>2, <1>3 DEF Moves

LEMMA MovesNot == ASSUME NEW s \in Srv, NEW id PROVE Moves(s, s, id)
BY OnwardSame DEF Moves, Same

\* The received and consumed bytes of a window are counted anew.
LEMMA WindowCounts ==
  ASSUME NEW s \in Srv, NEW id \in Ids, NEW w \in Win, w.local = s.win[id].local,
         w.reduction = s.win[id].reduction,
         s.win[id].consumed \in 0..MaxWindow => w.consumed \in 0..MaxWindow,
         s.win[id].recv <= MaxWindow => w.recv <= MaxWindow,
         (s.win[id].recv <= w.local /\ w.local >= 0) => w.recv <= w.local
  PROVE  LET t == [s EXCEPT !.win[id] = w]
         IN /\ Moves(s, t, id) /\ t \in Srv /\ t.win[id] = w /\ t.ob = s.ob /\ t.goaway = s.goaway
            /\ t.stream = s.stream /\ t.overrun = s.overrun
<1> DEFINE t == [s EXCEPT !.win[id] = w]
<1>1. /\ t.win = [s.win EXCEPT ![id] = w] /\ t.shutRd = s.shutRd /\ t.urgent = s.urgent /\ t.stream = s.stream
      /\ t.ob = s.ob /\ t.goaway = s.goaway /\ t.initial = s.initial
      /\ t.inflight = s.inflight /\ t.overrun = s.overrun
  BY DEF Srv
<1>2. /\ t.win \in [Ids -> Win] /\ t.win[id] = w /\ \A i \in Ids : i # id => t.win[i] = s.win[i]
  BY <1>1, SrvFields
<1>3. t \in Srv BY <1>1, <1>2 DEF Srv
<1> HIDE DEF t
<1>4. \A i \in Ids : i # id => Same(s, t, i) BY <1>1, <1>2 DEF Same
<1>5. InRange(s) => InRange(t)
  <2> SUFFICES ASSUME InRange(s) PROVE InRange(t) OBVIOUS
  <2>1. \A i \in Ids :
          /\ t.win[i].local <= MaxWindow /\ (Apart => t.win[i].recv <= MaxWindow)
          /\ t.win[i].consumed \in 0..MaxWindow /\ t.win[i].reduction >= 0
    <3> TAKE i \in Ids
    <3>1. CASE i = id BY <1>2, <3>1 DEF InRange
    <3>2. CASE i # id BY <1>2, <3>2 DEF InRange
    <3> QED BY <3>1, <3>2
  <2> QED BY <1>1, <2>1 DEF InRange
<1>6. Fitting(s) => Fitting(t)
  <2> SUFFICES ASSUME Fitting(s), NEW i \in Ids PROVE t.win[i].recv <= t.win[i].local /\ t.win[i].local >= 0
    BY DEF Fitting
  <2>1. CASE i = id BY <1>2, <2>1 DEF Fitting
  <2>2. CASE i # id BY <1>2, <2>2 DEF Fitting
  <2> QED BY <2>1, <2>2
<1>7. ResetKnown(s) => ResetKnown(t) BY <1>1 DEF ResetKnown
<1>8. \A i \in Ids : t.win[i].local = s.win[i].local BY <1>2
<1>9. Onward(s, t) BY <1>1, <1>3, <1>5, <1>6, <1>7, <1>8 DEF Onward
<1>10. Moves(s, t, id) BY <1>1, <1>4, <1>9 DEF Moves
<1> QED BY <1>1, <1>2, <1>3, <1>10 DEF t

\* An update is queued.
LEMMA AddWindowUpdateIs ==
  ASSUME NEW s \in Srv, NEW id \in Ids, NEW n \in Nat \ {0}, InRange(s) /\ Apart => n <= MaxWindow
  PROVE  LET t == AddWindowUpdate(s, id, n)
         IN /\ Moves(s, t, id) /\ t \in Srv /\ Updates(t.ob, id) = Updates(s.ob, id) + n /\ t.goaway = s.goaway
            /\ t.win[id].local = s.win[id].local /\ t.win[id].recv = s.win[id].recv
            /\ t.win[id].consumed = s.win[id].consumed /\ t.win[id].reduction = s.win[id].reduction
            /\ t.win[id] \in Win
            /\ t.shutRd = s.shutRd /\ t.urgent = s.urgent /\ t.initial = s.initial /\ t.inflight = s.inflight
<1> DEFINE t == AddWindowUpdate(s, id, n)
           f == [type |-> "WINDOW_UPDATE", id |-> id, inc |-> n]
           q == s.win[id].queued \/ id = 0 \/ Live(s, id)
           w == [s.win[id] EXCEPT !.queued = q]
           u == [s EXCEPT !.win[id] = w]
<1>1. /\ w \in Win /\ w.local = s.win[id].local /\ w.recv = s.win[id].recv
      /\ w.consumed = s.win[id].consumed /\ w.reduction = s.win[id].reduction
  <2>1. s.win[id] \in Win /\ q \in BOOLEAN BY SrvFields DEF Live
  <2> HIDE DEF q
  <2> QED BY <2>1 DEF Win
<1>2. /\ t.win = u.win /\ t.shutRd = s.shutRd /\ t.urgent = s.urgent /\ t.stream = s.stream
      /\ t.ob = Append(s.ob, f) /\ t.goaway = s.goaway /\ t.initial = s.initial
      /\ t.inflight = s.inflight /\ t.overrun = s.overrun
      /\ t = [s EXCEPT !.win = u.win, !.ob = t.ob]
  BY DEF AddWindowUpdate, Srv
<1>3. f \in Out /\ f.type = "WINDOW_UPDATE" /\ f.inc = n /\ IncFor(f, id) = n /\ \A i : i # id => IncFor(f, i) = 0
  BY DEF Out, IncFor, Fits
<1> HIDE DEF f, w
<1>4. Moves(s, u, id) /\ u \in Srv /\ u.win[id] = w BY <1>1, WindowCounts
<1>5. /\ u.shutRd = s.shutRd /\ u.urgent = s.urgent /\ u.stream = s.stream /\ u.ob = s.ob
      /\ u.goaway = s.goaway /\ u.initial = s.initial /\ u.inflight = s.inflight /\ u.overrun = s.overrun
  BY DEF Srv
<1> HIDE DEF u
<1>6. /\ t.ob \in Seq(Out) /\ Updates(t.ob, id) = Updates(s.ob, id) + n
      /\ \A i \in Ids : i # id => Updates(t.ob, i) = Updates(s.ob, i)
      /\ \A j \in DOMAIN t.ob : t.ob[j] = f \/ (j \in DOMAIN s.ob /\ t.ob[j] = s.ob[j])
  BY <1>2, <1>3, QueueGrows, SrvFields
<1>7. t \in Srv
  <2>1. u.win \in [Ids -> Win] BY <1>4, SrvFields
  <2> QED BY <1>2, <1>6, <2>1 DEF Srv
<1> HIDE DEF t
<1>8. InRange(s) => InRange(t)
  <2> SUFFICES ASSUME InRange(s) PROVE InRange(t) OBVIOUS
  <2>1. InRange(u) BY <1>4 DEF Moves, Onward
  <2>2. Apart => \A j \in DOMAIN t.ob : t.ob[j].inc <= MaxWindow
    BY <1>3, <1>6 DEF InRange
  <2> QED BY <1>2, <2>1, <2>2 DEF InRange
<1>9. ResetKnown(s) => ResetKnown(t) BY <1>2, <1>3, <1>6 DEF ResetKnown
<1>10. Fitting(s) => Fitting(t) BY <1>2, <1>4 DEF Moves, Onward, Fitting
<1>11. Onward(s, t) BY <1>2, <1>4, <1>7, <1>8, <1>9, <1>10 DEF Moves, Onward
<1>12. \A i \in Ids : i # id => Same(s, t, i) BY <1>2, <1>4, <1>6 DEF Moves, Same
<1>13. Moves(s, t, id) BY <1>2, <1>11, <1>12 DEF Moves
<1> QED BY <1>1, <1>2, <1>4, <1>6, <1>7, <1>13 DEF t

\* An update takes with it what it announces.
LEMMA ReplenishIs ==
  ASSUME NEW s \in Srv, NEW id \in Ids
  PROVE  LET t == Replenish(s, id)
         IN /\ Moves(s, t, id) /\ t \in Srv /\ Claim(t, id) = Claim(s, id) /\ t.goaway = s.goaway
            /\ ~use.auto => t = s
<1> DEFINE t == Replenish(s, id)
           due == /\ use.auto /\ ~s.win[id].queued
                  /\ ShouldSendWindowUpdate(s.win[id].local, s.win[id].recv)
           n == s.win[id].recv
           u == AddWindowUpdate(s, id, n)
           w == [u.win[id] EXCEPT !.recv = 0]
<1>1. CASE ~due BY <1>1, MovesNot DEF Replenish
<1>2. CASE due
  <2>1. n \in Nat \ {0} /\ (InRange(s) /\ Apart => n <= MaxWindow) BY <1>2, SrvFields DEF ShouldSendWindowUpdate, InRange
  <2>2. /\ Moves(s, u, id) /\ u \in Srv /\ Updates(u.ob, id) = Updates(s.ob, id) + n
        /\ u.win[id].local = s.win[id].local /\ u.win[id].recv = n /\ u.goaway = s.goaway
        /\ u.win[id].reduction = s.win[id].reduction /\ u.win[id] \in Win
    BY <2>1, AddWindowUpdateIs
  <2>3. t = [u EXCEPT !.win[id] = w] BY <1>2, <2>2 DEF Replenish, Srv
  <2>4. /\ w \in Win /\ w.local = u.win[id].local /\ w.recv = 0 /\ w.reduction = u.win[id].reduction
        /\ w.consumed = u.win[id].consumed
    BY <2>2 DEF Win
  <2> HIDE DEF u, w
  <2>5. /\ Moves(u, t, id) /\ t \in Srv /\ t.win[id] = w /\ t.ob = u.ob /\ t.goaway = u.goaway
    BY <2>1, <2>2, <2>3, <2>4, IdsAre, WindowCounts
  <2>6. Moves(s, t, id) BY <2>2, <2>5, MovesTwice
  <2> HIDE DEF t
  <2>7. Claim(t, id) = Claim(s, id)
    <3>1. Claim(t, id) = s.win[id].local - 0 - (Updates(s.ob, id) + n) BY <2>2, <2>4, <2>5 DEF Claim
    <3> QED BY <3>1, SrvFields DEF Claim
  <2> QED BY <1>2, <2>2, <2>5, <2>6, <2>7 DEF t
<1> QED BY <1>1, <1>2

\* n bytes of DATA were counted, or are too many.
Took(s, t, id, n) ==
  \/ /\ ~Overruns(s.win[id], n) /\ t.overrun = s.overrun /\ t.goaway = s.goaway /\ t.stream = s.stream
     /\ Claim(t, id) = Claim(s, id) - n
     /\ ~use.auto => Kept(t, id) = Kept(s, id) + n
  \/ /\ Overruns(s.win[id], n) /\ t.overrun = s.overrun \cup {id}
     /\ Claim(t, id) = Claim(s, id)
     /\ IF id = 0 THEN IsClosing(t) ELSE t.stream[id] # "opened"

LEMMA CountedIs ==
  ASSUME NEW s \in Srv, NEW id \in Ids, NEW n \in Nat, ~Overruns(s.win[id], n)
  PROVE  LET t == [s EXCEPT !.win[id].recv = @ + n]
         IN /\ Moves(s, t, id) /\ t \in Srv /\ t.goaway = s.goaway
            /\ Claim(t, id) = Claim(s, id) - n /\ Kept(t, id) = Kept(s, id) + n
<1> DEFINE w == [s.win[id] EXCEPT !.recv = @ + n]
           t == [s EXCEPT !.win[id] = w]
<1>1. s.win[id] \in Win BY SrvFields
<1>2. /\ w \in Win /\ w.local = s.win[id].local /\ w.recv = s.win[id].recv + n
      /\ w.reduction = s.win[id].reduction /\ w.consumed = s.win[id].consumed
  BY <1>1 DEF Win
<1>3. w.recv <= w.local /\ w.recv <= MaxWindow BY <1>2, SrvFields, IdsAre DEF Overruns
<1>4. [s EXCEPT !.win[id].recv = @ + n] = t BY DEF Srv
<1> HIDE DEF w
<1>5. /\ Moves(s, t, id) /\ t \in Srv /\ t.win[id] = w /\ t.ob = s.ob /\ t.goaway = s.goaway
  BY <1>2, <1>3, WindowCounts
<1> HIDE DEF t
<1>6. Claim(t, id) = Claim(s, id) - n /\ Kept(t, id) = Kept(s, id) + n
  BY <1>2, <1>5, SrvFields DEF Claim, Kept
<1> QED BY <1>4, <1>5, <1>6

\* To be accused is to overrun.
LEMMA Accused ==
  ASSUME NEW s \in Srv, NEW t \in Srv, NEW id \in Ids, Onward(s, t), t.overrun = s.overrun,
         \A i \in Ids : i # id => Same(s, t, i), Updates(t.ob, id) = Updates(s.ob, id), t.win[id] = s.win[id],
         IF id = 0 THEN IsClosing(t) ELSE t.stream[id] # "opened", NEW n, Overruns(s.win[id], n)
  PROVE  LET u == [t EXCEPT !.overrun = @ \cup {id}]
         IN /\ Onward(s, u) /\ u \in Srv /\ (\A i \in Ids : i # id => Same(s, u, i)) /\ Took(s, u, id, n)
            /\ u.goaway = t.goaway /\ u.stream = t.stream /\ u.win = t.win
<1> DEFINE u == [t EXCEPT !.overrun = @ \cup {id}]
<1>1. /\ u.win = t.win /\ u.shutRd = t.shutRd /\ u.urgent = t.urgent /\ u.stream = t.stream
      /\ u.ob = t.ob /\ u.goaway = t.goaway /\ u.initial = t.initial
      /\ u.inflight = t.inflight /\ u.overrun = t.overrun \cup {id} /\ u \in Srv
  BY DEF Srv
<1> HIDE DEF u
<1>2. Onward(t, u) BY <1>1 DEF Onward, InRange, Fitting, ResetKnown
<1>3. Onward(s, u) BY <1>2, OnwardTwice
<1>4. \A i \in Ids : i # id => Same(s, u, i) BY <1>1 DEF Same
<1>5. Took(s, u, id, n) BY <1>1 DEF Took, Claim, IsClosing
<1> QED BY <1>1, <1>3, <1>4, <1>5 DEF u

LEMMA RecvOnConnectionIs ==
  ASSUME NEW s \in Srv, NEW n \in Nat
  PROVE  LET t == RecvOnConnection(s, n)
         IN /\ Onward(s, t) /\ t \in Srv /\ t.stream = s.stream
            /\ (\A i \in Ids : i # 0 => Same(s, t, i)) /\ Took(s, t, 0, n)
<1> DEFINE t == RecvOnConnection(s, n)
<1>0. 0 \in Ids BY IdsAre
<1>1. CASE Overruns(s.win[0], n)
  <2> DEFINE r == Terminate(s)
  <2>1. t = [r EXCEPT !.overrun = @ \cup {0}] BY <1>1 DEF RecvOnConnection
  <2>2. /\ Onward(s, r) /\ IsClosing(r) /\ r.overrun = s.overrun /\ r.stream = s.stream
        /\ \A i \in Ids : Same(s, r, i)
    BY TerminateIs
  <2>3. r \in Srv BY <2>2 DEF Onward
  <2>4. Updates(r.ob, 0) = Updates(s.ob, 0) /\ r.win[0] = s.win[0] BY <1>0, <2>2 DEF Same
  <2> HIDE DEF r, t
  <2>5. /\ Onward(s, t) /\ t \in Srv /\ (\A i \in Ids : i # 0 => Same(s, t, i)) /\ Took(s, t, 0, n)
        /\ t.stream = r.stream
    BY <1>0, <1>1, <2>1, <2>2, <2>3, <2>4, Accused
  <2> QED BY <2>2, <2>5 DEF t
<1>2. CASE ~Overruns(s.win[0], n)
  <2> DEFINE r == [s EXCEPT !.win[0].recv = @ + n]
  <2>1. t = Replenish(r, 0) BY <1>2 DEF RecvOnConnection
  <2>2. /\ Moves(s, r, 0) /\ r \in Srv /\ r.goaway = s.goaway
        /\ Claim(r, 0) = Claim(s, 0) - n /\ Kept(r, 0) = Kept(s, 0) + n
    BY <1>0, <1>2, CountedIs
  <2> HIDE DEF r
  <2>3. /\ Moves(r, t, 0) /\ t \in Srv /\ Claim(t, 0) = Claim(r, 0) /\ t.goaway = r.goaway
        /\ ~use.auto => t = r
    BY <1>0, <2>1, <2>2, ReplenishIs
  <2>4. Moves(s, t, 0) BY <2>2, <2>3, MovesTwice
  <2> HIDE DEF t
  <2>5. Took(s, t, 0, n) BY <1>2, <2>2, <2>3, <2>4 DEF Took, Moves
  <2> QED BY <2>3, <2>4, <2>5 DEF t, Moves
<1> QED BY <1>1, <1>2

LEMMA RecvOnStreamIs ==
  ASSUME NEW s \in Srv, NEW id \in StreamIds, s.stream[id] # "idle", NEW n \in Nat, NEW mayUpdate
  PROVE  LET t == RecvOnStream(s, id, n, mayUpdate)
         IN /\ Onward(s, t) /\ t \in Srv /\ (Live(t, id) <=> Live(s, id)) /\ t.goaway = s.goaway
            /\ (\A i \in Ids : i # id => Same(s, t, i)) /\ Took(s, t, id, n)
<1> DEFINE t == RecvOnStream(s, id, n, mayUpdate)
<1>0. id \in Ids /\ id # 0 BY IdsAre
<1>1. CASE Overruns(s.win[id], n)
  <2> DEFINE r == AddRst(s, id)
  <2>1. t = [r EXCEPT !.overrun = @ \cup {id}] BY <1>1 DEF RecvOnStream
  <2>2. /\ Onward(s, r) /\ r.stream[id] # "opened" /\ r.overrun = s.overrun /\ r.win = s.win
        /\ (\A i \in Ids : i # id => Same(s, r, i)) /\ Updates(r.ob, id) = Updates(s.ob, id)
        /\ (Live(r, id) <=> Live(s, id)) /\ r.goaway = s.goaway
    BY AddRstIs
  <2>3. r \in Srv /\ r.win[id] = s.win[id] BY <2>2 DEF Onward
  <2> HIDE DEF r, t
  <2>5. /\ Onward(s, t) /\ t \in Srv /\ (\A i \in Ids : i # id => Same(s, t, i)) /\ Took(s, t, id, n)
        /\ t.stream = r.stream /\ t.goaway = r.goaway
    BY <1>0, <1>1, <2>1, <2>2, <2>3, Accused
  <2>6. Live(t, id) <=> Live(r, id) BY <2>5 DEF Live
  <2> QED BY <2>2, <2>5, <2>6 DEF t
<1>2. CASE ~Overruns(s.win[id], n)
  <2> DEFINE r == [s EXCEPT !.win[id].recv = @ + n]
  <2>1. t = IF mayUpdate THEN Replenish(r, id) ELSE r BY <1>2 DEF RecvOnStream
  <2>2. /\ Moves(s, r, id) /\ r \in Srv /\ r.goaway = s.goaway
        /\ Claim(r, id) = Claim(s, id) - n /\ Kept(r, id) = Kept(s, id) + n
    BY <1>0, <1>2, CountedIs
  <2> HIDE DEF r
  <2>3. /\ Moves(r, t, id) /\ t \in Srv /\ Claim(t, id) = Claim(r, id) /\ t.goaway = r.goaway
        /\ ~use.auto => t = r
    BY <1>0, <2>1, <2>2, ReplenishIs, MovesNot
  <2>4. Moves(s, t, id) BY <2>2, <2>3, MovesTwice
  <2> HIDE DEF t
  <2>5. Took(s, t, id, n) BY <1>2, <2>2, <2>3, <2>4 DEF Took, Moves
  <2>6. Live(t, id) <=> Live(s, id) BY <2>4 DEF Moves, Live
  <2> QED BY <2>2, <2>3, <2>4, <2>5, <2>6 DEF t, Moves
<1> QED BY <1>1, <1>2

\* Bytes that the application, or the library in its stead, is done with.
LEMMA UpdateConsumedIs ==
  ASSUME NEW s \in Srv, NEW id \in Ids, NEW n \in Nat
  PROVE  LET t == UpdateConsumed(s, id, n)
         IN /\ Moves(s, t, id) /\ t \in Srv /\ Claim(t, id) = Claim(s, id)
            /\ IsClosing(t) \/ Kept(t, id) = Kept(s, id) - n
<1> DEFINE t == UpdateConsumed(s, id, n)
           w == s.win[id]
           size == Least(w.consumed + n, w.recv)
           v == [w EXCEPT !.consumed = @ + n]
           u == AddWindowUpdate(s, id, size)
           x == [u.win[id] EXCEPT !.recv = @ - size, !.consumed = @ + n - size]
<1>0. w \in Win /\ w.consumed \in Int /\ w.recv \in Int /\ MaxWindow \in Nat BY SrvFields, IdsAre
<1>1. CASE w.consumed > MaxWindow - n
  <2>1. t = Terminate(s) BY <1>1 DEF UpdateConsumed
  <2>2. /\ Onward(s, t) /\ IsClosing(t) /\ (\A i \in Ids : Same(s, t, i)) /\ t.overrun = s.overrun
        /\ t.stream = s.stream
    BY <2>1, TerminateIs
  <2> HIDE DEF t
  <2>3. Claim(t, id) = Claim(s, id) BY <2>2 DEF Same, Claim
  <2> QED BY <2>2, <2>3 DEF t, Moves, Onward
<1>2. CASE ~(w.consumed > MaxWindow - n) /\ ~(~w.queued /\ ShouldSendWindowUpdate(w.local, size))
  <2>1. t = [s EXCEPT !.win[id] = v] BY <1>2 DEF UpdateConsumed, Srv
  <2>2. /\ v \in Win /\ v.local = w.local /\ v.recv = w.recv /\ v.reduction = w.reduction
        /\ v.consumed = w.consumed + n
    BY <1>0 DEF Win
  <2>3. w.consumed \in 0..MaxWindow => v.consumed \in 0..MaxWindow BY <1>0, <1>2, <2>2
  <2> HIDE DEF v
  <2>4. Moves(s, t, id) /\ t \in Srv /\ t.win[id] = v /\ t.ob = s.ob BY <2>1, <2>2, <2>3, WindowCounts
  <2> HIDE DEF t
  <2>5. Claim(t, id) = Claim(s, id) /\ Kept(t, id) = Kept(s, id) - n
    BY <1>0, <2>2, <2>4, SrvFields DEF Claim, Kept
  <2> QED BY <2>4, <2>5 DEF t
<1>3. CASE ~(w.consumed > MaxWindow - n) /\ ~w.queued /\ ShouldSendWindowUpdate(w.local, size)
  <2>0. t = [u EXCEPT !.win[id].recv = @ - size, !.win[id].consumed = @ + n - size]
    BY <1>3 DEF UpdateConsumed
  <2>1. size \in Nat \ {0} /\ size <= w.consumed + n /\ size <= w.recv
    BY <1>0, <1>3 DEF ShouldSendWindowUpdate, Least
  <2>2. InRange(s) /\ Apart => size <= MaxWindow BY <1>0, <2>1 DEF InRange
  <2> HIDE DEF size
  <2>3. /\ Moves(s, u, id) /\ u \in Srv /\ Updates(u.ob, id) = Updates(s.ob, id) + size
        /\ u.win[id].local = w.local /\ u.win[id].recv = w.recv /\ u.win[id].consumed = w.consumed
        /\ u.win[id].reduction = w.reduction /\ u.win[id] \in Win
    BY <2>1, <2>2, AddWindowUpdateIs
  <2>4. t = [u EXCEPT !.win[id] = x] BY <2>0, <2>3 DEF Srv
  <2>5. /\ x \in Win /\ x.local = w.local /\ x.recv = w.recv - size /\ x.reduction = w.reduction
        /\ x.consumed = w.consumed + n - size
    <3> DEFINE y == u.win[id]
    <3>1. x = [y EXCEPT !.recv = y.recv - size, !.consumed = y.consumed + n - size] OBVIOUS
    <3>2. /\ y \in Win /\ y.local = w.local /\ y.recv = w.recv /\ y.consumed = w.consumed
          /\ y.reduction = w.reduction
      BY <2>3
    <3>3. y.recv - size \in Int /\ y.consumed + n - size \in Int BY <1>0, <2>1, <3>2
    <3> HIDE DEF y, x
    <3> QED BY <3>1, <3>2, <3>3 DEF Win
  <2>6. x.recv <= w.recv /\ (w.consumed \in 0..MaxWindow => x.consumed \in 0..MaxWindow)
    BY <1>0, <1>3, <2>1, <2>5
  <2> HIDE DEF u, x
  <2>7. Moves(u, t, id) /\ t \in Srv /\ t.win[id] = x /\ t.ob = u.ob
    <3>1. x.recv \in Int /\ w.recv \in Int /\ w.local \in Int BY <1>0, <2>5 DEF Win
    <3>2. u.win[id].recv <= MaxWindow => x.recv <= MaxWindow BY <1>0, <2>3, <2>6, <3>1
    <3>3. (u.win[id].recv <= x.local /\ x.local >= 0) => x.recv <= x.local BY <2>3, <2>5, <2>6, <3>1
    <3> QED BY <2>3, <2>4, <2>5, <2>6, <3>2, <3>3, WindowCounts
  <2>8. Moves(s, t, id) BY <2>3, <2>7, MovesTwice
  <2> HIDE DEF t
  <2>9. Claim(t, id) = Claim(s, id) /\ Kept(t, id) = Kept(s, id) - n
    <3>1. Claim(t, id) = w.local - (w.recv - size) - (Updates(s.ob, id) + size) BY <2>3, <2>5, <2>7 DEF Claim
    <3>2. Kept(t, id) = (w.recv - size) - (w.consumed + n - size) BY <2>5, <2>7 DEF Kept
    <3>3. w.local \in Int /\ Updates(s.ob, id) \in Int /\ w.recv \in Int /\ w.consumed \in Int /\ size \in Int
      BY <2>1, SrvFields
    <3>4. Claim(s, id) = w.local - w.recv - Updates(s.ob, id) /\ Kept(s, id) = w.recv - w.consumed
      BY DEF Claim, Kept
    <3> HIDE DEF w
    <3> QED BY <3>1, <3>2, <3>3, <3>4
  <2> QED BY <2>7, <2>8, <2>9 DEF t
<1> QED BY <1>1, <1>2, <1>3

LEMMA ConsumeConnectionIs ==
  ASSUME NEW s \in Srv, NEW n \in Nat
  PROVE  LET t == ConsumeConnection(s, n)
         IN /\ Moves(s, t, 0) /\ t \in Srv /\ Claim(t, 0) = Claim(s, 0)
            /\ use.auto => t = s
            /\ ~use.auto => IsClosing(t) \/ Kept(t, 0) = Kept(s, 0) - n
<1>0. 0 \in Ids BY IdsAre
<1>1. CASE use.auto BY <1>1, MovesNot DEF ConsumeConnection
<1>2. CASE ~use.auto BY <1>0, <1>2, UpdateConsumedIs DEF ConsumeConnection
<1> QED BY <1>1, <1>2

LEMMA ConsumeIs ==
  ASSUME NEW s \in Srv, NEW id \in StreamIds, NEW n \in Nat
  PROVE  LET t == Consume(s, id, n)
         IN /\ Onward(s, t) /\ t \in Srv /\ t.stream = s.stream /\ t.overrun = s.overrun
            /\ \A i \in Ids : i \notin {0, id} => Same(s, t, i)
            /\ \A i \in Ids : Claim(t, i) = Claim(s, i)
            /\ ~Live(s, id) => Same(s, t, id)
            /\ use.auto => t = s
            /\ ~use.auto => IsClosing(t) \/ (/\ Kept(t, 0) = Kept(s, 0) - n
                                             /\ Live(s, id) => Kept(t, id) = Kept(s, id) - n)
<1>0. 0 \in Ids /\ id \in Ids /\ id # 0 BY IdsAre
<1>1. CASE use.auto BY <1>1, OnwardSame DEF Consume, Same
<1>2. CASE ~use.auto
  <2> DEFINE r == UpdateConsumed(s, 0, n)
             t == Consume(s, id, n)
  <2>1. /\ Moves(s, r, 0) /\ r \in Srv /\ Claim(r, 0) = Claim(s, 0)
        /\ IsClosing(r) \/ Kept(r, 0) = Kept(s, 0) - n
    BY <1>0, UpdateConsumedIs
  <2>2. t = IF Live(r, id) THEN UpdateConsumed(r, id, n) ELSE r BY <1>2 DEF Consume
  <2> HIDE DEF r
  <2>3. /\ Moves(r, t, id) /\ t \in Srv /\ Claim(t, id) = Claim(r, id)
        /\ Live(r, id) => IsClosing(t) \/ Kept(t, id) = Kept(r, id) - n
        /\ ~Live(r, id) => t = r
    BY <1>0, <2>1, <2>2, UpdateConsumedIs, MovesNot
  <2> HIDE DEF t
  <2>4. Onward(s, t) /\ t.stream = s.stream /\ t.overrun = s.overrun BY <2>1, <2>3, OnwardTwice DEF Moves
  <2>5. \A i \in Ids : i \notin {0, id} => Same(s, t, i) BY <2>1, <2>3 DEF Moves, Same
  <2>6. Live(r, id) <=> Live(s, id) BY <2>1 DEF Moves, Live
  <2>7. Same(s, r, id) /\ Same(r, t, 0) BY <1>0, <2>1, <2>3 DEF Moves
  <2>8. \A i \in Ids : Claim(t, i) = Claim(s, i)
    <3> TAKE i \in Ids
    <3>1. CASE i = 0 BY <2>1, <2>7, <3>1 DEF Same, Claim
    <3>2. CASE i = id BY <2>3, <2>7, <3>2 DEF Same, Claim
    <3>3. CASE i \notin {0, id} BY <2>5, <3>3 DEF Same, Claim
    <3> QED BY <3>1, <3>2, <3>3
  <2>9. ~Live(s, id) => Same(s, t, id) BY <2>3, <2>6, <2>7
  <2>10. IsClosing(r) => IsClosing(t) BY <2>3 DEF Moves, Onward, IsClosing
  <2>11. Kept(t, 0) = Kept(r, 0) /\ Kept(r, id) = Kept(s, id) BY <2>7 DEF Same, Kept
  <2> QED BY <1>2, <2>1, <2>3, <2>4, <2>5, <2>6, <2>8, <2>9, <2>10, <2>11 DEF t
<1> QED BY <1>1, <1>2

\* The update is out.
LEMMA AfterWindowUpdateIs ==
  ASSUME NEW s \in Srv, NEW id \in Ids
  PROVE  LET t == AfterWindowUpdate(s, id)
         IN /\ Moves(s, t, id) /\ t \in Srv /\ Claim(t, id) = Claim(s, id)
            /\ ~use.auto => IsClosing(t) \/ Kept(t, id) = Kept(s, id)
<1> DEFINE w == [s.win[id] EXCEPT !.queued = FALSE]
           r == [s EXCEPT !.win[id] = w]
           t == AfterWindowUpdate(s, id)
<1>1. s.win[id] \in Win BY SrvFields
<1>2. /\ w \in Win /\ w.local = s.win[id].local /\ w.recv = s.win[id].recv
      /\ w.reduction = s.win[id].reduction /\ w.consumed = s.win[id].consumed
  BY <1>1 DEF Win
<1>3. t = IF id \in s.shutRd THEN r ELSE IF use.auto THEN Replenish(r, id) ELSE UpdateConsumed(r, id, 0)
  BY DEF AfterWindowUpdate, Srv
<1> HIDE DEF w
<1>4. Moves(s, r, id) /\ r \in Srv /\ r.win[id] = w /\ r.ob = s.ob BY <1>2, WindowCounts
<1> HIDE DEF r
<1>5. Claim(r, id) = Claim(s, id) /\ Kept(r, id) = Kept(s, id) BY <1>2, <1>4 DEF Claim, Kept
<1>6. CASE id \in s.shutRd
  <2>1. t = r BY <1>3, <1>6
  <2> QED BY <1>4, <1>5, <2>1
<1>7. CASE id \notin s.shutRd /\ use.auto
  <2>1. t = Replenish(r, id) BY <1>3, <1>7
  <2>2. Moves(r, t, id) /\ t \in Srv /\ Claim(t, id) = Claim(r, id) BY <1>4, <2>1, ReplenishIs
  <2>3. Moves(s, t, id) BY <1>4, <2>2, MovesTwice
  <2> QED BY <1>5, <1>7, <2>2, <2>3
<1>8. CASE id \notin s.shutRd /\ ~use.auto
  <2>1. t = UpdateConsumed(r, id, 0) BY <1>3, <1>8
  <2>2. /\ Moves(r, t, id) /\ t \in Srv /\ Claim(t, id) = Claim(r, id)
        /\ IsClosing(t) \/ Kept(t, id) = Kept(r, id) - 0
    BY <1>4, <2>1, UpdateConsumedIs
  <2>3. Moves(s, t, id) BY <1>4, <2>2, MovesTwice
  <2>4. Kept(r, id) \in Int BY <1>4, SrvFields DEF Kept
  <2> QED BY <1>5, <2>2, <2>3, <2>4
<1> QED BY <1>6, <1>7, <1>8

-----------------------------------------------------------------------------
(* A new initial window reaches the streams.                                *)

\* What UpdateLocalInitial does to one stream
MovedBy(id, t, new) ==
  IF t.win[id].local + new - t.initial > MaxWindow
  THEN AddRst(t, id)
  ELSE Replenish([t EXCEPT !.win[id].local = @ + new - t.initial], id)

\* What a new initial window does to the streams it has reached.
Shifted(s, t, done, new) ==
  /\ t \in Srv
  /\ t.shutRd = s.shutRd /\ t.urgent = s.urgent /\ t.initial = s.initial /\ t.inflight = s.inflight
  /\ t.goaway = s.goaway /\ t.overrun = s.overrun
  /\ \A i \in StreamIds : t.stream[i] = s.stream[i] \/ (s.stream[i] = "opened" /\ t.stream[i] = "closing")
  /\ InRange(s) => InRange(t)
  /\ ResetKnown(s) => ResetKnown(t)
  /\ \A i \in Ids : i \notin done => Same(s, t, i)
  /\ \A i \in done :
       \/ /\ t.win[i].local = s.win[i].local + new - s.initial
          /\ Claim(t, i) = Claim(s, i) + new - s.initial /\ t.stream[i] = s.stream[i]
          /\ ~use.auto => Kept(t, i) = Kept(s, i)
       \/ s.win[i].local + new - s.initial > MaxWindow /\ t.stream[i] # "opened"

LEMMA MovedByIs ==
  ASSUME NEW s \in Srv, NEW id \in StreamIds, s.stream[id] # "idle", NEW new \in 0..MaxWindow
  PROVE  Shifted(s, MovedBy(id, s, new), {id}, new)
<1> DEFINE t == MovedBy(id, s, new)
           d == new - s.initial
<1>0. id \in Ids /\ id # 0 /\ d \in Int /\ s.win[id] \in Win /\ s.win[id].local \in Int BY SrvFields, IdsAre
<1>1. CASE s.win[id].local + new - s.initial > MaxWindow
  <2>1. t = AddRst(s, id) BY <1>1 DEF MovedBy
  <2>2. /\ Onward(s, t) /\ t.stream[id] # "opened" /\ (\A i \in Ids : i # id => Same(s, t, i))
        /\ t.overrun = s.overrun /\ t.goaway = s.goaway
    BY <2>1, AddRstIs
  <2> HIDE DEF t
  <2>3. Shifted(s, t, {id}, new) BY <1>1, <2>2 DEF Shifted, Onward
  <2> QED BY <2>3 DEF t
<1>2. CASE ~(s.win[id].local + new - s.initial > MaxWindow)
  <2> DEFINE w == [s.win[id] EXCEPT !.local = @ + new - s.initial]
             r == [s EXCEPT !.win[id] = w]
  <2>1. t = Replenish(r, id) BY <1>2 DEF MovedBy, Srv
  <2>2. /\ w \in Win /\ w.local = s.win[id].local + new - s.initial /\ w.recv = s.win[id].recv
        /\ w.reduction = s.win[id].reduction /\ w.consumed = s.win[id].consumed
    <3>1. s.win[id].local + new - s.initial \in Int BY <1>0, SrvFields
    <3> QED BY <1>0, <3>1 DEF Win
  <2> HIDE DEF w
  <2>3. /\ r.win = [s.win EXCEPT ![id] = w] /\ r.shutRd = s.shutRd /\ r.urgent = s.urgent /\ r.stream = s.stream
        /\ r.ob = s.ob /\ r.goaway = s.goaway /\ r.initial = s.initial
        /\ r.inflight = s.inflight /\ r.overrun = s.overrun
    BY DEF Srv
  <2>4. r.win \in [Ids -> Win] /\ r.win[id] = w /\ \A i \in Ids : i # id => r.win[i] = s.win[i]
    BY <1>0, <2>2, <2>3, SrvFields
  <2>5. r \in Srv BY <2>3, <2>4 DEF Srv
  <2> HIDE DEF r
  <2>6. InRange(s) => InRange(r)
    <3> SUFFICES ASSUME InRange(s) PROVE InRange(r) OBVIOUS
    <3>1. \A i \in Ids :
            /\ r.win[i].local <= MaxWindow /\ (Apart => r.win[i].recv <= MaxWindow)
            /\ r.win[i].consumed \in 0..MaxWindow /\ r.win[i].reduction >= 0
      <4> TAKE i \in Ids
      <4>1. CASE i = id
        <5>1. r.win[i].local <= MaxWindow BY <1>0, <1>2, <2>2, <2>4, <4>1, SrvFields, IdsAre
        <5> QED BY <2>2, <2>4, <4>1, <5>1 DEF InRange
      <4>2. CASE i # id BY <2>4, <4>2 DEF InRange
      <4> QED BY <4>1, <4>2
    <3> QED BY <2>3, <3>1 DEF InRange
  <2>7. ResetKnown(s) => ResetKnown(r) BY <2>3 DEF ResetKnown
  <2>8. /\ Moves(r, t, id) /\ t \in Srv /\ Claim(t, id) = Claim(r, id) /\ t.goaway = r.goaway
        /\ ~use.auto => t = r
    BY <1>0, <2>1, <2>5, ReplenishIs
  <2> HIDE DEF t
  <2>9. Claim(r, id) = Claim(s, id) + new - s.initial /\ Kept(r, id) = Kept(s, id)
    <3>1. Claim(r, id) = (s.win[id].local + new - s.initial) - s.win[id].recv - Updates(s.ob, id)
      BY <2>2, <2>3, <2>4 DEF Claim
    <3>2. s.win[id].recv \in Int /\ Updates(s.ob, id) \in Int /\ s.initial \in Int /\ new \in Int
      BY <1>0, SrvFields, IdsAre
    <3>3. Claim(s, id) = s.win[id].local - s.win[id].recv - Updates(s.ob, id) BY DEF Claim
    <3>4. Claim(r, id) = Claim(s, id) + new - s.initial BY <1>0, <3>1, <3>2, <3>3
    <3> QED BY <2>2, <2>4, <3>4 DEF Kept
  <2>10. t.win[id].local = s.win[id].local + new - s.initial /\ t.stream = s.stream
    <3>1. t.win[id].local = r.win[id].local /\ t.stream = r.stream BY <1>0, <2>8 DEF Moves, Onward
    <3> QED BY <2>2, <2>3, <2>4, <3>1
  <2>11. \A i \in Ids : i \notin {id} => Same(s, t, i) BY <2>3, <2>4, <2>8 DEF Moves, Same
  <2>12. /\ t.shutRd = s.shutRd /\ t.urgent = s.urgent /\ t.initial = s.initial /\ t.inflight = s.inflight
         /\ t.goaway = s.goaway /\ t.overrun = s.overrun
         /\ (InRange(s) => InRange(t)) /\ (ResetKnown(s) => ResetKnown(t))
    BY <2>3, <2>6, <2>7, <2>8 DEF Moves, Onward
  <2>13. Shifted(s, t, {id}, new) BY <2>8, <2>9, <2>10, <2>11, <2>12 DEF Shifted
  <2> QED BY <2>13 DEF t
<1> QED BY <1>1, <1>2

LEMMA ShiftedMore ==
  ASSUME NEW s \in Srv, NEW r \in Srv, NEW t \in Srv, NEW done \in SUBSET StreamIds, NEW id \in StreamIds, id \notin done,
         NEW new \in 0..MaxWindow, Shifted(s, r, done, new), Shifted(r, t, {id}, new)
  PROVE  Shifted(s, t, done \cup {id}, new)
<1>0. id \in Ids /\ done \in SUBSET Ids BY IdsAre
<1>1. Same(s, r, id) /\ (\A i \in done : Same(r, t, i)) BY <1>0 DEF Shifted
<1>2. \A i \in Ids : i \notin done \cup {id} => Same(s, t, i) BY DEF Shifted, Same
<1>3. \A i \in StreamIds : t.stream[i] = s.stream[i] \/ (s.stream[i] = "opened" /\ t.stream[i] = "closing")
  BY DEF Shifted
<1>4. /\ t.shutRd = s.shutRd /\ t.urgent = s.urgent /\ t.initial = s.initial /\ t.inflight = s.inflight
      /\ t.goaway = s.goaway /\ t.overrun = s.overrun /\ r.initial = s.initial
      /\ (InRange(s) => InRange(t)) /\ (ResetKnown(s) => ResetKnown(t))
  BY DEF Shifted
<1>5. \A i \in done \cup {id} :
        \/ /\ t.win[i].local = s.win[i].local + new - s.initial
           /\ Claim(t, i) = Claim(s, i) + new - s.initial /\ t.stream[i] = s.stream[i]
           /\ ~use.auto => Kept(t, i) = Kept(s, i)
        \/ s.win[i].local + new - s.initial > MaxWindow /\ t.stream[i] # "opened"
  <2> TAKE i \in done \cup {id}
  <2>0. i # 0 BY IdsAre
  <2>1. CASE i = id
    <3>1. /\ r.win[i] = s.win[i] /\ r.stream[i] = s.stream[i] /\ Claim(r, i) = Claim(s, i)
          /\ Kept(r, i) = Kept(s, i)
      BY <1>1, <2>0, <2>1 DEF Same, Claim, Kept
    <3>2. \/ /\ t.win[i].local = r.win[i].local + new - r.initial
             /\ Claim(t, i) = Claim(r, i) + new - r.initial /\ t.stream[i] = r.stream[i]
             /\ ~use.auto => Kept(t, i) = Kept(r, i)
          \/ r.win[i].local + new - r.initial > MaxWindow /\ t.stream[i] # "opened"
      BY <2>1 DEF Shifted
    <3> QED BY <1>4, <3>1, <3>2
  <2>2. CASE i \in done
    <3>1. /\ t.win[i] = r.win[i] /\ t.stream[i] = r.stream[i] /\ Claim(t, i) = Claim(r, i)
          /\ Kept(t, i) = Kept(r, i)
      BY <1>1, <2>0, <2>2 DEF Same, Claim, Kept
    <3>2. \/ /\ r.win[i].local = s.win[i].local + new - s.initial
             /\ Claim(r, i) = Claim(s, i) + new - s.initial /\ r.stream[i] = s.stream[i]
             /\ ~use.auto => Kept(r, i) = Kept(s, i)
          \/ s.win[i].local + new - s.initial > MaxWindow /\ r.stream[i] # "opened"
      BY <2>2 DEF Shifted
    <3> QED BY <3>1, <3>2
  <2> QED BY <2>1, <2>2
<1> QED BY <1>2, <1>3, <1>4, <1>5 DEF Shifted

LEMMA ShiftedNone == ASSUME NEW s \in Srv, NEW new PROVE Shifted(s, s, {}, new)
BY DEF Shifted, Same

\* The recursion by which the streams are worked through, on the sets of streams.
Step(g, s, base, new) == IF s = {} THEN base ELSE MovedBy(Pick(s), g[s \ {Pick(s)}], new)
Steps(base, S, new) == CHOOSE g : g = [s \in SUBSET S |-> Step(g, s, base, new)]

LEMMA UpdateIsSteps ==
  ASSUME NEW s, NEW new
  PROVE  LET S == {id \in StreamIds : s.stream[id] # "idle"}
         IN UpdateLocalInitial(s, new) = [Steps(s, S, new)[S] EXCEPT !.initial = new, !.inflight = Tail(@)]
BY DEF UpdateLocalInitial, FoldSet, MapThenFoldSet, Steps, Step, Pick, MovedBy

LEMMA StepsExist ==
  ASSUME NEW base, NEW new, NEW S, IsFiniteSet(S)
  PROVE  \A s \in SUBSET S : Steps(base, S, new)[s] = Step(Steps(base, S, new), s, base, new)
<1> DEFINE K(n) == {s \in SUBSET S : Cardinality(s) <= n}
           T == {n \in Nat : \E g : g = [s \in K(n) |-> Step(g, s, base, new)]}
<1>1. \A s \in SUBSET S : IsFiniteSet(s) /\ Cardinality(s) \in Nat BY FS_Subset, FS_CardinalityType
<1>2. 0 \in T
  <2> DEFINE z == [s \in K(0) |-> base]
  <2>1. \A s \in K(0) : s = {} BY <1>1, FS_EmptySet
  <2>2. z = [s \in K(0) |-> Step(z, s, base, new)] BY <2>1 DEF Step
  <2> QED BY <2>2
<1>3. \A n \in T : n + 1 \in T
  <2> TAKE n \in T
  <2>1. PICK g : g = [s \in K(n) |-> Step(g, s, base, new)] OBVIOUS
  <2> DEFINE h == [s \in K(n + 1) |-> Step(g, s, base, new)]
  <2>2. n \in Nat OBVIOUS
  <2>3. \A s \in K(n) : s \in K(n + 1) /\ h[s] = g[s] BY <1>1, <2>1, <2>2
  <2>4. ASSUME NEW s \in K(n + 1) PROVE Step(g, s, base, new) = Step(h, s, base, new)
    <3>1. CASE s = {} BY <3>1 DEF Step
    <3>2. CASE s # {}
      <4>1. IsFiniteSet(s) /\ Cardinality(s) <= n + 1 BY <1>1
      <4>2. Cardinality(s \ {Pick(s)}) = Cardinality(s) - 1 BY <3>2, <4>1, OneLess
      <4>3. s \ {Pick(s)} \in K(n) BY <1>1, <2>2, <4>1, <4>2
      <4>4. h[s \ {Pick(s)}] = g[s \ {Pick(s)}] BY <2>3, <4>3
      <4> HIDE DEF h, K
      <4>5. Step(g, s, base, new) = MovedBy(Pick(s), g[s \ {Pick(s)}], new) BY <3>2 DEF Step
      <4>6. Step(h, s, base, new) = MovedBy(Pick(s), h[s \ {Pick(s)}], new) BY <3>2 DEF Step
      <4> QED BY <4>4, <4>5, <4>6
    <3> QED BY <3>1, <3>2
  <2>5. h = [s \in K(n + 1) |-> Step(h, s, base, new)]
    <3>1. \A s \in K(n + 1) : Step(g, s, base, new) = Step(h, s, base, new) BY <2>4
    <3>2. h = [s \in K(n + 1) |-> Step(g, s, base, new)] OBVIOUS
    <3> HIDE DEF h, K
    <3> QED BY <3>1, <3>2
  <2> HIDE DEF h, K
  <2> QED BY <2>2, <2>5
<1>4. T = Nat
  <2>1. T \subseteq Nat OBVIOUS
  <2> HIDE DEF T
  <2> QED BY <1>2, <1>3, <2>1, NatSet
<1>5. Cardinality(S) \in T BY <1>1, <1>4
<1>6. K(Cardinality(S)) = SUBSET S
  <2>1. \A s \in SUBSET S : Cardinality(s) <= Cardinality(S) BY FS_Subset
  <2> QED BY <2>1
<1>7. \E g : g = [s \in SUBSET S |-> Step(g, s, base, new)]
  <2> HIDE DEF K
  <2> QED BY <1>5, <1>6
<1>8. Steps(base, S, new) = [s \in SUBSET S |-> Step(Steps(base, S, new), s, base, new)] BY <1>7 DEF Steps
<1> QED BY <1>8

\* All streams have moved, each once, in whatever order.
LEMMA StepsShift ==
  ASSUME NEW base \in Srv, NEW new \in 0..MaxWindow, NEW S \in SUBSET StreamIds, \A i \in S : base.stream[i] # "idle"
  PROVE  Shifted(base, Steps(base, S, new)[S], S, new)
<1> DEFINE g == Steps(base, S, new)
           T == {n \in Nat : \A s \in SUBSET S : Cardinality(s) = n => Shifted(base, g[s], s, new)}
<1>0. IsFiniteSet(S) BY SizesAssumption, FS_Subset
<1>1. \A s \in SUBSET S : IsFiniteSet(s) /\ Cardinality(s) \in Nat BY <1>0, FS_Subset, FS_CardinalityType
<1>2. \A s \in SUBSET S : g[s] = Step(g, s, base, new) BY <1>0, StepsExist
<1> HIDE DEF g
<1>3. 0 \in T
  <2> SUFFICES ASSUME NEW s \in SUBSET S, Cardinality(s) = 0 PROVE Shifted(base, g[s], s, new) OBVIOUS
  <2>1. s = {} BY <1>1, FS_EmptySet
  <2>2. g[s] = base BY <1>2, <2>1 DEF Step
  <2> QED BY <2>1, <2>2, ShiftedNone
<1>4. \A n \in T : n + 1 \in T
  <2> SUFFICES ASSUME NEW n \in T PROVE n + 1 \in T OBVIOUS
  <2>1. n \in Nat /\ \A s \in SUBSET S : Cardinality(s) = n => Shifted(base, g[s], s, new) OBVIOUS
  <2> SUFFICES ASSUME NEW s \in SUBSET S, Cardinality(s) = n + 1 PROVE Shifted(base, g[s], s, new)
    BY <2>1
  <2>2. IsFiniteSet(s) /\ s # {}
    <3>1. Cardinality({}) = 0 BY FS_EmptySet
    <3>2. Cardinality(s) # 0 BY <2>1
    <3> HIDE DEF T
    <3>3. s # {} BY <3>1, <3>2, Zenon
    <3> QED BY <1>1, <3>3
  <2> DEFINE x == Pick(s)
             r == s \ {x}
  <2>3. x \in s /\ Cardinality(r) = n BY <2>1, <2>2, PickIn, OneLess
  <2>4. g[s] = MovedBy(x, g[r], new) BY <1>2, <2>2 DEF Step
  <2>5. r \in SUBSET S /\ r \in SUBSET StreamIds /\ x \notin r /\ s = r \cup {x} /\ x \in StreamIds BY <2>3
  <2> HIDE DEF x, r
  <2>6. Shifted(base, g[r], r, new) BY <2>1, <2>3, <2>5
  <2>7. g[r] \in Srv /\ g[r].stream[x] # "idle"
    <3>1. g[r] \in Srv /\ \A i \in StreamIds : g[r].stream[i] = base.stream[i] \/ g[r].stream[i] = "closing"
      BY <2>6 DEF Shifted
    <3> QED BY <2>3, <2>5, <3>1
  <2>8. Shifted(g[r], g[s], {x}, new) BY <2>4, <2>5, <2>7, MovedByIs
  <2>9. g[s] \in Srv BY <2>8 DEF Shifted
  <2>10. Shifted(base, g[s], r \cup {x}, new) BY <2>5, <2>6, <2>7, <2>8, <2>9, ShiftedMore
  <2> QED BY <2>5, <2>10
<1>5. T = Nat
  <2>1. T \subseteq Nat OBVIOUS
  <2> HIDE DEF T
  <2> QED BY <1>3, <1>4, <2>1, NatSet
<1>6. Cardinality(S) \in T BY <1>1, <1>5
<1> QED BY <1>6 DEF g

LEMMA UpdateLocalInitialIs ==
  ASSUME NEW s \in Srv, s.inflight # <<>>
  PROVE  LET new == Head(s.inflight)
             t == UpdateLocalInitial(s, new)
         IN /\ t \in Srv /\ t.initial = new /\ new \in 0..MaxWindow /\ t.inflight = Tail(s.inflight)
            /\ t.shutRd = s.shutRd /\ t.urgent = s.urgent /\ t.goaway = s.goaway /\ t.overrun = s.overrun
            /\ \A i \in StreamIds : t.stream[i] = s.stream[i] \/ (s.stream[i] = "opened" /\ t.stream[i] = "closing")
            /\ InRange(s) => InRange(t)
            /\ ResetKnown(s) => ResetKnown(t)
            /\ \A i \in Ids : (i = 0 \/ s.stream[i] = "idle") => Same(s, t, i)
            /\ \A i \in StreamIds : s.stream[i] # "idle" =>
                 \/ /\ t.win[i].local = s.win[i].local + new - s.initial
                    /\ Claim(t, i) = Claim(s, i) + new - s.initial /\ t.stream[i] = s.stream[i]
                    /\ ~use.auto => Kept(t, i) = Kept(s, i)
                 \/ s.win[i].local + new - s.initial > MaxWindow /\ t.stream[i] # "opened"
<1> DEFINE new == Head(s.inflight)
           S == {id \in StreamIds : s.stream[id] # "idle"}
           r == Steps(s, S, new)[S]
           t == UpdateLocalInitial(s, new)
<1>1. new \in 0..MaxWindow /\ Tail(s.inflight) \in Seq(0..MaxWindow)
  <2> DEFINE V == 0..MaxWindow
  <2>1. s.inflight \in Seq(V) BY SrvFields
  <2> HIDE DEF V
  <2>2. Head(s.inflight) \in V /\ Tail(s.inflight) \in Seq(V) BY <2>1, HeadAndTail
  <2> QED BY <2>2 DEF V
<1>2. t = [r EXCEPT !.initial = new, !.inflight = Tail(@)] BY UpdateIsSteps
<1> HIDE DEF new, t
<1>3. Shifted(s, r, S, new)
  <2>1. S \in SUBSET StreamIds /\ \A i \in S : s.stream[i] # "idle" OBVIOUS
  <2> HIDE DEF S
  <2> QED BY <1>1, <2>1, StepsShift
<1>4. r \in Srv /\ r.inflight = s.inflight BY <1>3 DEF Shifted
<1> HIDE DEF r
<1>5. /\ t.win = r.win /\ t.shutRd = r.shutRd /\ t.urgent = r.urgent /\ t.stream = r.stream
      /\ t.ob = r.ob /\ t.goaway = r.goaway /\ t.initial = new
      /\ t.inflight = Tail(s.inflight) /\ t.overrun = r.overrun /\ t \in Srv
  BY <1>1, <1>2, <1>4 DEF Srv
<1>6. (InRange(s) => InRange(t)) /\ (ResetKnown(s) => ResetKnown(t))
  BY <1>3, <1>5 DEF Shifted, InRange, ResetKnown
<1>7. \A i \in Ids : (i = 0 \/ s.stream[i] = "idle") => Same(s, t, i)
  <2>1. \A i \in Ids : (i = 0 \/ s.stream[i] = "idle") => i \notin S BY IdsAre
  <2> QED BY <1>3, <1>5, <2>1 DEF Shifted, Same
<1>8. \A i \in StreamIds : s.stream[i] # "idle" =>
        \/ /\ t.win[i].local = s.win[i].local + new - s.initial
           /\ Claim(t, i) = Claim(s, i) + new - s.initial /\ t.stream[i] = s.stream[i]
           /\ ~use.auto => Kept(t, i) = Kept(s, i)
        \/ s.win[i].local + new - s.initial > MaxWindow /\ t.stream[i] # "opened"
  <2> SUFFICES ASSUME NEW i \in S
               PROVE  \/ /\ t.win[i].local = s.win[i].local + new - s.initial
                         /\ Claim(t, i) = Claim(s, i) + new - s.initial /\ t.stream[i] = s.stream[i]
                         /\ ~use.auto => Kept(t, i) = Kept(s, i)
                      \/ s.win[i].local + new - s.initial > MaxWindow /\ t.stream[i] # "opened"
    OBVIOUS
  <2>1. Claim(t, i) = Claim(r, i) /\ Kept(t, i) = Kept(r, i) BY <1>5 DEF Claim, Kept
  <2> HIDE DEF S
  <2> QED BY <1>3, <1>5, <2>1 DEF Shifted
<1>9. \A i \in StreamIds : t.stream[i] = s.stream[i] \/ (s.stream[i] = "opened" /\ t.stream[i] = "closing")
  BY <1>3, <1>5 DEF Shifted
<1>10. /\ t.shutRd = s.shutRd /\ t.urgent = s.urgent /\ t.goaway = s.goaway /\ t.overrun = s.overrun
  BY <1>3, <1>5 DEF Shifted
<1> QED BY <1>1, <1>5, <1>6, <1>7, <1>8, <1>9, <1>10 DEF t, new

-----------------------------------------------------------------------------
(* What the parts of the invariant depend on.                               *)

LEMMA TypesFacts ==
  ASSUME Types
  PROVE  /\ srv \in Srv /\ fromPeer \in Seq(In) /\ toPeer \in Seq(Msg)
         /\ peer.credit \in [Ids -> Int] /\ peer.initial \in 0..MaxWindow /\ peer.initial \in Int
         /\ peer.opened \in SUBSET StreamIds /\ peer.ended \in SUBSET StreamIds
         /\ held \in [StreamIds -> Nat]
         /\ iframe = NoFrame \/ iframe \in Reader
         /\ srv.initial \in Int
BY IdsAre, SrvFields DEF Types, Msg

\* The order of frames on the wire, while the peer and its wire stay as they are
LEMMA OrderKept ==
  ASSUME Types, Unopened, Opening, Ending, UNCHANGED <<fromPeer, peer>>,
         \A i \in StreamIds : srv.stream[i] = "idle" =>
           /\ srv'.stream[i] = "idle" /\ (held[i] = 0 => held'[i] = 0)
           /\ Updates(srv.ob, i) = 0 => Updates(srv'.ob, i) = 0
           /\ Updates(toPeer, i) = 0 => Updates(toPeer', i) = 0,
         \/ iframe' = NoFrame
         \/ iframe # NoFrame /\ iframe' # NoFrame /\ iframe'.id = iframe.id /\ iframe'.end = iframe.end,
         \A i \in srv'.shutRd :
           \/ i \in srv.shutRd
           \/ iframe # NoFrame /\ iframe.end /\ iframe.id = i /\ iframe' = NoFrame
  PROVE  (Unopened /\ Opening /\ Ending)'
<1>1. \A i \in StreamIds : Untouched(i) => Untouched(i)' BY DEF Untouched
<1>2. Unopened' BY <1>1 DEF Unopened
<1>3. Opening'
  <2> SUFFICES ASSUME NEW i \in DOMAIN fromPeer, fromPeer[i].type = "HEADERS"
               PROVE  LET id == fromPeer[i].id
                      IN /\ id \in peer'.opened /\ Untouched(id)'
                         /\ peer'.credit[id] + Bytes(fromPeer', id) = peer'.initial
                         /\ \A j \in DOMAIN fromPeer :
                              (AboutStream(fromPeer[j], id) /\ i # j) => i < j /\ fromPeer[j].type = "DATA"
    BY DEF Opening
  <2>1. fromPeer[i] \in In BY TypesFacts
  <2>2. fromPeer[i].id \in StreamIds BY <2>1, InFields
  <2> QED BY <1>1, <2>2 DEF Opening
<1>4. Ending' BY DEF Ending, NoDataOf
<1> QED BY <1>2, <1>3, <1>4

\* The acknowledgements, while nothing is sent that needs one
LEMMA AcksKept ==
  ASSUME Types, AckLedger, UNCHANGED fromPeer, peer'.initial = peer.initial,
         srv'.initial = srv.initial, srv'.inflight = srv.inflight, srv'.urgent = srv.urgent,
         \/ toPeer' = toPeer
         \/ \E f \in Msg : f.type # "SETTINGS" /\ toPeer' = Append(toPeer, f)
  PROVE  AckLedger' /\ \A i : InitialAt(i)' = InitialAt(i)
<1>0. Acknowledged' = Acknowledged BY DEF Acknowledged
<1>1. \A i : InitialAt(i)' = InitialAt(i) BY DEF InitialAt
<1>2. CASE toPeer' = toPeer
  <2>1. Len(fromPeer)' = Len(fromPeer) OBVIOUS
  <2>2. peer'.initial = InitialAt(Len(fromPeer))' BY DEF AckLedger, InitialAt
  <2> QED BY <1>0, <1>1, <1>2, <2>2 DEF AckLedger
<1>3. ASSUME NEW f \in Msg, f.type # "SETTINGS", toPeer' = Append(toPeer, f) PROVE AckLedger'
  <2>0. toPeer \in Seq(Msg) BY TypesFacts
  <2>1. Count(toPeer', "SETTINGS") = Count(toPeer, "SETTINGS")
    <3>1. Count(Append(toPeer, f), "SETTINGS") = Count(toPeer, "SETTINGS") + One(f, "SETTINGS")
      BY <2>0, CountStep
    <3>2. Count(toPeer, "SETTINGS") \in Nat BY <2>0, CountStep
    <3> QED BY <1>3, <3>1, <3>2 DEF One
  <2>2. \A j \in DOMAIN toPeer' : toPeer'[j].type = "SETTINGS" =>
          /\ j \in DOMAIN toPeer /\ toPeer'[j] = toPeer[j]
          /\ CountTo(toPeer', "SETTINGS", j) = CountTo(toPeer, "SETTINGS", j)
    <3> TAKE j \in DOMAIN toPeer'
    <3> HAVE toPeer'[j].type = "SETTINGS"
    <3>1. j \in 1..Len(toPeer) /\ toPeer'[j] = toPeer[j] BY <1>3, <2>0
    <3>2. CountTo(Append(toPeer, f), "SETTINGS", j) = CountTo(toPeer, "SETTINGS", j)
      <4>1. j \in 0..Len(toPeer) BY <3>1
      <4> QED BY <2>0, <4>1, CountToAppend
    <3> QED BY <1>3, <2>0, <3>1, <3>2
  <2>3. Len(srv'.inflight) = Acknowledged' + Count(toPeer', "SETTINGS") + Len(srv'.urgent)
    BY <1>0, <2>1 DEF AckLedger
  <2>4. peer'.initial = InitialAt(Len(fromPeer))' BY DEF AckLedger, InitialAt
  <2>5. \A j \in DOMAIN toPeer' : toPeer'[j].type = "SETTINGS" =>
          toPeer'[j].inc = srv'.inflight[Acknowledged' + CountTo(toPeer', "SETTINGS", j)]
    BY <1>0, <2>2 DEF AckLedger
  <2>6. \A j \in DOMAIN srv'.urgent :
          srv'.urgent[j].inc = srv'.inflight[Acknowledged' + Count(toPeer', "SETTINGS") + j]
    BY <1>0, <2>1 DEF AckLedger
  <2> QED BY <2>3, <2>4, <2>5, <2>6 DEF AckLedger
<1> QED BY <1>1, <1>2, <1>3

LEMMA AffordedKept ==
  ASSUME Afforded, UNCHANGED <<fromPeer, peer, use>>, srv'.initial = srv.initial,
         \A i \in DOMAIN fromPeer : InitialAt(i)' = InitialAt(i),
         iframe' = NoFrame \/ (iframe # NoFrame /\ iframe'.id = iframe.id)
  PROVE  Afforded'
<1>1. \A i \in DOMAIN fromPeer : BytesAfter(fromPeer', i, fromPeer'[i].id) = BytesAfter(fromPeer, i, fromPeer[i].id)
  OBVIOUS
<1> QED BY <1>1 DEF Afforded

LEMMA SlackType ==
  ASSUME Types, NEW id \in Ids
  PROVE  /\ Claim(srv, id) \in Int /\ SettingsGap(id) \in Int /\ Updates(toPeer, id) \in Nat /\ peer.credit[id] \in Int
         /\ Bytes(fromPeer, id) \in Nat /\ InFlight(id) \in Nat /\ Slack(id) \in Int /\ Kept(srv, id) \in Int
<1>1. Claim(srv, id) \in Int /\ Kept(srv, id) \in Int
  <2>1. srv \in Srv BY TypesFacts
  <2>2. /\ srv.win[id].local \in Int /\ srv.win[id].recv \in Int /\ srv.win[id].consumed \in Int
        /\ Updates(srv.ob, id) \in Nat
    BY <2>1, SrvFields
  <2> QED BY <2>2 DEF Claim, Kept
<1>2. SettingsGap(id) \in Int BY TypesFacts DEF SettingsGap
<1>3. Updates(toPeer, id) \in Nat BY TypesFacts, UpdatesStep
<1>4. peer.credit[id] \in Int BY TypesFacts
<1>5. Bytes(fromPeer, id) \in Nat BY TypesFacts, BytesStep
<1>6. iframe # NoFrame => iframe.left \in Nat BY TypesFacts DEF Reader
<1>7. InFlight(id) \in Nat BY <1>5, <1>6 DEF InFlight
<1> QED BY <1>1, <1>2, <1>3, <1>4, <1>5, <1>7 DEF Slack

\* Who is accused has claimed more than there is.
LEMMA OverrunsClaim ==
  ASSUME NEW s \in Srv, InRange(s), NEW id \in Ids, NEW n \in Nat, Overruns(s.win[id], n)
  PROVE  Claim(s, id) < n
<1>1. /\ s.win[id].local \in Int /\ s.win[id].recv \in Int /\ Updates(s.ob, id) \in Nat
      /\ s.win[id].local <= MaxWindow
  BY SrvFields DEF InRange
<1> QED BY <1>1, IdsAre DEF Overruns, Claim

\* An honest peer had the room for what is being read.
LEMMA Enough ==
  ASSUME Types, Roomy, Afforded, use.honest, Apart, iframe # NoFrame
  PROVE  /\ Claim(srv, 0) >= iframe.left
         /\ Live(srv, iframe.id) => Claim(srv, iframe.id) >= iframe.left
<1> DEFINE id == iframe.id
<1>1. id \in StreamIds /\ id \in Ids /\ 0 \in Ids /\ id # 0 /\ iframe.left \in Nat BY TypesFacts, IdsAre DEF Reader
<1>2. Claim(srv, 0) >= iframe.left
  <2>1. Slack(0) >= 0 /\ peer.credit[0] >= 0 BY <1>1 DEF Roomy, Afforded
  <2>2. /\ InFlight(0) = Bytes(fromPeer, 0) + iframe.left /\ SettingsGap(0) = 0
        /\ Slack(0) = Claim(srv, 0) + SettingsGap(0) - Updates(toPeer, 0) - peer.credit[0] - InFlight(0)
    BY DEF InFlight, SettingsGap, Slack
  <2>3. /\ Claim(srv, 0) \in Int /\ Updates(toPeer, 0) \in Nat /\ peer.credit[0] \in Int /\ Bytes(fromPeer, 0) \in Nat
    BY <1>1, SlackType
  <2> QED BY <1>1, <2>1, <2>2, <2>3
<1>3. ASSUME Live(srv, id) PROVE Claim(srv, id) >= iframe.left
  <2>1. Slack(id) >= 0 /\ peer.credit[id] + Bytes(fromPeer, id) >= peer.initial - srv.initial
    BY <1>1, <1>3 DEF Roomy, Afforded
  <2>2. /\ InFlight(id) = Bytes(fromPeer, id) + iframe.left /\ SettingsGap(id) = peer.initial - srv.initial
        /\ Slack(id) = Claim(srv, id) + SettingsGap(id) - Updates(toPeer, id) - peer.credit[id] - InFlight(id)
    BY <1>1 DEF InFlight, SettingsGap, Slack
  <2>3. /\ Claim(srv, id) \in Int /\ Updates(toPeer, id) \in Nat /\ peer.credit[id] \in Int /\ Bytes(fromPeer, id) \in Nat
        /\ peer.initial \in Int /\ srv.initial \in Int
    BY <1>1, SlackType, TypesFacts
  <2> HIDE DEF id
  <2> QED BY <1>1, <2>1, <2>2, <2>3
<1> QED BY <1>2, <1>3

-----------------------------------------------------------------------------
(* Reading DATA.                                                            *)

\* What reading n bytes of a stream does, k of which the application now holds
ReadPart(s, t, id, n, k) ==
  /\ Onward(s, t)
  /\ \A i \in Ids : i \notin {0, id} => Same(s, t, i)
  /\ s.stream[id] = "idle" => Updates(t.ob, id) = Updates(s.ob, id)
  /\ Claim(t, 0) = Claim(s, 0) - n \/ (Claim(t, 0) = Claim(s, 0) /\ IsClosing(t))
  /\ \/ Claim(t, id) = Claim(s, id) - n
     \/ Claim(t, id) = Claim(s, id) /\ (IsClosing(t) \/ t.stream[id] # "opened")
  /\ s.overrun \subseteq t.overrun
  /\ 0 \in t.overrun => 0 \in s.overrun \/ (Claim(s, 0) < n /\ IsClosing(t))
  /\ id \in t.overrun => id \in s.overrun \/ (Claim(s, id) < n /\ Live(s, id) /\ t.stream[id] # "opened")
  /\ ~use.auto /\ ~IsClosing(t) => /\ Kept(t, 0) = Kept(s, 0) + k
                                   /\ t.stream[id] = "opened" => Kept(t, id) = Kept(s, id) + k
  /\ k # 0 => Live(s, id)

\* What is held in all follows what is held of one stream.
LEMMA HeldChange ==
  ASSUME Types, NEW id \in StreamIds, held' \in [StreamIds -> Int], \A s \in StreamIds \ {id} : held'[s] = held[s]
  PROVE  HeldBytes \in Int /\ HeldBytes' = HeldBytes - held[id] + held'[id]
<1>1. held \in [StreamIds -> Int] /\ IsFiniteSet(StreamIds) BY TypesFacts, SizesAssumption
<1>2. SumFunction(held') = SumFunction(held) - held[id] + held'[id] BY <1>1, SumChange
<1>3. DOMAIN held = StreamIds /\ \A x \in StreamIds : held[x] \in Int BY <1>1
<1>4. SumFunction(held) \in Int BY <1>1, <1>3, SumType DEF SumFunction
<1> QED BY <1>2, <1>4 DEF HeldBytes

\* The end of a message closes the stream for reading.
LEMMA EndDataIs ==
  ASSUME NEW t \in Srv, iframe.id \in StreamIds
  PROVE  LET u == EndData(t)
         IN /\ u.win = t.win /\ u.stream = t.stream /\ u.urgent = t.urgent /\ u.ob = t.ob
            /\ u.goaway = t.goaway /\ u.initial = t.initial /\ u.inflight = t.inflight
            /\ u.overrun = t.overrun /\ u \in Srv
            /\ \/ u.shutRd = t.shutRd
               \/ /\ u.shutRd = t.shutRd \cup {iframe.id} /\ iframe.end /\ t.stream[iframe.id] = "opened"
<1> DEFINE x == t.shutRd \cup {iframe.id}
           u == [t EXCEPT !.shutRd = x]
<1>1. x \in SUBSET StreamIds BY SrvFields
<1>2. EndData(t) = u \/ EndData(t) = t BY DEF EndData
<1>3. EndData(t) # t => iframe.end /\ t.stream[iframe.id] = "opened" BY DEF EndData
<1> HIDE DEF x
<1>4. /\ u.win = t.win /\ u.stream = t.stream /\ u.urgent = t.urgent /\ u.ob = t.ob
      /\ u.goaway = t.goaway /\ u.initial = t.initial /\ u.inflight = t.inflight
      /\ u.overrun = t.overrun /\ u \in Srv /\ u.shutRd = x
  BY <1>1 DEF Srv
<1> HIDE DEF u
<1>5. CASE EndData(t) = t BY <1>5
<1>6. CASE EndData(t) # t BY <1>2, <1>3, <1>4, <1>6 DEF x
<1> QED BY <1>5, <1>6

LEMMA ReadKeeps ==
  ASSUME LedgerInv, iframe # NoFrame, NEW id, id = iframe.id, NEW n \in 0..iframe.left, NEW k \in Nat,
         NEW t, ReadPart(srv, t, id, n, k),
         srv' = t \/ (srv' = EndData(t) /\ iframe' = NoFrame),
         UNCHANGED <<use, fromPeer, toPeer, peer, frames, calls>>,
         \/ iframe' = NoFrame /\ n = iframe.left
         \/ /\ iframe' \in Reader /\ iframe' # NoFrame /\ iframe'.id = id /\ iframe'.end = iframe.end
            /\ iframe'.left = iframe.left - n
            /\ iframe'.state # "READ_PAD_DATA"
            /\ iframe'.state = "IGN_DATA" => IsClosing(t) \/ t.stream[id] # "opened",
         held' = IF use.auto \/ k = 0 THEN held ELSE [held EXCEPT ![id] = @ + k]
  PROVE  LedgerInv'
<1>0. /\ Types /\ InRange(srv) /\ Balanced /\ Roomy /\ Unopened /\ Opening /\ Ending /\ Touched
      /\ Ignored /\ HeldRight /\ Within /\ AckLedger /\ Afforded /\ LocalInitial /\ NoneAccused
  BY DEF LedgerInv
<1>1. /\ srv \in Srv /\ t \in Srv /\ iframe \in Reader /\ id \in StreamIds /\ id \in Ids /\ 0 \in Ids /\ id # 0
      /\ iframe.left \in Nat /\ n \in Nat
  BY <1>0, TypesFacts, IdsAre DEF ReadPart, Onward, Reader
<1>2. /\ srv'.win = t.win /\ srv'.stream = t.stream /\ srv'.urgent = t.urgent /\ srv'.ob = t.ob
      /\ srv'.goaway = t.goaway /\ srv'.initial = t.initial /\ srv'.inflight = t.inflight
      /\ srv'.overrun = t.overrun /\ srv' \in Srv
      /\ \/ srv'.shutRd = t.shutRd
         \/ /\ srv'.shutRd = t.shutRd \cup {id} /\ iframe.end /\ t.stream[id] = "opened" /\ iframe' = NoFrame
  <2>1. CASE srv' = t BY <1>1, <2>1
  <2>2. CASE srv' = EndData(t) /\ iframe' = NoFrame BY <1>1, <2>2, EndDataIs
  <2> QED BY <2>1, <2>2
<1>3. /\ t.shutRd = srv.shutRd /\ t.urgent = srv.urgent /\ t.initial = srv.initial /\ t.inflight = srv.inflight
      /\ \A i \in StreamIds : t.stream[i] = srv.stream[i] \/ (srv.stream[i] = "opened" /\ t.stream[i] = "closing")
      /\ t.goaway = srv.goaway \/ (srv.goaway = "none" /\ t.goaway = "queued")
      /\ (\A i \in Ids : t.win[i].local = srv.win[i].local) /\ InRange(t) /\ (Fitting(srv) => Fitting(t))
      /\ (ResetKnown(srv) => ResetKnown(t)) /\ (IsClosing(srv) => IsClosing(t)) /\ IsClosing(srv)' = IsClosing(t)
  BY <1>0, <1>2 DEF ReadPart, Onward, IsClosing
<1>4. \A i \in StreamIds : held'[i] = IF i = id /\ ~use.auto THEN held[i] + k ELSE held[i]
  BY <1>0, <1>1, TypesFacts
<1>5. Types'
  <2>1. held' \in [StreamIds -> Nat] BY <1>0, <1>1, TypesFacts
  <2> QED BY <1>0, <1>2, <2>1 DEF Types
<1>6. InRange(srv)' BY <1>2, <1>3 DEF InRange, Apart
<1>7. \A i \in Ids : /\ Claim(srv, i)' = Claim(t, i) /\ Kept(srv, i)' = Kept(t, i)
                     /\ SettingsGap(i)' = SettingsGap(i)
                     /\ InFlight(i)' = IF i \in {0, id} THEN InFlight(i) - n ELSE InFlight(i)
  <2> TAKE i \in Ids
  <2>1. Claim(srv, i)' = Claim(t, i) /\ Kept(srv, i)' = Kept(t, i) BY <1>2 DEF Claim, Kept
  <2>2. SettingsGap(i)' = SettingsGap(i) BY <1>2, <1>3 DEF SettingsGap
  <2>3. Bytes(fromPeer, i) \in Nat BY <1>0, SlackType
  <2>4. InFlight(i)' = IF i \in {0, id} THEN InFlight(i) - n ELSE InFlight(i)
    BY <1>1, <2>3 DEF InFlight
  <2> QED BY <2>1, <2>2, <2>4
<1>8. \A i \in Ids : i \notin {0, id} => Claim(t, i) = Claim(srv, i) /\ Kept(t, i) = Kept(srv, i)
  BY DEF ReadPart, Same, Claim, Kept
<1>9. \A i \in Ids : \/ Slack(i)' = Slack(i)
                     \/ /\ Slack(i)' = Slack(i) + n
                        /\ IsClosing(t) \/ (i # 0 /\ t.stream[i] # "opened")
  <2> TAKE i \in Ids
  <2>1. /\ Claim(srv, i) \in Int /\ SettingsGap(i) \in Int /\ Updates(toPeer, i) \in Int /\ peer.credit[i] \in Int
        /\ InFlight(i) \in Int
    BY <1>0, SlackType
  <2>2. Slack(i) = Claim(srv, i) + SettingsGap(i) - Updates(toPeer, i) - peer.credit[i] - InFlight(i) BY DEF Slack
  <2>3. Slack(i)' = Claim(t, i) + SettingsGap(i) - Updates(toPeer, i) - peer.credit[i] - InFlight(i)'
    BY <1>7 DEF Slack
  <2>4. CASE i \notin {0, id} BY <1>7, <1>8, <2>2, <2>3, <2>4
  <2>5. CASE i \in {0, id}
    <3>1. InFlight(i)' = InFlight(i) - n BY <1>7, <2>5
    <3>2. \/ Claim(t, i) = Claim(srv, i) - n
          \/ Claim(t, i) = Claim(srv, i) /\ (IsClosing(t) \/ (i # 0 /\ t.stream[i] # "opened"))
      BY <1>1, <2>5 DEF ReadPart
    <3> QED BY <1>1, <2>1, <2>2, <2>3, <3>1, <3>2
  <2> QED BY <2>4, <2>5
<1>10. \A i \in Ids : Slack(i) \in Int BY <1>0, SlackType
<1>11. \A i \in Ids : Counted(i)' => Counted(i) /\ ~IsClosing(t) /\ (i # 0 => t.stream[i] = "opened")
  <2> TAKE i \in Ids
  <2> HAVE Counted(i)'
  <2>1. ~IsClosing(t) /\ i \notin t.overrun /\ (i # 0 => t.stream[i] = "opened") BY <1>2, <1>3 DEF Counted
  <2>2. i \notin srv.overrun BY <2>1 DEF ReadPart
  <2> QED BY <1>3, <2>1, <2>2, IdsAre DEF Counted
<1>12. Balanced' BY <1>0, <1>9, <1>11 DEF Balanced
<1>13. Roomy'
  <2> SUFFICES ASSUME use.honest, Apart, NEW i \in Ids, i = 0 \/ Live(srv, i)' PROVE Slack(i)' >= 0
    BY DEF Roomy, Apart
  <2>1. i = 0 \/ Live(srv, i) BY <1>2, <1>3 DEF Live
  <2> QED BY <1>0, <1>1, <1>9, <1>10, <2>1 DEF Roomy
<1>14. (Unopened /\ Opening /\ Ending)'
  <2>1. \A i \in StreamIds : srv.stream[i] = "idle" =>
          /\ srv'.stream[i] = "idle" /\ held'[i] = held[i]
          /\ Updates(srv'.ob, i) = Updates(srv.ob, i) /\ Updates(toPeer', i) = Updates(toPeer, i)
    <3> TAKE i \in StreamIds
    <3> HAVE srv.stream[i] = "idle"
    <3>1. srv'.stream[i] = "idle" BY <1>2, <1>3
    <3>2. held'[i] = held[i]
      <4>1. i = id => k = 0 BY DEF ReadPart, Live
      <4> QED BY <1>0, <1>4, <4>1, TypesFacts
    <3>3. Updates(t.ob, i) = Updates(srv.ob, i)
      <4>1. CASE i = id BY <4>1 DEF ReadPart
      <4>2. CASE i # id BY <4>2, IdsAre DEF ReadPart, Same
      <4> QED BY <4>1, <4>2
    <3> QED BY <1>2, <3>1, <3>2, <3>3
  <2>2. \A i \in srv'.shutRd :
          i \in srv.shutRd \/ (iframe # NoFrame /\ iframe.end /\ iframe.id = i /\ iframe' = NoFrame)
    BY <1>2, <1>3
  <2> QED BY <1>0, <2>1, <2>2, OrderKept
<1>15. Touched'
  <2>1. \A i \in t.overrun : i # 0 => t.stream[i] \in {"closing", "closed"}
    <3> SUFFICES ASSUME NEW i \in t.overrun, i # 0 PROVE t.stream[i] \in {"closing", "closed"} OBVIOUS
    <3>1. i \in StreamIds BY <1>1, SrvFields, IdsAre
    <3>2. CASE i \in srv.overrun BY <1>0, <1>3, <3>1, <3>2 DEF Touched
    <3>3. CASE i \notin srv.overrun
      <4>1. i = id BY <3>1, <3>3, IdsAre DEF ReadPart, Same
      <4>2. Live(srv, id) /\ t.stream[id] # "opened" BY <3>3, <4>1 DEF ReadPart
      <4> QED BY <1>3, <3>1, <4>1, <4>2 DEF Live
    <3> QED BY <3>2, <3>3
  <2>2. 0 \in t.overrun => IsClosing(t) BY <1>0, <1>3 DEF Touched, ReadPart
  <2>3. t.overrun \cap srv'.shutRd = {}
    <3> SUFFICES ASSUME NEW i \in t.overrun, i \in srv'.shutRd PROVE FALSE OBVIOUS
    <3>1. i \in StreamIds /\ i # 0 BY <1>2, SrvFields, IdsAre
    <3>2. t.stream[i] \in {"closing", "closed"} BY <2>1, <3>1
    <3>3. CASE i \in srv.shutRd
      <4>1. i # id BY <1>0, <3>3 DEF Ending
      <4>2. i \in srv.overrun BY <3>1, <4>1, IdsAre DEF ReadPart, Same
      <4> QED BY <1>0, <3>3, <4>2 DEF Touched
    <3>4. CASE i \notin srv.shutRd BY <1>2, <1>3, <3>2, <3>4
    <3> QED BY <3>3, <3>4
  <2>4. ResetKnown(srv)' BY <1>0, <1>2, <1>3 DEF Touched, ResetKnown
  <2> QED BY <1>2, <1>3, <2>1, <2>2, <2>3, <2>4 DEF Touched
<1>16. Ignored' BY <1>2, <1>3 DEF Ignored
<1>17. HeldRight'
  <2> SUFFICES ASSUME ~use.auto, use.increments = {}, use.sizes = {}, ~IsClosing(t)
               PROVE  /\ Kept(t, 0) = HeldBytes'
                      /\ \A s \in StreamIds : Counted(s)' => Kept(t, s) = held'[s]
    BY <1>1, <1>3, <1>7, IdsAre DEF HeldRight, Counted
  <2>1. Kept(srv, 0) = HeldBytes /\ \A s \in StreamIds : Counted(s) => Kept(srv, s) = held[s]
    BY <1>0, <1>3 DEF HeldRight
  <2>2. HeldBytes' = HeldBytes + k
    <3>1. CASE k = 0
      <4>1. HeldBytes \in Int BY <1>0, <1>1, <2>1, SlackType
      <4> QED BY <3>1, <4>1 DEF HeldBytes
    <3>2. CASE k # 0
      <4>1. held' = [held EXCEPT ![id] = held[id] + k] BY <3>2
      <4>2. held \in [StreamIds -> Int] /\ IsFiniteSet(StreamIds) /\ held[id] + k \in Int /\ held[id] \in Int
        BY <1>0, <1>1, TypesFacts, SizesAssumption
      <4>5. held' \in [StreamIds -> Int] /\ held'[id] = held[id] + k /\ \A s \in StreamIds \ {id} : held'[s] = held[s]
        BY <1>1, <4>1, <4>2
      <4>3. HeldBytes \in Int /\ HeldBytes' = HeldBytes - held[id] + held'[id] BY <1>0, <1>1, <4>5, HeldChange
      <4> QED BY <4>2, <4>3, <4>5
    <3> QED BY <3>1, <3>2
  <2>3. Kept(t, 0) = HeldBytes' BY <2>1, <2>2 DEF ReadPart
  <2>4. \A s \in StreamIds : Counted(s)' => Kept(t, s) = held'[s]
    <3> TAKE s \in StreamIds
    <3> HAVE Counted(s)'
    <3>1. Counted(s) /\ t.stream[s] = "opened" /\ s # 0 /\ s \in Ids BY <1>11, IdsAre
    <3>2. CASE s = id BY <1>4, <2>1, <3>1, <3>2 DEF ReadPart
    <3>3. CASE s # id BY <1>4, <1>8, <2>1, <3>1, <3>3
    <3> QED BY <3>2, <3>3
  <2> QED BY <2>3, <2>4
<1>18. Within' BY <1>0, <1>2, <1>3 DEF Within, Fitting
<1>19. AckLedger' /\ \A i : InitialAt(i)' = InitialAt(i)
  <2>1. srv'.initial = srv.initial /\ srv'.inflight = srv.inflight /\ srv'.urgent = srv.urgent BY <1>2, <1>3
  <2> QED BY <1>0, <2>1, AcksKept
<1>20. Afforded'
  <2>1. srv'.initial = srv.initial BY <1>2, <1>3
  <2> QED BY <1>0, <1>19, <2>1, AffordedKept
<1>21. LocalInitial'
  <2>1. \A i \in StreamIds : srv'.stream[i] # "idle" => srv.stream[i] # "idle" BY <1>2, <1>3
  <2>2. \A i \in StreamIds : srv'.win[i].local = srv.win[i].local BY <1>2, <1>3, IdsAre
  <2>3. srv'.initial = srv.initial BY <1>2, <1>3
  <2> QED BY <1>0, <2>1, <2>2, <2>3 DEF LocalInitial
<1>22. NoneAccused'
  <2> SUFFICES ASSUME use.honest, Apart PROVE t.overrun = {}
    BY <1>2 DEF NoneAccused, Apart
  <2>1. srv.overrun = {} BY <1>0 DEF NoneAccused
  <2>2. /\ Claim(srv, 0) >= iframe.left
        /\ Live(srv, id) => Claim(srv, id) >= iframe.left
    BY <1>0, Enough
  <2>3. Claim(srv, 0) \in Int /\ Claim(srv, id) \in Int BY <1>0, <1>1, SlackType
  <2>4. 0 \notin t.overrun BY <1>1, <2>1, <2>2, <2>3 DEF ReadPart
  <2>5. id \notin t.overrun BY <1>1, <2>1, <2>2, <2>3 DEF ReadPart
  <2>6. \A i \in t.overrun : i \in Ids BY <1>1, SrvFields
  <2>7. \A i \in Ids : i \notin {0, id} => i \notin t.overrun BY <2>1 DEF ReadPart, Same
  <2> QED BY <2>4, <2>5, <2>6, <2>7
<1> QED BY <1>5, <1>6, <1>12, <1>13, <1>14, <1>15, <1>16, <1>17, <1>18, <1>19, <1>20, <1>21, <1>22 DEF LedgerInv

\* Reading nothing.
LEMMA ReadNone ==
  ASSUME Types, InRange(srv), NEW id \in StreamIds PROVE ReadPart(srv, srv, id, 0, 0)
<1>1. srv \in Srv /\ id \in Ids /\ 0 \in Ids BY TypesFacts, IdsAre
<1>2. \A i \in Ids : Claim(srv, i) \in Int /\ Kept(srv, i) \in Int BY SlackType
<1> QED BY <1>1, <1>2, OnwardSame DEF ReadPart, Same

\* A piece of DATA, counted on the connection and on its stream.
LEMMA ReadBoth ==
  ASSUME Types, InRange(srv), NEW id \in StreamIds, Live(srv, id), NEW n \in Nat, NEW more
  PROVE  ReadPart(srv, RecvOnStream(RecvOnConnection(srv, n), id, n, more), id, n, n)
<1> DEFINE r == RecvOnConnection(srv, n)
           t == RecvOnStream(r, id, n, more)
<1>1. srv \in Srv /\ id \in Ids /\ 0 \in Ids /\ id # 0 BY TypesFacts, IdsAre
<1>2. /\ Onward(srv, r) /\ r \in Srv /\ r.stream = srv.stream
      /\ (\A i \in Ids : i # 0 => Same(srv, r, i)) /\ Took(srv, r, 0, n)
  BY <1>1, RecvOnConnectionIs
<1>3. r.stream[id] # "idle" /\ Live(r, id) BY <1>2 DEF Live
<1> HIDE DEF r
<1>4. /\ Onward(r, t) /\ t \in Srv /\ t.goaway = r.goaway /\ (Live(t, id) <=> Live(r, id))
      /\ (\A i \in Ids : i # id => Same(r, t, i)) /\ Took(r, t, id, n)
  BY <1>2, <1>3, RecvOnStreamIs
<1> HIDE DEF t
<1>5. InRange(r) BY <1>2 DEF Onward
<1>6. Same(r, t, 0) /\ Same(srv, r, id) BY <1>1, <1>2, <1>4
<1>7. /\ Claim(t, 0) = Claim(r, 0) /\ Kept(t, 0) = Kept(r, 0)
      /\ Claim(r, id) = Claim(srv, id) /\ Kept(r, id) = Kept(srv, id) /\ r.win[id] = srv.win[id]
  BY <1>6 DEF Same, Claim, Kept
<1>8. Onward(srv, t) BY <1>2, <1>4, OnwardTwice
<1>9. \A i \in Ids : i \notin {0, id} => Same(srv, t, i) BY <1>2, <1>4 DEF Same
<1>10. IsClosing(t) <=> IsClosing(r) BY <1>4 DEF IsClosing
<1>11. Claim(t, 0) = Claim(srv, 0) - n \/ (Claim(t, 0) = Claim(srv, 0) /\ IsClosing(t))
  BY <1>2, <1>7, <1>10 DEF Took
<1>12. Claim(t, id) = Claim(srv, id) - n \/ (Claim(t, id) = Claim(srv, id) /\ t.stream[id] # "opened")
  BY <1>1, <1>4, <1>7 DEF Took
<1>13. srv.overrun \subseteq r.overrun /\ r.overrun \subseteq t.overrun BY <1>2, <1>4 DEF Took
<1>14. 0 \in t.overrun => 0 \in srv.overrun \/ (Claim(srv, 0) < n /\ IsClosing(t))
  <2>1. 0 \in t.overrun => 0 \in r.overrun BY <1>6 DEF Same
  <2>2. Overruns(srv.win[0], n) => Claim(srv, 0) < n BY <1>1, OverrunsClaim
  <2> QED BY <1>2, <1>10, <2>1, <2>2 DEF Took
<1>15. id \in t.overrun => id \in srv.overrun \/ (Claim(srv, id) < n /\ Live(srv, id) /\ t.stream[id] # "opened")
  <2>1. id \in r.overrun => id \in srv.overrun BY <1>6 DEF Same
  <2>2. Overruns(r.win[id], n) => Claim(r, id) < n BY <1>1, <1>2, <1>5, OverrunsClaim
  <2> QED BY <1>1, <1>4, <1>7, <2>1, <2>2 DEF Took
<1>16. ASSUME ~use.auto, ~IsClosing(t)
       PROVE  Kept(t, 0) = Kept(srv, 0) + n /\ (t.stream[id] = "opened" => Kept(t, id) = Kept(srv, id) + n)
  BY <1>1, <1>2, <1>4, <1>7, <1>10, <1>16 DEF Took
<1>17. srv.stream[id] # "idle" BY DEF Live
<1>18. ReadPart(srv, t, id, n, n)
  BY <1>8, <1>9, <1>11, <1>12, <1>13, <1>14, <1>15, <1>16, <1>17 DEF ReadPart
<1> QED BY <1>18 DEF t, r

\* What was read is consumed at once, in part.
LEMMA ReadConsumed ==
  ASSUME NEW s \in Srv, NEW r, NEW id \in StreamIds, NEW n \in Nat, NEW k \in Nat, NEW m \in 0..k,
         Live(s, id), Kept(s, 0) \in Int, Kept(s, id) \in Int, ReadPart(s, r, id, n, k)
  PROVE  ReadPart(s, Consume(r, id, m), id, n, k - m)
<1> DEFINE t == Consume(r, id, m)
<1>1. id \in Ids /\ 0 \in Ids /\ id # 0 /\ r \in Srv /\ Onward(s, r) BY IdsAre DEF ReadPart, Onward
<1>2. /\ Onward(r, t) /\ t \in Srv /\ t.stream = r.stream /\ t.overrun = r.overrun
      /\ \A i \in Ids : i \notin {0, id} => Same(r, t, i)
      /\ \A i \in Ids : Claim(t, i) = Claim(r, i)
      /\ ~use.auto => IsClosing(t) \/ (/\ Kept(t, 0) = Kept(r, 0) - m
                                       /\ Live(r, id) => Kept(t, id) = Kept(r, id) - m)
  BY <1>1, ConsumeIs
<1> HIDE DEF t
<1>3. Onward(s, t) BY <1>1, <1>2, OnwardTwice
<1>4. \A i \in Ids : i \notin {0, id} => Same(s, t, i) BY <1>2 DEF Same, ReadPart
<1>5. IsClosing(r) => IsClosing(t) BY <1>2 DEF Onward, IsClosing
<1>6. Claim(t, 0) = Claim(r, 0) /\ Claim(t, id) = Claim(r, id) BY <1>1, <1>2
<1>7. ASSUME ~use.auto, ~IsClosing(t)
      PROVE  Kept(t, 0) = Kept(s, 0) + (k - m) /\ (t.stream[id] = "opened" => Kept(t, id) = Kept(s, id) + (k - m))
  <2>1. Kept(r, 0) = Kept(s, 0) + k /\ (r.stream[id] = "opened" => Kept(r, id) = Kept(s, id) + k)
    BY <1>5, <1>7 DEF ReadPart
  <2>2. Kept(t, 0) = Kept(r, 0) - m /\ (Live(r, id) => Kept(t, id) = Kept(r, id) - m) BY <1>2, <1>7
  <2>3. t.stream[id] = "opened" => Live(r, id) /\ r.stream[id] = "opened" BY <1>2 DEF Live
  <2> QED BY <2>1, <2>2, <2>3
<1>9. s.stream[id] # "idle" BY DEF Live
<1>10. /\ s.overrun \subseteq t.overrun
       /\ 0 \in t.overrun => 0 \in s.overrun \/ (Claim(s, 0) < n /\ IsClosing(t))
       /\ id \in t.overrun => id \in s.overrun \/ (Claim(s, id) < n /\ Live(s, id) /\ t.stream[id] # "opened")
  BY <1>2, <1>5 DEF ReadPart
<1>11. /\ Claim(t, 0) = Claim(s, 0) - n \/ (Claim(t, 0) = Claim(s, 0) /\ IsClosing(t))
       /\ \/ Claim(t, id) = Claim(s, id) - n
          \/ Claim(t, id) = Claim(s, id) /\ (IsClosing(t) \/ t.stream[id] # "opened")
  BY <1>2, <1>5, <1>6 DEF ReadPart
<1>12. ReadPart(s, t, id, n, k - m)
  BY <1>3, <1>4, <1>7, <1>9, <1>10, <1>11 DEF ReadPart
<1> QED BY <1>12 DEF t

LEMMA RecvDataKeeps == ASSUME LedgerInv, NEW n \in 0..iframe.left, RecvData(n) PROVE LedgerInv'
<1> DEFINE id == iframe.id
           left == iframe.left - n
           more == MoreToCome(left)
           s == RecvOnStream(RecvOnConnection(srv, n), id, n, more)
           data == EffectiveReadLen(n, left)
           t == IF n = 0 THEN srv ELSE IF data < n THEN Consume(s, id, n - data) ELSE s
<1>0. Types /\ InRange(srv) /\ iframe # NoFrame /\ iframe.state = "READ_DATA" BY DEF LedgerInv, RecvData
<1>1. /\ srv \in Srv /\ iframe \in Reader /\ id \in StreamIds /\ iframe.left \in Nat /\ n \in Nat /\ left \in Nat
      /\ iframe.pad \in Nat /\ iframe.end \in BOOLEAN
  BY <1>0, TypesFacts DEF Reader
<1>2. UNCHANGED <<use, fromPeer, toPeer, peer, frames, calls>> BY DEF RecvData
<1>3. CASE ~Live(srv, id)
  <2>1. iframe' = [iframe EXCEPT !.state = "IGN_DATA"] /\ UNCHANGED <<srv, held>> BY <1>3 DEF RecvData
  <2>2. /\ iframe' \in Reader /\ iframe'.id = id /\ iframe'.end = iframe.end /\ iframe'.left = iframe.left - 0
        /\ iframe'.state = "IGN_DATA" /\ iframe' # NoFrame
    BY <1>1, <2>1 DEF Reader, NoFrame
  <2>3. ReadPart(srv, srv, id, 0, 0) BY <1>0, <1>1, ReadNone
  <2>4. 0 \in 0..iframe.left /\ srv.stream[id] # "opened" BY <1>1, <1>3 DEF Live
  <2> HIDE DEF id
  <2> QED BY <1>0, <1>2, <2>1, <2>2, <2>3, <2>4, ReadKeeps DEF id
<1>4. CASE Live(srv, id)
  <2>1. data \in 0..n /\ (n = 0 => data = 0) BY <1>1 DEF EffectiveReadLen, Greatest
  <2>2. \/ /\ srv' = IF left = 0 THEN EndData(t) ELSE t
           /\ held' = IF use.auto THEN held ELSE [held EXCEPT ![id] = @ + data]
           /\ iframe' = IF left = 0 THEN NoFrame ELSE [iframe EXCEPT !.left = left]
        \/ /\ data > 0
           /\ srv' = AddRst(ConsumeConnection(t, data), id)
           /\ iframe' = [iframe EXCEPT !.left = left, !.state = "IGN_DATA"]
           /\ UNCHANGED held
    BY <1>4 DEF RecvData
  <2> HIDE DEF data
  <2>3. ReadPart(srv, t, id, n, data)
    <3>1. CASE n = 0 BY <1>0, <1>1, <2>1, <3>1, ReadNone
    <3>2. CASE n # 0
      <4>1. ReadPart(srv, s, id, n, n) BY <1>0, <1>1, <1>4, ReadBoth
      <4>2. Kept(srv, 0) \in Int /\ Kept(srv, id) \in Int BY <1>0, <1>1, IdsAre, SlackType
      <4> DEFINE m == n - data
      <4>3. m \in 0..n /\ n - m = data /\ data <= n BY <1>1, <2>1
      <4>4. t = IF data < n THEN Consume(s, id, m) ELSE s BY <3>2
      <4> HIDE DEF m, s, id, t
      <4>5. ReadPart(srv, Consume(s, id, m), id, n, n - m) BY <1>1, <1>4, <4>1, <4>2, <4>3, ReadConsumed
      <4> QED BY <4>1, <4>3, <4>4, <4>5, <1>1, <2>1
    <3> QED BY <3>1, <3>2
  <2> HIDE DEF t
  <2>4. CASE /\ srv' = IF left = 0 THEN EndData(t) ELSE t
             /\ held' = IF use.auto THEN held ELSE [held EXCEPT ![id] = @ + data]
             /\ iframe' = IF left = 0 THEN NoFrame ELSE [iframe EXCEPT !.left = left]
    <3>1. held' = IF use.auto \/ data = 0 THEN held ELSE [held EXCEPT ![id] = @ + data]
      <4>1. held \in [StreamIds -> Nat] BY <1>0, TypesFacts
      <4>2. CASE use.auto \/ data # 0 BY <2>4, <4>2
      <4>3. CASE ~use.auto /\ data = 0
        <5>1. held' = [held EXCEPT ![id] = held[id] + 0] BY <2>4, <4>3
        <5>2. held[id] + 0 = held[id] BY <1>1, <4>1
        <5>3. [held EXCEPT ![id] = held[id]] = held BY <1>1, <4>1
        <5> QED BY <4>3, <5>1, <5>2, <5>3
      <4> QED BY <4>2, <4>3
    <3>2. CASE left = 0
      <4>1. iframe' = NoFrame /\ n = iframe.left /\ srv' = EndData(t) BY <1>1, <2>4, <3>2
      <4>2. data \in Nat BY <1>1, <2>1
      <4> HIDE DEF id
      <4> QED BY <1>0, <1>2, <2>3, <3>1, <4>1, <4>2, ReadKeeps DEF id
    <3>3. CASE left # 0
      <4>1. srv' = t /\ iframe' = [iframe EXCEPT !.left = left] BY <2>4, <3>3
      <4>2. /\ iframe' \in Reader /\ iframe'.id = id /\ iframe'.end = iframe.end /\ iframe'.left = iframe.left - n
            /\ iframe'.state = "READ_DATA" /\ iframe' # NoFrame
        BY <1>0, <1>1, <4>1 DEF Reader, NoFrame
      <4>3. data \in Nat BY <1>1, <2>1
      <4> HIDE DEF id
      <4> QED BY <1>0, <1>2, <2>3, <3>1, <4>1, <4>2, <4>3, ReadKeeps DEF id
    <3> QED BY <3>2, <3>3
  <2>5. CASE /\ data > 0
             /\ srv' = AddRst(ConsumeConnection(t, data), id)
             /\ iframe' = [iframe EXCEPT !.left = left, !.state = "IGN_DATA"]
             /\ UNCHANGED held
    <3> DEFINE c == ConsumeConnection(t, data)
               u == AddRst(c, id)
    <3>0. data \in Nat /\ id \in Ids /\ 0 \in Ids /\ id # 0 BY <1>1, <2>1, IdsAre
    <3>1. t \in Srv /\ Onward(srv, t) BY <2>3 DEF ReadPart, Onward
    <3>2. /\ Moves(t, c, 0) /\ c \in Srv /\ Claim(c, 0) = Claim(t, 0)
          /\ ~use.auto => IsClosing(c) \/ Kept(c, 0) = Kept(t, 0) - data
      BY <3>0, <3>1, ConsumeConnectionIs
    <3> HIDE DEF c
    <3>3. c.stream = t.stream /\ c.overrun = t.overrun /\ Same(t, c, id) /\ Onward(t, c) BY <3>0, <3>2 DEF Moves
    <3>4. c.stream[id] # "idle" BY <1>1, <1>4, <3>1, <3>3 DEF Live, Onward
    <3>5. /\ Onward(c, u) /\ u.stream[id] # "opened" /\ (\A i \in Ids : i # id => Same(c, u, i))
          /\ u.win = c.win /\ Updates(u.ob, id) = Updates(c.ob, id)
          /\ u.overrun = c.overrun /\ u.goaway = c.goaway
      BY <1>1, <3>2, <3>4, AddRstIs
    <3> HIDE DEF u
    <3>6. Onward(srv, u)
      <4>1. Onward(srv, c) BY <3>1, <3>3, OnwardTwice
      <4> QED BY <3>5, <4>1, OnwardTwice
    <3>7. IsClosing(u) = IsClosing(c) /\ (IsClosing(t) => IsClosing(c)) BY <3>3, <3>5 DEF IsClosing, Onward
    <3>8. \A i \in Ids : i \notin {0, id} => Same(srv, u, i)
      <4>1. \A i \in Ids : i \notin {0, id} => Same(srv, t, i) BY <2>3 DEF ReadPart
      <4>2. \A i \in Ids : i # 0 => Same(t, c, i) BY <3>2 DEF Moves
      <4> QED BY <3>5, <4>1, <4>2 DEF Same
    <3>9. /\ Claim(u, 0) = Claim(t, 0) /\ Claim(u, id) = Claim(t, id)
      <4>1. Claim(u, 0) = Claim(c, 0) BY <3>0, <3>5 DEF Same, Claim
      <4>2. Claim(u, id) = Claim(c, id) BY <3>5 DEF Claim
      <4>3. Claim(c, id) = Claim(t, id) BY <3>3 DEF Same, Claim
      <4> QED BY <3>2, <4>1, <4>2, <4>3
    <3>10. ASSUME ~use.auto, ~IsClosing(u) PROVE Kept(u, 0) = Kept(srv, 0) + 0
      <4>1. Kept(t, 0) = Kept(srv, 0) + data BY <2>3, <3>7, <3>10 DEF ReadPart
      <4>2. Kept(c, 0) = Kept(t, 0) - data BY <3>2, <3>7, <3>10
      <4>3. Kept(u, 0) = Kept(c, 0) BY <3>5 DEF Kept
      <4>4. Kept(srv, 0) \in Int BY <1>0, <3>0, SlackType
      <4> QED BY <3>0, <4>1, <4>2, <4>3, <4>4
    <3>11. u.overrun = t.overrun BY <3>3, <3>5
    <3>12. srv.stream[id] # "idle" BY <1>4 DEF Live
    <3>13. /\ Claim(u, 0) = Claim(srv, 0) - n \/ (Claim(u, 0) = Claim(srv, 0) /\ IsClosing(u))
           /\ \/ Claim(u, id) = Claim(srv, id) - n
              \/ Claim(u, id) = Claim(srv, id) /\ (IsClosing(u) \/ u.stream[id] # "opened")
           /\ srv.overrun \subseteq u.overrun
           /\ 0 \in u.overrun => 0 \in srv.overrun \/ (Claim(srv, 0) < n /\ IsClosing(u))
           /\ id \in u.overrun => id \in srv.overrun \/ (Claim(srv, id) < n /\ Live(srv, id) /\ u.stream[id] # "opened")
      BY <2>3, <3>5, <3>7, <3>9, <3>11 DEF ReadPart
    <3>14. ReadPart(srv, u, id, n, 0) BY <3>5, <3>6, <3>8, <3>10, <3>12, <3>13 DEF ReadPart
    <3>15. /\ iframe' \in Reader /\ iframe'.id = id /\ iframe'.end = iframe.end /\ iframe'.left = iframe.left - n
           /\ iframe'.state = "IGN_DATA" /\ iframe' # NoFrame
      BY <1>0, <1>1, <2>5 DEF Reader, NoFrame
    <3>16. srv' = u /\ held' = held BY <2>5 DEF u, c
    <3> HIDE DEF id
    <3> QED BY <1>0, <1>2, <3>5, <3>14, <3>15, <3>16, ReadKeeps DEF id
  <2> QED BY <2>2, <2>4, <2>5
<1> QED BY <1>3, <1>4

\* The Pad Length byte is consumed, before it is counted on the stream.
LEMMA ReadPad ==
  ASSUME Types, InRange(srv), NEW id \in StreamIds, NEW more, NEW counted, NEW s,
         counted = Consume(RecvOnConnection(srv, 1), id, 1),
         s = IF Live(counted, id) THEN RecvOnStream(counted, id, 1, more) ELSE counted
  PROVE  ReadPart(srv, s, id, 1, 0)
<1> DEFINE r == RecvOnConnection(srv, 1)
<1>1. srv \in Srv /\ id \in Ids /\ 0 \in Ids /\ id # 0 /\ 1 \in Nat BY TypesFacts, IdsAre
<1>2. /\ Onward(srv, r) /\ r \in Srv /\ r.stream = srv.stream
      /\ (\A i \in Ids : i # 0 => Same(srv, r, i)) /\ Took(srv, r, 0, 1)
  BY <1>1, RecvOnConnectionIs
<1>3. counted = Consume(r, id, 1) OBVIOUS
<1> HIDE DEF r
<1>4. /\ Onward(r, counted) /\ counted \in Srv /\ counted.stream = r.stream /\ counted.overrun = r.overrun
      /\ \A i \in Ids : i \notin {0, id} => Same(r, counted, i)
      /\ \A i \in Ids : Claim(counted, i) = Claim(r, i)
      /\ ~Live(r, id) => Same(r, counted, id)
      /\ ~use.auto => IsClosing(counted) \/ (/\ Kept(counted, 0) = Kept(r, 0) - 1
                                             /\ Live(r, id) => Kept(counted, id) = Kept(r, id) - 1)
  BY <1>1, <1>2, <1>3, ConsumeIs
<1>5. Onward(srv, counted) BY <1>2, <1>4, OnwardTwice
<1>6. \A i \in Ids : i \notin {0, id} => Same(srv, counted, i) BY <1>2, <1>4 DEF Same
<1>7. (Live(counted, id) <=> Live(srv, id)) /\ (Live(r, id) <=> Live(srv, id)) BY <1>2, <1>4 DEF Live
<1>8. Claim(counted, id) = Claim(srv, id) /\ Claim(counted, 0) = Claim(r, 0) /\ Kept(r, id) = Kept(srv, id)
  BY <1>1, <1>2, <1>4 DEF Same, Claim, Kept
<1>9. /\ Claim(srv, 0) \in Int /\ Claim(srv, id) \in Int /\ Kept(srv, 0) \in Int /\ Kept(srv, id) \in Int
  BY <1>1, SlackType
<1>10. Claim(counted, 0) = Claim(srv, 0) - 1 \/ (Claim(counted, 0) = Claim(srv, 0) /\ IsClosing(counted))
  <2>1. IsClosing(r) => IsClosing(counted) BY <1>4 DEF Onward, IsClosing
  <2> QED BY <1>2, <1>8, <2>1 DEF Took
<1>11. /\ srv.overrun \subseteq counted.overrun /\ (id \in counted.overrun => id \in srv.overrun)
       /\ 0 \in counted.overrun => 0 \in srv.overrun \/ (Claim(srv, 0) < 1 /\ IsClosing(counted))
  <2>1. IsClosing(r) => IsClosing(counted) BY <1>4 DEF Onward, IsClosing
  <2>2. Overruns(srv.win[0], 1) => Claim(srv, 0) < 1 BY <1>1, OverrunsClaim
  <2>3. id \in r.overrun => id \in srv.overrun BY <1>1, <1>2 DEF Same
  <2> QED BY <1>2, <1>4, <2>1, <2>2, <2>3 DEF Took
<1>12. ASSUME ~use.auto, ~IsClosing(counted)
       PROVE  Kept(counted, 0) = Kept(srv, 0) /\ (Live(srv, id) => Kept(counted, id) = Kept(srv, id) - 1)
  <2>1. ~IsClosing(r) BY <1>4, <1>12 DEF Onward, IsClosing
  <2>2. Kept(r, 0) = Kept(srv, 0) + 1 BY <1>2, <1>12, <2>1 DEF Took
  <2> QED BY <1>4, <1>7, <1>8, <1>9, <1>12, <2>2
<1>13. CASE ~Live(srv, id)
  <2>1. s = counted BY <1>7, <1>13
  <2>2. counted.stream[id] = srv.stream[id] /\ counted.stream[id] # "opened" BY <1>2, <1>4, <1>13 DEF Live
  <2>3. srv.stream[id] = "idle" => Updates(counted.ob, id) = Updates(srv.ob, id)
    BY <1>1, <1>2, <1>4, <1>7, <1>13 DEF Same
  <2>4. ~use.auto /\ ~IsClosing(counted) => Kept(counted, 0) = Kept(srv, 0) + 0 BY <1>9, <1>12
  <2> QED BY <1>5, <1>6, <1>8, <1>10, <1>11, <2>1, <2>2, <2>3, <2>4 DEF ReadPart
<1>14. CASE Live(srv, id)
  <2>1. s = RecvOnStream(counted, id, 1, more) /\ counted.stream[id] # "idle" BY <1>7, <1>14 DEF Live
  <2>2. /\ Onward(counted, s) /\ s \in Srv /\ s.goaway = counted.goaway
        /\ (\A i \in Ids : i # id => Same(counted, s, i)) /\ Took(counted, s, id, 1)
    BY <1>1, <1>4, <2>1, RecvOnStreamIs
  <2>3. Onward(srv, s) BY <1>5, <2>2, OnwardTwice
  <2>4. \A i \in Ids : i \notin {0, id} => Same(srv, s, i) BY <1>6, <2>2 DEF Same
  <2>5. /\ Same(counted, s, 0) /\ (IsClosing(s) <=> IsClosing(counted))
        /\ Claim(s, 0) = Claim(counted, 0) /\ Kept(s, 0) = Kept(counted, 0)
    BY <1>1, <2>2 DEF Same, Claim, Kept, IsClosing
  <2>6. Claim(s, id) = Claim(srv, id) - 1 \/ (Claim(s, id) = Claim(srv, id) /\ s.stream[id] # "opened")
    BY <1>1, <1>8, <2>2 DEF Took
  <2>7. InRange(counted) BY <1>5 DEF Onward
  <2>8. Overruns(counted.win[id], 1) => Claim(counted, id) < 1 BY <1>1, <1>4, <2>7, OverrunsClaim
  <2>9. /\ srv.overrun \subseteq s.overrun
        /\ 0 \in s.overrun => 0 \in srv.overrun \/ (Claim(srv, 0) < 1 /\ IsClosing(s))
        /\ id \in s.overrun => id \in srv.overrun \/ (Claim(srv, id) < 1 /\ Live(srv, id) /\ s.stream[id] # "opened")
    <3>1. counted.overrun \subseteq s.overrun BY <2>2 DEF Took
    <3>2. 0 \in s.overrun => 0 \in counted.overrun BY <2>5 DEF Same
    <3>3. id \in s.overrun => id \in counted.overrun \/ (Claim(counted, id) < 1 /\ s.stream[id] # "opened")
      BY <1>1, <2>2, <2>8 DEF Took
    <3> QED BY <1>8, <1>11, <1>14, <2>5, <3>1, <3>2, <3>3
  <2>10. ASSUME ~use.auto, ~IsClosing(s)
         PROVE  Kept(s, 0) = Kept(srv, 0) + 0 /\ (s.stream[id] = "opened" => Kept(s, id) = Kept(srv, id) + 0)
    <3>1. Kept(counted, 0) = Kept(srv, 0) /\ Kept(counted, id) = Kept(srv, id) - 1
      BY <1>12, <1>14, <2>5, <2>10
    <3>2. s.stream[id] = "opened" => Kept(s, id) = Kept(counted, id) + 1 BY <1>1, <2>2, <2>10 DEF Took
    <3> QED BY <1>9, <2>5, <3>1, <3>2
  <2>11. srv.stream[id] # "idle" BY <1>14 DEF Live
  <2>12. Claim(s, 0) = Claim(srv, 0) - 1 \/ (Claim(s, 0) = Claim(srv, 0) /\ IsClosing(s)) BY <1>10, <2>5
  <2> QED BY <2>3, <2>4, <2>6, <2>9, <2>10, <2>11, <2>12 DEF ReadPart
<1> QED BY <1>13, <1>14

\* The session ends where the padding is longer than the frame.
LEMMA ReadTerminated ==
  ASSUME NEW s, NEW r, NEW id \in StreamIds, NEW n, NEW k, ReadPart(s, r, id, n, k)
  PROVE  ReadPart(s, Terminate(r), id, n, k) /\ IsClosing(Terminate(r))
<1> DEFINE t == Terminate(r)
<1>1. id \in Ids /\ 0 \in Ids /\ r \in Srv BY IdsAre DEF ReadPart, Onward
<1>2. /\ Onward(r, t) /\ IsClosing(t) /\ (\A i \in Ids : Same(r, t, i))
      /\ t.overrun = r.overrun /\ t.stream = r.stream
  BY <1>1, TerminateIs
<1> HIDE DEF t
<1>3. Onward(s, t) BY <1>2, OnwardTwice DEF ReadPart
<1>4. \A i \in Ids : i \notin {0, id} => Same(s, t, i) BY <1>2 DEF Same, ReadPart
<1>5. /\ Claim(t, 0) = Claim(r, 0) /\ Claim(t, id) = Claim(r, id) /\ Updates(t.ob, id) = Updates(r.ob, id)
  BY <1>1, <1>2 DEF Same, Claim
<1>6. ReadPart(s, t, id, n, k) BY <1>2, <1>3, <1>4, <1>5 DEF ReadPart
<1> QED BY <1>2, <1>6 DEF t

LEMMA RecvPadLengthKeeps == ASSUME LedgerInv, RecvPadLength PROVE LedgerInv'
<1> DEFINE id == iframe.id
           left == iframe.left - 1
           counted == Consume(RecvOnConnection(srv, 1), id, 1)
           s == IF Live(counted, id) THEN RecvOnStream(counted, id, 1, MoreToCome(left)) ELSE counted
           bad == iframe.padLength > left
           t == IF bad THEN Terminate(s) ELSE s
<1>0. Types /\ InRange(srv) /\ iframe # NoFrame /\ iframe.state = "READ_PAD_DATA" BY DEF LedgerInv, RecvPadLength
<1>1. /\ iframe \in Reader /\ id \in StreamIds /\ iframe.left \in Nat /\ iframe.left > 0 /\ iframe.padLength \in Nat
  BY <1>0, TypesFacts DEF Reader, Types
<1>2. UNCHANGED <<use, fromPeer, toPeer, peer, held, frames, calls>> BY DEF RecvPadLength
<1>3. /\ srv' = t
      /\ iframe' = [iframe EXCEPT !.left = left, !.pad = iframe.padLength,
                                  !.state = IF bad THEN "IGN_DATA" ELSE "READ_DATA"]
  BY DEF RecvPadLength
<1>4. ReadPart(srv, s, id, 1, 0) BY <1>0, <1>1, ReadPad
<1> HIDE DEF counted, s
<1>5. ReadPart(srv, t, id, 1, 0) /\ (bad => IsClosing(t)) BY <1>1, <1>4, ReadTerminated
<1> HIDE DEF t
<1>6. /\ iframe' \in Reader /\ iframe'.id = id /\ iframe'.end = iframe.end /\ iframe'.left = iframe.left - 1
      /\ iframe'.state = (IF bad THEN "IGN_DATA" ELSE "READ_DATA") /\ iframe' # NoFrame
  <2> DEFINE st == IF bad THEN "IGN_DATA" ELSE "READ_DATA"
  <2>1. st \in {"READ_DATA", "IGN_DATA"} /\ left \in Nat BY <1>1
  <2>2. iframe' = [iframe EXCEPT !.left = left, !.pad = iframe.padLength, !.state = st] BY <1>3
  <2> HIDE DEF st
  <2>3. /\ iframe' \in Reader /\ iframe'.id = id /\ iframe'.end = iframe.end /\ iframe'.left = left
        /\ iframe'.state = st
    BY <1>0, <1>1, <2>1, <2>2 DEF Reader
  <2>4. iframe' # NoFrame BY <2>1, <2>3 DEF NoFrame
  <2> QED BY <2>3, <2>4 DEF st
<1>7. 1 \in 0..iframe.left /\ 0 \in Nat BY <1>1
<1>8. iframe'.state # "READ_PAD_DATA" /\ (iframe'.state = "IGN_DATA" => IsClosing(t) \/ t.stream[id] # "opened")
  BY <1>5, <1>6
<1>9. held' = IF use.auto \/ 0 = 0 THEN held ELSE [held EXCEPT ![id] = @ + 0] BY <1>2
<1> HIDE DEF id, bad, left
<1> QED BY <1>0, <1>2, <1>3, <1>5, <1>6, <1>7, <1>8, <1>9, ReadKeeps DEF id

\* DATA that is ignored is counted on the connection, and consumed there.
LEMMA IgnoreDataKeeps == ASSUME LedgerInv, NEW n \in 0..iframe.left, IgnoreData(n) PROVE LedgerInv'
<1> DEFINE id == iframe.id
           r == RecvOnConnection(srv, n)
           c == ConsumeConnection(r, n)
           t == IF n = 0 THEN srv ELSE c
<1>0. Types /\ InRange(srv) /\ Ignored /\ iframe # NoFrame /\ iframe.state = "IGN_DATA" BY DEF LedgerInv, IgnoreData
<1>1. /\ srv \in Srv /\ iframe \in Reader /\ id \in StreamIds /\ iframe.left \in Nat /\ n \in Nat
      /\ id \in Ids /\ 0 \in Ids /\ id # 0
  BY <1>0, TypesFacts, IdsAre DEF Reader
<1>2. UNCHANGED <<use, fromPeer, toPeer, peer, held, frames, calls>> BY DEF IgnoreData
<1>3. srv' = t /\ iframe' = IF n = iframe.left THEN NoFrame ELSE [iframe EXCEPT !.left = @ - n] BY DEF IgnoreData
<1>4. IsClosing(srv) \/ srv.stream[id] # "opened" BY <1>0 DEF Ignored
<1>5. ReadPart(srv, t, id, n, 0) /\ (IsClosing(t) \/ t.stream[id] # "opened")
  <2>1. CASE n = 0 BY <1>0, <1>1, <1>4, <2>1, ReadNone
  <2>2. CASE n # 0
    <3>1. t = c BY <2>2
    <3>2. /\ Onward(srv, r) /\ r \in Srv /\ r.stream = srv.stream
          /\ (\A i \in Ids : i # 0 => Same(srv, r, i)) /\ Took(srv, r, 0, n)
      BY <1>1, RecvOnConnectionIs
    <3> HIDE DEF r
    <3>3. /\ Moves(r, c, 0) /\ c \in Srv /\ Claim(c, 0) = Claim(r, 0)
          /\ ~use.auto => IsClosing(c) \/ Kept(c, 0) = Kept(r, 0) - n
      BY <1>1, <3>2, ConsumeConnectionIs
    <3> HIDE DEF c, t
    <3>4. Onward(srv, c) BY <3>2, <3>3, OnwardTwice DEF Moves
    <3>5. /\ c.stream = srv.stream /\ c.overrun = r.overrun /\ (\A i \in Ids : i # 0 => Same(srv, c, i))
      BY <3>2, <3>3 DEF Moves, Same
    <3>6. IsClosing(r) => IsClosing(c) BY <3>3 DEF Moves, Onward, IsClosing
    <3>7. IsClosing(srv) => IsClosing(c) BY <3>4 DEF Onward, IsClosing
    <3>8. Same(srv, c, id) /\ Claim(c, id) = Claim(srv, id) /\ Kept(c, id) = Kept(srv, id)
      BY <1>1, <3>5 DEF Same, Claim, Kept
    <3>9. Claim(c, 0) = Claim(srv, 0) - n \/ (Claim(c, 0) = Claim(srv, 0) /\ IsClosing(c))
      BY <3>2, <3>3, <3>6 DEF Took
    <3>10. /\ srv.overrun \subseteq c.overrun /\ (id \in c.overrun => id \in srv.overrun)
           /\ 0 \in c.overrun => 0 \in srv.overrun \/ (Claim(srv, 0) < n /\ IsClosing(c))
      <4>1. Overruns(srv.win[0], n) => Claim(srv, 0) < n BY <1>0, <1>1, OverrunsClaim
      <4>2. id \in c.overrun => id \in srv.overrun BY <3>8 DEF Same
      <4> QED BY <3>2, <3>5, <3>6, <4>1, <4>2 DEF Took
    <3>11. ASSUME ~use.auto, ~IsClosing(c) PROVE Kept(c, 0) = Kept(srv, 0) + 0
      <4>1. Kept(r, 0) = Kept(srv, 0) + n BY <3>2, <3>6, <3>11 DEF Took
      <4>2. Kept(srv, 0) \in Int BY <1>0, <1>1, SlackType
      <4> QED BY <1>1, <3>3, <3>11, <4>1, <4>2
    <3>12. IsClosing(c) \/ c.stream[id] # "opened" BY <1>4, <3>5, <3>7
    <3>13. ~use.auto /\ ~IsClosing(c) => c.stream[id] # "opened" BY <3>12
    <3>14. srv.stream[id] = "idle" => Updates(c.ob, id) = Updates(srv.ob, id) BY <3>8 DEF Same
    <3>15. \A i \in Ids : i \notin {0, id} => Same(srv, c, i) BY <3>5
    <3>16. ReadPart(srv, c, id, n, 0)
      BY <3>4, <3>8, <3>9, <3>10, <3>11, <3>12, <3>13, <3>14, <3>15 DEF ReadPart
    <3> QED BY <3>1, <3>12, <3>16
  <2> QED BY <2>1, <2>2
<1> HIDE DEF t
<1>6. CASE n = iframe.left
  <2>1. iframe' = NoFrame BY <1>3, <1>6
  <2>2. held' = IF use.auto \/ 0 = 0 THEN held ELSE [held EXCEPT ![id] = @ + 0] /\ 0 \in Nat BY <1>2
  <2> HIDE DEF id
  <2> QED BY <1>0, <1>2, <1>3, <1>5, <1>6, <2>1, <2>2, ReadKeeps DEF id
<1>7. CASE n # iframe.left
  <2>1. iframe' = [iframe EXCEPT !.left = iframe.left - n] /\ iframe.left - n \in Nat BY <1>1, <1>3, <1>7
  <2>2. /\ iframe' \in Reader /\ iframe'.id = id /\ iframe'.end = iframe.end /\ iframe'.left = iframe.left - n
        /\ iframe'.state = "IGN_DATA" /\ iframe' # NoFrame
    BY <1>0, <1>1, <2>1 DEF Reader, NoFrame
  <2>3. held' = IF use.auto \/ 0 = 0 THEN held ELSE [held EXCEPT ![id] = @ + 0] /\ 0 \in Nat BY <1>2
  <2> HIDE DEF id
  <2> QED BY <1>0, <1>2, <1>3, <1>5, <2>2, <2>3, ReadKeeps DEF id
<1> QED BY <1>6, <1>7

-----------------------------------------------------------------------------
(* The server takes a frame from its wire.                                  *)

\* The frames that are left, each one place nearer
LEMMA TailIs ==
  ASSUME Types, fromPeer # <<>>, fromPeer' = Tail(fromPeer)
  PROVE  /\ Head(fromPeer) \in In /\ Head(fromPeer) = fromPeer[1] /\ 1 \in DOMAIN fromPeer
         /\ fromPeer' \in Seq(In) /\ Len(fromPeer) \in Nat \ {0} /\ Len(fromPeer') = Len(fromPeer) - 1
         /\ DOMAIN fromPeer = 1..Len(fromPeer) /\ DOMAIN fromPeer' = 1..Len(fromPeer) - 1
         /\ \A i \in 1..Len(fromPeer) - 1 : fromPeer'[i] = fromPeer[i + 1] /\ i + 1 \in DOMAIN fromPeer
         /\ \A i \in DOMAIN fromPeer : fromPeer[i] \in In
<1>1. fromPeer \in Seq(In) BY TypesFacts
<1>2. \A i \in DOMAIN fromPeer : fromPeer[i] \in In BY <1>1
<1>3. 1 \in DOMAIN fromPeer BY <1>1, HeadAndTail
<1>4. /\ Head(fromPeer) \in In /\ Head(fromPeer) = fromPeer[1] /\ fromPeer' \in Seq(In)
      /\ Len(fromPeer) \in Nat \ {0} /\ Len(fromPeer') = Len(fromPeer) - 1
      /\ DOMAIN fromPeer = 1..Len(fromPeer) /\ DOMAIN fromPeer' = 1..Len(fromPeer) - 1
      /\ \A i \in 1..Len(fromPeer) - 1 : fromPeer'[i] = fromPeer[i + 1] /\ i + 1 \in DOMAIN fromPeer
  BY <1>1, HeadAndTail
<1> QED BY <1>2, <1>3, <1>4

LEMMA OrderTail ==
  ASSUME Types, Unopened, Opening, Ending, fromPeer # <<>>, fromPeer' = Tail(fromPeer), UNCHANGED peer,
         iframe = NoFrame, srv'.shutRd = srv.shutRd,
         \A i \in StreamIds : srv.stream[i] = "idle" /\ (Head(fromPeer).type = "HEADERS" => Head(fromPeer).id # i) =>
           /\ srv'.stream[i] = "idle" /\ held'[i] = held[i]
           /\ Updates(srv'.ob, i) = Updates(srv.ob, i) /\ Updates(toPeer', i) = Updates(toPeer, i),
         \/ iframe' = NoFrame /\ Head(fromPeer).type # "DATA"
         \/ Head(fromPeer).type = "DATA" /\ iframe'.id = Head(fromPeer).id /\ iframe'.end = Head(fromPeer).end
  PROVE  (Unopened /\ Opening /\ Ending)'
<1> DEFINE f == Head(fromPeer)
           n == Len(fromPeer)
<1>1. /\ f \in In /\ f = fromPeer[1] /\ 1 \in DOMAIN fromPeer /\ n \in Nat \ {0}
      /\ DOMAIN fromPeer = 1..n /\ DOMAIN fromPeer' = 1..n - 1
      /\ \A i \in 1..n - 1 : fromPeer'[i] = fromPeer[i + 1] /\ i + 1 \in DOMAIN fromPeer /\ i + 1 # 1
      /\ \A i \in DOMAIN fromPeer : fromPeer[i] \in In
  BY TailIs
<1>2. iframe' # NoFrame => f.type = "DATA" /\ iframe'.id = f.id /\ iframe'.end = f.end OBVIOUS
<1>3. \A i \in StreamIds : Untouched(i) /\ ~AboutStream(f, i) => Untouched(i)'
  BY <1>1, <1>2, InFields DEF Untouched, AboutStream
<1> HIDE DEF f, n
<1>4. Unopened'
  <2> SUFFICES ASSUME NEW i \in StreamIds, i \notin peer.opened
               PROVE  Untouched(i)' /\ \A j \in DOMAIN fromPeer' : ~AboutStream(fromPeer'[j], i)
    BY DEF Unopened
  <2>1. Untouched(i) /\ \A j \in DOMAIN fromPeer : ~AboutStream(fromPeer[j], i) BY DEF Unopened
  <2> QED BY <1>1, <1>3, <2>1
<1>5. Opening'
  <2>0. ASSUME NEW i \in 1..n - 1, NEW id \in StreamIds, fromPeer'[i].type = "HEADERS", fromPeer'[i].id = id
        PROVE  /\ id \in peer.opened /\ Untouched(id)' /\ peer.credit[id] + Bytes(fromPeer', id) = peer.initial
               /\ \A j \in 1..n - 1 :
                    (AboutStream(fromPeer'[j], id) /\ i # j) => i < j /\ fromPeer'[j].type = "DATA"
    <3>1. /\ fromPeer'[i] = fromPeer[i + 1] /\ i + 1 \in DOMAIN fromPeer
          /\ id = fromPeer[i + 1].id /\ fromPeer[i + 1].type = "HEADERS"
      BY <1>1, <2>0
    <3>2. /\ id \in peer.opened /\ Untouched(id) /\ peer.credit[id] + Bytes(fromPeer, id) = peer.initial
          /\ \A j \in DOMAIN fromPeer :
               (AboutStream(fromPeer[j], id) /\ i + 1 # j) => i + 1 < j /\ fromPeer[j].type = "DATA"
      BY <3>1 DEF Opening
    <3>3. ~AboutStream(f, id)
      <4>1. i + 1 # 1 /\ ~(i + 1 < 1) BY <1>1
      <4> QED BY <1>1, <3>2, <4>1
    <3>4. Bytes(fromPeer', id) = Bytes(fromPeer, id)
      <4>1. id \in Ids /\ id # 0 BY IdsAre
      <4>2. fromPeer \in Seq(In) /\ Bytes(fromPeer, id) \in Nat BY <4>1, TypesFacts, BytesStep
      <4>3. Bytes(Tail(fromPeer), id) = Bytes(fromPeer, id) - DataFor(f, id) BY <4>1, <4>2, BytesStep DEF f
      <4>4. DataFor(f, id) = 0 BY <1>1, <3>3, <4>1 DEF DataFor, AboutStream
      <4> QED BY <4>2, <4>3, <4>4
    <3>5. ASSUME NEW j \in 1..n - 1, AboutStream(fromPeer'[j], id), i # j
          PROVE  i < j /\ fromPeer'[j].type = "DATA"
      <4>1. fromPeer'[j] = fromPeer[j + 1] /\ j + 1 \in DOMAIN fromPeer BY <1>1
      <4>2. i \in Int /\ j \in Int /\ i + 1 # j + 1 BY <1>1, <3>5
      <4>3. i + 1 < j + 1 /\ fromPeer[j + 1].type = "DATA" BY <3>2, <3>5, <4>1, <4>2
      <4> QED BY <4>1, <4>2, <4>3
    <3>6. Untouched(id)' BY <1>3, <3>2, <3>3
    <3> QED BY <3>2, <3>4, <3>5, <3>6
  <2>1. \A i \in DOMAIN fromPeer' : fromPeer'[i].type = "HEADERS" => i \in 1..n - 1 /\ fromPeer'[i].id \in StreamIds
    BY <1>1, InFields
  <2> QED BY <1>1, <2>0, <2>1 DEF Opening, Untouched
<1>6. Ending'
  <2>1. \A i, j \in DOMAIN fromPeer' :
          (i < j /\ fromPeer'[i].type = "DATA" /\ fromPeer'[j].type = "DATA" /\ fromPeer'[i].id = fromPeer'[j].id)
          => ~fromPeer'[i].end
    <3> SUFFICES ASSUME NEW i \in 1..n - 1, NEW j \in 1..n - 1, i < j, fromPeer'[i].type = "DATA",
                        fromPeer'[j].type = "DATA", fromPeer'[i].id = fromPeer'[j].id
                 PROVE  ~fromPeer'[i].end
      BY <1>1
    <3>1. /\ fromPeer'[i] = fromPeer[i + 1] /\ i + 1 \in DOMAIN fromPeer
          /\ fromPeer'[j] = fromPeer[j + 1] /\ j + 1 \in DOMAIN fromPeer
      BY <1>1
    <3>2. i + 1 < j + 1 OBVIOUS
    <3> QED BY <3>1, <3>2 DEF Ending
  <2>2. \A i \in DOMAIN fromPeer' : fromPeer'[i].type = "DATA" /\ fromPeer'[i].end => fromPeer'[i].id \in peer'.ended
    BY <1>1 DEF Ending
  <2>3. iframe' # NoFrame /\ iframe'.end => iframe'.id \in peer'.ended /\ NoDataOf(iframe.id)'
    <3> SUFFICES ASSUME iframe' # NoFrame, iframe'.end
                 PROVE  iframe'.id \in peer'.ended
                        /\ \A i \in DOMAIN fromPeer' : fromPeer'[i].type = "DATA" => fromPeer'[i].id # iframe'.id
      BY DEF NoDataOf
    <3>1. f.type = "DATA" /\ iframe'.id = f.id /\ f.end BY <1>2
    <3>2. f.id \in peer.ended BY <1>1, <3>1 DEF Ending
    <3>3. ASSUME NEW i \in DOMAIN fromPeer', fromPeer'[i].type = "DATA" PROVE fromPeer'[i].id # f.id
      <4>1. i \in 1..n - 1 /\ fromPeer'[i] = fromPeer[i + 1] /\ i + 1 \in DOMAIN fromPeer BY <1>1, <3>3
      <4>2. 1 < i + 1 BY <4>1
      <4> QED BY <1>1, <3>1, <3>3, <4>1, <4>2 DEF Ending
    <3> QED BY <3>1, <3>2, <3>3
  <2>4. \A i \in srv'.shutRd : i \in peer'.ended /\ NoDataOf(i)' /\ (iframe' # NoFrame => iframe'.id # i)
    <3> SUFFICES ASSUME NEW i \in srv.shutRd
                 PROVE  /\ i \in peer.ended /\ (iframe' # NoFrame => iframe'.id # i)
                        /\ \A j \in DOMAIN fromPeer' : fromPeer'[j].type = "DATA" => fromPeer'[j].id # i
      BY DEF NoDataOf
    <3>1. i \in peer.ended /\ \A j \in DOMAIN fromPeer : fromPeer[j].type = "DATA" => fromPeer[j].id # i
      BY DEF Ending, NoDataOf
    <3> QED BY <1>1, <1>2, <3>1
  <2> QED BY <2>1, <2>2, <2>3, <2>4 DEF Ending
<1> QED BY <1>4, <1>5, <1>6

\* Places in a sequence before and after its first elements are taken
LEMMA Places ==
  ASSUME NEW a \in Nat, NEW k \in Nat, NEW len \in Nat, a < k, k <= len
  PROVE  k - a \in Nat /\ k - a \in 1..len - a /\ (k - a) + a = k /\ k # 0 /\ k - a # 0
OBVIOUS

\* An acknowledgement taken from the wire is one of those under way.
LEMMA AcksTail ==
  ASSUME Types, AckLedger, fromPeer # <<>>, fromPeer' = Tail(fromPeer), UNCHANGED <<peer, toPeer>>,
         srv'.urgent = srv.urgent,
         IF Head(fromPeer).type = "SETTINGS_ACK"
         THEN srv'.initial = srv.inflight[1] /\ srv'.inflight = Tail(srv.inflight)
         ELSE srv'.initial = srv.initial /\ srv'.inflight = srv.inflight
  PROVE  AckLedger' /\ \A i \in 0..Len(fromPeer) - 1 : InitialAt(i)' = InitialAt(i + 1)
<1> DEFINE f == Head(fromPeer)
           n == Len(fromPeer)
           a == One(f, "SETTINGS_ACK")
           sent == Count(toPeer, "SETTINGS")
           upTo(j) == CountTo(toPeer, "SETTINGS", j)
           acks(i) == CountTo(fromPeer, "SETTINGS_ACK", i)
           more == srv.inflight
           len == Len(more)
           wait == Len(srv.urgent)
<1>1. /\ fromPeer \in Seq(In) /\ fromPeer[1] = f /\ n \in Nat \ {0} /\ Len(fromPeer') = n - 1
      /\ DOMAIN fromPeer = 1..n
  BY TailIs, TypesFacts
<1>2. toPeer \in Seq(Msg) /\ more \in Seq(0..MaxWindow) /\ srv.urgent \in Seq(Announcement)
  BY TypesFacts, SrvFields
<1>3. a \in {0, 1} /\ (a = 1 <=> f.type = "SETTINGS_ACK") BY DEF One
<1>4. Acknowledged \in Nat /\ Acknowledged' = Acknowledged - a BY <1>1, CountStep DEF Acknowledged
<1>5. sent \in Nat /\ sent' = sent BY <1>2, CountStep
<1>6. /\ acks(0) = 0 /\ acks(n) = Acknowledged /\ \A i \in 0..n : acks(i) \in 0..Acknowledged
      /\ \A i \in 1..n : acks(i) = acks(i - 1) + One(fromPeer[i], "SETTINGS_ACK")
  BY <1>1, CountToStep DEF Acknowledged
<1>7. \A i \in 0..n - 1 : acks(i)' = acks(i + 1) - a
  <2> TAKE i \in 0..n - 1
  <2>1. CountTo(Tail(fromPeer), "SETTINGS_ACK", i) = CountTo(fromPeer, "SETTINGS_ACK", i + 1) - a
    BY <1>1, CountToTail
  <2> QED BY <2>1
<1>8. acks(1) = a
  <2>1. 1 \in 1..n /\ 1 - 1 = 0 BY <1>1
  <2>2. acks(1) = acks(0) + a BY <1>1, <1>6, <2>1
  <2> QED BY <1>3, <1>6, <2>2
<1>9. \A i \in 1..n : acks(i) \in Nat /\ acks(i) >= a /\ acks(i) <= Acknowledged
  <2>1. OfType(fromPeer, "SETTINGS_ACK") \in Seq(Nat) /\ Len(OfType(fromPeer, "SETTINGS_ACK")) = n BY <1>1, OfTypeIs
  <2> TAKE i \in 1..n
  <2>2. acks(1) <= acks(i)
    <3> DEFINE c == OfType(fromPeer, "SETTINGS_ACK")
    <3>1. c \in Seq(Nat) /\ Len(c) = n BY <2>1
    <3> HIDE DEF c
    <3>2. SumTo(c, 1) <= SumTo(c, i) BY <1>1, <3>1, SumToGrows
    <3> QED BY <3>2 DEF c, CountTo
  <2>3. acks(i) \in 0..Acknowledged BY <1>1, <1>6
  <2> QED BY <1>4, <1>8, <2>2, <2>3
<1>10. len \in Nat /\ wait \in Nat /\ len = Acknowledged + sent + wait
  BY <1>2 DEF AckLedger
<1>11. a <= Acknowledged
  <2>1. n \in 1..n BY <1>1
  <2> QED BY <1>6, <1>9, <2>1
<1> HIDE DEF a, sent, upTo, acks, more, n, f, len, wait
<1>12. \A k \in 1..len - a : k + a \in Nat /\ srv'.inflight[k] = more[k + a]
  <2>1. CASE a = 0 BY <1>3, <1>10, <2>1 DEF more, f
  <2>2. CASE a = 1
    <3>1. srv'.inflight = Tail(more) BY <1>3, <2>2 DEF more, f
    <3>2. more # <<>>
      <4>1. len >= 1 BY <1>4, <1>5, <1>10, <1>11, <2>2
      <4> QED BY <4>1 DEF len
    <3>3. \A k \in 1..len - 1 : Tail(more)[k] = more[k + 1] BY <1>2, <3>2 DEF len
    <3>4. \A k \in 1..len - 1 : k + 1 \in Nat BY <1>10
    <3>5. \A k \in 1..len - 1 : k + 1 \in Nat /\ srv'.inflight[k] = more[k + 1] BY <3>1, <3>3, <3>4
    <3> QED BY <2>2, <3>5
  <2> QED BY <1>3, <2>1, <2>2
<1>13. Len(srv'.inflight) = len - a
  <2>1. CASE a = 0 BY <1>3, <1>10, <2>1 DEF more, f, len
  <2>2. CASE a = 1
    <3>1. srv'.inflight = Tail(more) BY <1>3, <2>2 DEF more, f
    <3>2. more # <<>>
      <4>1. len >= 1 BY <1>4, <1>5, <1>10, <1>11, <2>2
      <4> QED BY <4>1 DEF len
    <3> QED BY <1>2, <2>2, <3>1, <3>2 DEF len
  <2> QED BY <1>3, <2>1, <2>2
<1>14. \A i \in 0..n - 1 : InitialAt(i)' = InitialAt(i + 1)
  <2> SUFFICES ASSUME NEW i \in 0..n - 1 PROVE InitialAt(i)' = InitialAt(i + 1) OBVIOUS
  <2>1. i + 1 \in 1..n BY <1>1 DEF n
  <2>2. acks(i + 1) \in Nat /\ acks(i + 1) >= a /\ acks(i + 1) <= Acknowledged BY <1>9, <2>1
  <2>3. acks(i)' = acks(i + 1) - a BY <1>7
  <2>4. InitialAt(i)' = IF acks(i)' = 0 THEN srv'.initial ELSE srv'.inflight[acks(i)'] BY DEF InitialAt, acks
  <2>5. InitialAt(i + 1) = IF acks(i + 1) = 0 THEN srv.initial ELSE more[acks(i + 1)] BY DEF InitialAt, acks, more
  <2>6. CASE acks(i + 1) = a
    <3>1. acks(i)' = 0 BY <1>3, <2>3, <2>6
    <3>2. CASE a = 0 BY <1>3, <2>4, <2>5, <2>6, <3>1, <3>2 DEF f
    <3>3. CASE a = 1 BY <1>3, <2>4, <2>5, <2>6, <3>1, <3>3 DEF f, more
    <3> QED BY <1>3, <3>2, <3>3
  <2>7. CASE acks(i + 1) # a
    <3> DEFINE k == acks(i + 1) - a
    <3>1. k \in 1..len - a /\ k + a = acks(i + 1) /\ acks(i + 1) # 0 /\ k # 0
      <4>1. a \in Nat /\ a < acks(i + 1) BY <1>3, <2>2, <2>7
      <4>2. acks(i + 1) <= len BY <1>4, <1>5, <1>10, <2>2
      <4> QED BY <1>10, <2>2, <4>1, <4>2, Places
    <3>2. acks(i)' = k BY <2>3
    <3> HIDE DEF k
    <3>3. srv'.inflight[k] = more[k + a] BY <1>12, <3>1
    <3> QED BY <2>4, <2>5, <3>1, <3>2, <3>3
  <2> QED BY <2>6, <2>7
<1>15. Len(srv'.inflight) = Acknowledged' + sent' + Len(srv'.urgent)
  BY <1>3, <1>4, <1>5, <1>10, <1>13 DEF wait
<1>16. peer'.initial = InitialAt(Len(fromPeer))'
  <2> SUFFICES ASSUME NEW m, m = Len(fromPeer') PROVE peer'.initial = InitialAt(m)'
    BY DEF InitialAt
  <2>1. m \in 0..n - 1 /\ m + 1 = n BY <1>1 DEF n
  <2>2. InitialAt(m)' = InitialAt(m + 1) BY <1>14, <2>1
  <2>3. peer.initial = InitialAt(n) BY DEF AckLedger, n
  <2> QED BY <2>1, <2>2, <2>3
<1>17. \A j \in DOMAIN toPeer' : toPeer'[j].type = "SETTINGS" =>
         toPeer'[j].inc = srv'.inflight[Acknowledged' + CountTo(toPeer', "SETTINGS", j)]
  <2> SUFFICES ASSUME NEW j \in DOMAIN toPeer, toPeer[j].type = "SETTINGS"
               PROVE  toPeer[j].inc = srv'.inflight[Acknowledged' + upTo(j)]
    BY DEF upTo
  <2>1. toPeer[j].inc = more[Acknowledged + upTo(j)] BY DEF AckLedger, more, upTo
  <2>2. upTo(j) \in Nat /\ 1 <= upTo(j) /\ upTo(j) <= sent
    <3>1. j \in 1..Len(toPeer) /\ j \in 0..Len(toPeer) /\ j - 1 \in 0..Len(toPeer) BY <1>2
    <3>2. upTo(j) = upTo(j - 1) + One(toPeer[j], "SETTINGS") /\ upTo(j - 1) \in 0..sent /\ upTo(j) \in 0..sent
      BY <1>2, <3>1, CountToStep DEF upTo, sent
    <3> QED BY <1>5, <3>2 DEF One
  <2>3. (Acknowledged - a) + upTo(j) \in 1..len - a /\ (Acknowledged - a) + upTo(j) + a = Acknowledged + upTo(j)
    <3>1. a \in Nat /\ a <= Acknowledged BY <1>3, <1>11
    <3>2. Acknowledged + upTo(j) \in Nat /\ a < Acknowledged + upTo(j) BY <1>4, <2>2, <3>1
    <3>3. Acknowledged + upTo(j) <= len BY <1>4, <1>5, <1>10, <2>2
    <3>4. (Acknowledged - a) + upTo(j) = (Acknowledged + upTo(j)) - a BY <1>4, <2>2, <3>1
    <3> QED BY <1>10, <3>1, <3>2, <3>3, <3>4, Places
  <2>4. srv'.inflight[(Acknowledged - a) + upTo(j)] = more[Acknowledged + upTo(j)]
    <3> DEFINE k == (Acknowledged - a) + upTo(j)
    <3>1. k \in 1..len - a /\ k + a = Acknowledged + upTo(j) BY <2>3
    <3> HIDE DEF k
    <3>2. srv'.inflight[k] = more[k + a] BY <1>12, <3>1
    <3> QED BY <3>1, <3>2 DEF k
  <2> QED BY <1>4, <2>1, <2>4
<1>18. \A j \in DOMAIN srv'.urgent :
         srv'.urgent[j].inc = srv'.inflight[Acknowledged' + Count(toPeer', "SETTINGS") + j]
  <2> SUFFICES ASSUME NEW j \in DOMAIN srv.urgent
               PROVE  srv.urgent[j].inc = srv'.inflight[Acknowledged' + sent + j]
    BY DEF sent
  <2>1. srv.urgent[j].inc = more[Acknowledged + sent + j] BY DEF AckLedger, more, sent
  <2>2. j \in 1..wait BY <1>2 DEF wait
  <2> DEFINE k == (Acknowledged - a) + sent + j
  <2>3. k \in 1..len - a /\ k + a = Acknowledged + sent + j
    <3>1. a \in Nat /\ a <= Acknowledged /\ j \in Nat /\ 1 <= j /\ j <= wait BY <1>3, <1>10, <1>11, <2>2
    <3>2. Acknowledged + sent + j \in Nat /\ a < Acknowledged + sent + j BY <1>4, <1>5, <3>1
    <3>3. Acknowledged + sent + j <= len BY <1>4, <1>5, <1>10, <3>1
    <3>4. k = (Acknowledged + sent + j) - a BY <1>4, <1>5, <3>1
    <3> DEFINE p == Acknowledged + sent + j
    <3>5. p \in Nat /\ a < p /\ p <= len /\ k = p - a BY <3>2, <3>3, <3>4
    <3> HIDE DEF p, k
    <3>6. k \in 1..len - a /\ k + a = p BY <1>10, <3>1, <3>5, Places
    <3> QED BY <3>6 DEF p
  <2>4. k = Acknowledged' + sent + j BY <1>4
  <2> HIDE DEF k
  <2>5. srv'.inflight[k] = more[k + a] BY <1>12, <2>3
  <2> QED BY <2>1, <2>3, <2>4, <2>5
<1>19. AckLedger' BY <1>15, <1>16, <1>17, <1>18 DEF AckLedger, sent
<1> QED BY <1>14, <1>19 DEF n

\* The initial window of the frame at hand is that of the server.
LEMMA InitialFirst == InitialAt(0)' = srv'.initial
<1>1. \A w : CountTo(w, "SETTINGS_ACK", 0) = 0 BY SumToNone DEF CountTo
<1>2. CountTo(fromPeer', "SETTINGS_ACK", 0) = 0 BY <1>1
<1> QED BY <1>2 DEF InitialAt

LEMMA AffordedTail ==
  ASSUME Types, Afforded, fromPeer # <<>>, fromPeer' = Tail(fromPeer), UNCHANGED <<peer, use>>,
         \A i \in 0..Len(fromPeer) - 1 : InitialAt(i)' = InitialAt(i + 1),
         iframe' = NoFrame \/ (Head(fromPeer).type = "DATA" /\ iframe'.id = Head(fromPeer).id)
  PROVE  Afforded'
<1> DEFINE f == Head(fromPeer)
           n == Len(fromPeer)
<1>1. /\ f \in In /\ f = fromPeer[1] /\ 1 \in DOMAIN fromPeer /\ n \in Nat \ {0}
      /\ DOMAIN fromPeer = 1..n /\ DOMAIN fromPeer' = 1..n - 1
      /\ \A i \in 1..n - 1 : fromPeer'[i] = fromPeer[i + 1] /\ i + 1 \in DOMAIN fromPeer
      /\ \A i \in DOMAIN fromPeer : fromPeer[i] \in In
  BY TailIs
<1>2. \A id \in Ids : /\ BytesAfter(fromPeer, 1, id) = Bytes(Tail(fromPeer), id)
                      /\ \A i \in 1..n - 1 : BytesAfter(Tail(fromPeer), i, id) = BytesAfter(fromPeer, i + 1, id)
  BY TypesFacts, AfterStep
<1> SUFFICES ASSUME use.honest
             PROVE  /\ peer.credit[0] >= 0
                    /\ \A i \in DOMAIN fromPeer' : fromPeer'[i].type = "DATA" =>
                         peer.credit[fromPeer'[i].id] + BytesAfter(fromPeer', i, fromPeer'[i].id)
                           >= peer.initial - InitialAt(i)'
                    /\ iframe' # NoFrame =>
                         peer.credit[iframe'.id] + Bytes(fromPeer', iframe'.id) >= peer.initial - srv'.initial
  BY DEF Afforded
<1>3. peer.credit[0] >= 0 BY DEF Afforded
<1>4. ASSUME NEW i \in DOMAIN fromPeer', fromPeer'[i].type = "DATA"
      PROVE  peer.credit[fromPeer'[i].id] + BytesAfter(fromPeer', i, fromPeer'[i].id) >= peer.initial - InitialAt(i)'
  <2>1. i \in 1..n - 1 /\ fromPeer'[i] = fromPeer[i + 1] /\ i + 1 \in DOMAIN fromPeer BY <1>1, <1>4
  <2>2. InitialAt(i)' = InitialAt(i + 1)
    <3>1. i \in 0..n - 1 BY <1>1, <2>1
    <3> QED BY <3>1
  <2>3. peer.credit[fromPeer[i + 1].id] + BytesAfter(fromPeer, i + 1, fromPeer[i + 1].id)
          >= peer.initial - InitialAt(i + 1)
    BY <1>4, <2>1 DEF Afforded
  <2>4. fromPeer[i + 1].id \in Ids BY <1>1, <1>4, <2>1, InFields, IdsAre
  <2>5. BytesAfter(fromPeer', i, fromPeer[i + 1].id) = BytesAfter(fromPeer, i + 1, fromPeer[i + 1].id)
    BY <1>2, <2>1, <2>4
  <2> QED BY <2>1, <2>2, <2>3, <2>5
<1>5. ASSUME iframe' # NoFrame
      PROVE  peer.credit[iframe'.id] + Bytes(fromPeer', iframe'.id) >= peer.initial - srv'.initial
  <2>1. f.type = "DATA" /\ iframe'.id = f.id /\ f.id \in Ids BY <1>1, <1>5, InFields, IdsAre
  <2>2. peer.credit[f.id] + BytesAfter(fromPeer, 1, f.id) >= peer.initial - InitialAt(1)
    BY <1>1, <2>1 DEF Afforded
  <2>3. InitialAt(1) = srv'.initial
    <3>1. 0 \in 0..n - 1 /\ 0 + 1 = 1 BY <1>1
    <3>2. InitialAt(0)' = InitialAt(0 + 1) BY <3>1
    <3> QED BY <3>1, <3>2, InitialFirst
  <2> QED BY <1>2, <2>1, <2>2, <2>3
<1> QED BY <1>3, <1>4, <1>5

\* DATA taken from the wire is DATA being read.
LEMMA FlightTail ==
  ASSUME Types, fromPeer # <<>>, fromPeer' = Tail(fromPeer), iframe = NoFrame,
         \/ iframe' = NoFrame /\ Head(fromPeer).type # "DATA"
         \/ /\ iframe' # NoFrame /\ Head(fromPeer).type = "DATA"
            /\ iframe'.id = Head(fromPeer).id /\ iframe'.left = Head(fromPeer).len
  PROVE  \A i \in Ids : InFlight(i)' = InFlight(i)
<1> DEFINE f == Head(fromPeer)
<1> SUFFICES ASSUME NEW i \in Ids PROVE InFlight(i)' = InFlight(i) OBVIOUS
<1>1. fromPeer \in Seq(In) /\ f \in In BY TypesFacts, TailIs
<1>2. Bytes(Tail(fromPeer), i) = Bytes(fromPeer, i) - DataFor(f, i) /\ Bytes(fromPeer, i) \in Nat BY <1>1, BytesStep
<1>3. DataFor(f, i) \in Nat BY <1>1, Contributions
<1>4. InFlight(i) = Bytes(fromPeer, i) + 0 BY DEF InFlight
<1>5. InFlight(i)' = Bytes(Tail(fromPeer), i) + DataFor(f, i)
  <2>1. InFlight(i)' = Bytes(Tail(fromPeer), i) + (IF iframe' # NoFrame /\ i \in {0, iframe'.id} THEN iframe'.left ELSE 0)
    BY DEF InFlight
  <2>2. (IF iframe' # NoFrame /\ i \in {0, iframe'.id} THEN iframe'.left ELSE 0) = DataFor(f, i) BY DEF DataFor
  <2> QED BY <2>1, <2>2
<1> QED BY <1>2, <1>3, <1>4, <1>5

\* What of the invariant follows when every stream that is known keeps its balance.
LEMMA SlackSame ==
  ASSUME Types, NEW i \in Ids, UNCHANGED <<peer, toPeer>>, InFlight(i)' = InFlight(i),
         Claim(srv, i)' + SettingsGap(i)' = Claim(srv, i) + SettingsGap(i), Claim(srv, i)' \in Int, SettingsGap(i)' \in Int
  PROVE  Slack(i)' = Slack(i)
<1>1. /\ Claim(srv, i) \in Int /\ SettingsGap(i) \in Int /\ Updates(toPeer, i) \in Int /\ peer.credit[i] \in Int
      /\ InFlight(i) \in Int
  BY SlackType
<1>2. Slack(i) = Claim(srv, i) + SettingsGap(i) - Updates(toPeer, i) - peer.credit[i] - InFlight(i) BY DEF Slack
<1>3. Slack(i)' = Claim(srv, i)' + SettingsGap(i)' - Updates(toPeer, i) - peer.credit[i] - InFlight(i)
  BY DEF Slack
<1> QED BY <1>1, <1>2, <1>3

LEMMA HeadDataKeeps ==
  ASSUME LedgerInv, RecvHead, Head(fromPeer).type = "DATA" PROVE LedgerInv'
<1> DEFINE f == Head(fromPeer)
<1>0. /\ Types /\ InRange(srv) /\ Balanced /\ Roomy /\ Unopened /\ Opening /\ Ending /\ Touched
      /\ Ignored /\ HeldRight /\ Within /\ AckLedger /\ Afforded /\ LocalInitial /\ NoneAccused
  BY DEF LedgerInv
<1>1. /\ iframe = NoFrame /\ fromPeer # <<>> /\ fromPeer' = Tail(fromPeer) /\ iframe' = DataHead(f)
      /\ UNCHANGED <<srv, use, toPeer, peer, held, frames, calls>>
  BY DEF RecvHead
<1>2. f \in In /\ f = fromPeer[1] /\ 1 \in DOMAIN fromPeer /\ fromPeer' \in Seq(In) BY <1>0, <1>1, TailIs
<1>3. f.id \in StreamIds /\ f.len \in Nat /\ f.pad \in Nat \cup {NoPad} /\ f.end \in BOOLEAN BY <1>2, InFields
<1>4. /\ iframe' \in Reader /\ iframe' # NoFrame /\ iframe'.id = f.id /\ iframe'.left = f.len /\ iframe'.end = f.end
      /\ iframe'.padLength = f.pad
      /\ iframe'.state = "IGN_DATA" => srv.stream[f.id] # "opened"
      /\ iframe'.state = "READ_PAD_DATA" => f.pad # NoPad
  <2> DEFINE st == IF srv.stream[f.id] # "opened" THEN "IGN_DATA" ELSE IF f.pad # NoPad THEN "READ_PAD_DATA" ELSE "READ_DATA"
  <2>1. /\ st \in {"READ_PAD_DATA", "READ_DATA", "IGN_DATA"} /\ (st = "IGN_DATA" => srv.stream[f.id] # "opened")
        /\ st = "READ_PAD_DATA" => f.pad # NoPad
    OBVIOUS
  <2>2. iframe' = [id |-> f.id, left |-> f.len, end |-> f.end, pad |-> 0, padLength |-> f.pad, state |-> st]
    BY <1>1 DEF DataHead
  <2> HIDE DEF st
  <2>3. iframe' \in Reader /\ iframe'.state = st BY <1>3, <2>1, <2>2 DEF Reader
  <2>4. iframe' # NoFrame BY <2>1, <2>3 DEF NoFrame
  <2> QED BY <2>1, <2>2, <2>3, <2>4
<1>5. Types'
  <2>1. f.pad = NoPad \/ f.len > 0 BY <1>0, <1>2 DEF Types
  <2>2. iframe'.state = "READ_PAD_DATA" => iframe'.left > 0 /\ iframe'.padLength \in Nat BY <1>3, <1>4, <2>1
  <2>3. \A i \in DOMAIN fromPeer' : fromPeer'[i].type = "DATA" => fromPeer'[i].pad = NoPad \/ fromPeer'[i].len > 0
    BY <1>0, <1>1, TailIs DEF Types
  <2> QED BY <1>0, <1>1, <1>2, <1>4, <2>2, <2>3 DEF Types
<1>6. \A i \in Ids : Slack(i)' = Slack(i)
  <2> TAKE i \in Ids
  <2>1. InFlight(i)' = InFlight(i) BY <1>0, <1>1, <1>4, FlightTail
  <2>2. Claim(srv, i) \in Int /\ SettingsGap(i) \in Int BY <1>0, SlackType
  <2>3. Claim(srv, i)' = Claim(srv, i) /\ SettingsGap(i)' = SettingsGap(i) BY <1>1 DEF Claim, SettingsGap
  <2> QED BY <1>0, <1>1, <2>1, <2>2, <2>3, SlackSame
<1>7. Balanced' BY <1>0, <1>1, <1>6 DEF Balanced, Counted, IsClosing
<1>8. Roomy' BY <1>0, <1>1, <1>6 DEF Roomy, Apart, Live
<1>9. (Unopened /\ Opening /\ Ending)' BY <1>0, <1>1, <1>4, OrderTail
<1>10. AckLedger' /\ \A i \in 0..Len(fromPeer) - 1 : InitialAt(i)' = InitialAt(i + 1)
  BY <1>0, <1>1, AcksTail
<1>11. Afforded' BY <1>0, <1>1, <1>4, <1>10, AffordedTail
<1>12. Ignored' BY <1>1, <1>4 DEF Ignored
<1>13. InRange(srv)' BY <1>0, <1>1 DEF InRange, Apart
<1>14. Touched' /\ HeldRight' /\ Within' /\ LocalInitial' /\ NoneAccused'
  <2>1. HeldBytes' = HeldBytes BY <1>1 DEF HeldBytes
  <2>2. HeldRight' BY <1>0, <1>1, <2>1 DEF HeldRight, Counted, IsClosing, Kept
  <2> QED BY <1>0, <1>1, <2>2 DEF Touched, ResetKnown, IsClosing, Within, Fitting, LocalInitial, NoneAccused, Apart
<1> QED BY <1>5, <1>7, <1>8, <1>9, <1>10, <1>11, <1>12, <1>13, <1>14 DEF LedgerInv

LEMMA OpenStreamIs ==
  ASSUME NEW s \in Srv, NEW id \in StreamIds
  PROVE  LET t == OpenStream(s, id)
         IN /\ t \in Srv /\ t.win[id] = Window(s.initial) /\ t.stream[id] = "opened"
            /\ \A i \in Ids : i # id => t.win[i] = s.win[i]
            /\ \A i \in StreamIds : i # id => t.stream[i] = s.stream[i]
            /\ t.shutRd = s.shutRd /\ t.urgent = s.urgent /\ t.ob = s.ob /\ t.goaway = s.goaway
            /\ t.initial = s.initial /\ t.inflight = s.inflight /\ t.overrun = s.overrun
            /\ InRange(s) => InRange(t)
            /\ Fitting(s) => Fitting(t)
            /\ ResetKnown(s) => ResetKnown(t)
<1> DEFINE w == Window(s.initial)
           t == OpenStream(s, id)
<1>1. id \in Ids /\ s.initial \in 0..MaxWindow /\ MaxWindow \in Nat BY IdsAre, SrvFields
<1>2. w \in Win /\ w.local = s.initial /\ w.recv = 0 /\ w.consumed = 0 /\ w.reduction = 0
  BY <1>1 DEF Window, Win
<1>3. t = [s EXCEPT !.stream = [s.stream EXCEPT ![id] = "opened"], !.win = [s.win EXCEPT ![id] = w]]
  BY DEF OpenStream, Srv
<1> HIDE DEF w
<1>4. /\ [s.win EXCEPT ![id] = w] \in [Ids -> Win]
      /\ [s.stream EXCEPT ![id] = "opened"] \in [StreamIds -> {"idle", "opened", "closing", "closed"}]
  BY <1>1, <1>2, SrvFields
<1>5. /\ t \in Srv /\ t.win = [s.win EXCEPT ![id] = w] /\ t.stream = [s.stream EXCEPT ![id] = "opened"]
      /\ t.shutRd = s.shutRd /\ t.urgent = s.urgent /\ t.ob = s.ob /\ t.goaway = s.goaway
      /\ t.initial = s.initial /\ t.inflight = s.inflight /\ t.overrun = s.overrun
  BY <1>3, <1>4 DEF Srv
<1> HIDE DEF t
<1>6. /\ t.win[id] = w /\ (\A i \in Ids : i # id => t.win[i] = s.win[i])
      /\ t.stream[id] = "opened" /\ \A i \in StreamIds : i # id => t.stream[i] = s.stream[i]
  BY <1>1, <1>5, SrvFields
<1>7. InRange(s) => InRange(t)
  <2> SUFFICES ASSUME InRange(s) PROVE InRange(t) OBVIOUS
  <2>1. \A i \in Ids :
          /\ t.win[i].local <= MaxWindow /\ (Apart => t.win[i].recv <= MaxWindow)
          /\ t.win[i].consumed \in 0..MaxWindow /\ t.win[i].reduction >= 0
    <3> TAKE i \in Ids
    <3>1. CASE i = id BY <1>1, <1>2, <1>6, <3>1
    <3>2. CASE i # id BY <1>6, <3>2 DEF InRange
    <3> QED BY <3>1, <3>2
  <2> QED BY <1>5, <2>1 DEF InRange
<1>8. Fitting(s) => Fitting(t)
  <2> SUFFICES ASSUME Fitting(s), NEW i \in Ids PROVE t.win[i].recv <= t.win[i].local /\ t.win[i].local >= 0
    BY DEF Fitting
  <2>1. CASE i = id BY <1>1, <1>2, <1>6, <2>1
  <2>2. CASE i # id BY <1>6, <2>2 DEF Fitting
  <2> QED BY <2>1, <2>2
<1>9. ResetKnown(s) => ResetKnown(t)
  <2> SUFFICES ASSUME ResetKnown(s), NEW j \in DOMAIN t.ob, t.ob[j].type = "RST_STREAM" PROVE t.stream[t.ob[j].id] # "idle"
    BY DEF ResetKnown
  <2>1. s.ob[j] \in Out /\ s.stream[s.ob[j].id] # "idle" /\ s.ob[j].id \in StreamIds
    BY <1>5, SrvFields, MsgFields DEF ResetKnown
  <2> QED BY <1>5, <1>6, <2>1
<1> QED BY <1>5, <1>6, <1>7, <1>8, <1>9 DEF t, w

LEMMA HeadHeadersKeeps ==
  ASSUME LedgerInv, RecvHead, Head(fromPeer).type = "HEADERS", NEW id, id = Head(fromPeer).id PROVE LedgerInv'
<1> DEFINE f == Head(fromPeer)
<1>0. /\ Types /\ InRange(srv) /\ Balanced /\ Roomy /\ Unopened /\ Opening /\ Ending /\ Touched
      /\ Ignored /\ HeldRight /\ Within /\ AckLedger /\ Afforded /\ LocalInitial /\ NoneAccused
  BY DEF LedgerInv
<1>1. /\ iframe = NoFrame /\ fromPeer # <<>> /\ fromPeer' = Tail(fromPeer) /\ iframe' = NoFrame
      /\ srv' = IF IsClosing(srv) THEN srv ELSE OpenStream(srv, id)
      /\ UNCHANGED <<use, toPeer, peer, held, frames, calls>>
  BY DEF RecvHead
<1>2. f \in In /\ f = fromPeer[1] /\ 1 \in DOMAIN fromPeer /\ fromPeer' \in Seq(In) BY <1>0, <1>1, TailIs
<1>3. id \in StreamIds /\ id \in Ids /\ id # 0 /\ 0 \in Ids /\ srv \in Srv BY <1>0, <1>2, InFields, IdsAre, TypesFacts
<1>4. /\ id \in peer.opened /\ Untouched(id) /\ peer.credit[id] + Bytes(fromPeer, id) = peer.initial
  BY <1>0, <1>2 DEF Opening
<1>5. /\ srv.stream[id] = "idle" /\ held[id] = 0 /\ Updates(srv.ob, id) = 0 /\ Updates(toPeer, id) = 0
  BY <1>4 DEF Untouched
<1>6. /\ srv' \in Srv
      /\ \A i \in Ids : i # id => srv'.win[i] = srv.win[i]
      /\ \A i \in StreamIds : i # id => srv'.stream[i] = srv.stream[i]
      /\ srv'.shutRd = srv.shutRd /\ srv'.urgent = srv.urgent /\ srv'.ob = srv.ob /\ srv'.goaway = srv.goaway
      /\ srv'.initial = srv.initial /\ srv'.inflight = srv.inflight /\ srv'.overrun = srv.overrun
      /\ InRange(srv') /\ (Fitting(srv) => Fitting(srv')) /\ ResetKnown(srv')
      /\ \/ srv' = srv /\ IsClosing(srv)
         \/ srv'.win[id] = Window(srv.initial) /\ srv'.stream[id] = "opened"
  BY <1>0, <1>1, <1>3, OpenStreamIs DEF Touched
<1>7. Types'
  <2>1. \A i \in DOMAIN fromPeer' : fromPeer'[i].type = "DATA" => fromPeer'[i].pad = NoPad \/ fromPeer'[i].len > 0
    BY <1>0, <1>1, TailIs DEF Types
  <2> QED BY <1>0, <1>1, <1>2, <1>6, <2>1 DEF Types
<1>8. InRange(srv)' BY <1>1, <1>6 DEF InRange, Apart
<1>9. \A i \in Ids : i # id \/ srv' = srv => Slack(i)' = Slack(i)
  <2> TAKE i \in Ids
  <2> HAVE i # id \/ srv' = srv
  <2>1. InFlight(i)' = InFlight(i) BY <1>0, <1>1, FlightTail
  <2>2. Claim(srv, i) \in Int /\ SettingsGap(i) \in Int BY <1>0, SlackType
  <2>3. Claim(srv, i)' = Claim(srv, i) /\ SettingsGap(i)' = SettingsGap(i) BY <1>1, <1>6 DEF Claim, SettingsGap
  <2> QED BY <1>0, <1>1, <2>1, <2>2, <2>3, SlackSame
<1>10. srv' # srv => Slack(id)' = 0
  <2> HAVE srv' # srv
  <2>0. srv'.win[id] = Window(srv.initial) BY <1>6
  <2>1. srv'.win[id].local = srv.initial /\ srv'.win[id].recv = 0 BY <2>0 DEF Window
  <2>2. /\ Claim(srv, id) \in Int /\ peer.credit[id] \in Int /\ Bytes(fromPeer, id) \in Int
        /\ peer.initial \in Int /\ srv.initial \in Int
    <3>1. peer.initial \in Int /\ srv.initial \in Int BY <1>0, TypesFacts
    <3>2. Claim(srv, id) \in Int /\ peer.credit[id] \in Int /\ Bytes(fromPeer, id) \in Nat BY <1>0, <1>3, SlackType
    <3> QED BY <3>1, <3>2
  <2>3. InFlight(id)' = InFlight(id) BY <1>0, <1>1, <1>3, FlightTail
  <2>4. InFlight(id) = Bytes(fromPeer, id) BY <1>1, <2>2 DEF InFlight
  <2> DEFINE cr == peer.credit[id]
             in == InFlight(id)
  <2>5. Slack(id)' = (srv.initial - 0 - 0) + (peer.initial - srv.initial) - 0 - cr - in
    BY <1>1, <1>3, <1>5, <1>6, <2>1, <2>3 DEF Slack, Claim, SettingsGap
  <2>6. cr + in = peer.initial /\ cr \in Int /\ in \in Int BY <1>4, <2>2, <2>4
  <2> HIDE DEF cr, in
  <2> QED BY <2>2, <2>5, <2>6
<1>11. \A i \in Ids : Counted(i)' /\ (i # id \/ srv' = srv) => Counted(i) BY <1>6, IdsAre DEF Counted, IsClosing
<1>12. Balanced' BY <1>0, <1>9, <1>10, <1>11 DEF Balanced
<1>13. Roomy'
  <2> SUFFICES ASSUME use.honest, Apart, NEW i \in Ids, i = 0 \/ Live(srv, i)' PROVE Slack(i)' >= 0
    BY <1>1 DEF Roomy, Apart
  <2>1. CASE i # id \/ srv' = srv
    <3>1. i = 0 \/ Live(srv, i) BY <1>6, <2>1 DEF Live
    <3> QED BY <1>0, <1>9, <2>1, <3>1 DEF Roomy
  <2>2. CASE i = id /\ srv' # srv BY <1>10, <2>2
  <2> QED BY <2>1, <2>2
<1>14. (Unopened /\ Opening /\ Ending)' BY <1>0, <1>1, <1>6, OrderTail
<1>15. AckLedger' /\ \A i \in 0..Len(fromPeer) - 1 : InitialAt(i)' = InitialAt(i + 1)
  BY <1>0, <1>1, <1>6, AcksTail
<1>16. Afforded' BY <1>0, <1>1, <1>15, AffordedTail
<1>17. Ignored' BY <1>1 DEF Ignored
<1>18. Touched'
  <2>1. \A i \in srv.overrun : i # 0 => srv'.stream[i] \in {"closing", "closed"}
    <3> SUFFICES ASSUME NEW i \in srv.overrun, i # 0 PROVE srv'.stream[i] \in {"closing", "closed"} OBVIOUS
    <3>1. i \in StreamIds /\ srv.stream[i] \in {"closing", "closed"} BY <1>0, <1>3, SrvFields, IdsAre DEF Touched
    <3>2. i # id BY <1>5, <3>1
    <3> QED BY <1>6, <3>1, <3>2
  <2> QED BY <1>0, <1>6, <2>1 DEF Touched, IsClosing, ResetKnown
<1>19. HeldRight'
  <2>1. HeldBytes' = HeldBytes BY <1>1 DEF HeldBytes
  <2>2. Kept(srv, 0)' = Kept(srv, 0) BY <1>3, <1>6 DEF Kept
  <2>3. \A s \in StreamIds : s # id \/ srv' = srv => Kept(srv, s)' = Kept(srv, s) BY <1>6, IdsAre DEF Kept
  <2>4. srv' # srv => Kept(srv, id)' = 0 BY <1>6 DEF Kept, Window
  <2> SUFFICES ASSUME ~use.auto, use.increments = {}, use.sizes = {}
               PROVE  /\ ~IsClosing(srv)' => Kept(srv, 0)' = HeldBytes'
                      /\ \A s \in StreamIds : Counted(s)' => Kept(srv, s)' = held'[s]
    BY <1>1 DEF HeldRight
  <2>5. ~IsClosing(srv)' => Kept(srv, 0)' = HeldBytes' BY <1>0, <1>6, <2>1, <2>2 DEF HeldRight, IsClosing
  <2>6. ASSUME NEW s \in StreamIds, Counted(s)' PROVE Kept(srv, s)' = held[s]
    <3>1. CASE s # id \/ srv' = srv
      <4>1. Counted(s) BY <1>11, <2>6, <3>1, IdsAre
      <4> QED BY <1>0, <2>3, <3>1, <4>1 DEF HeldRight
    <3>2. CASE s = id /\ srv' # srv BY <1>5, <2>4, <3>2
    <3> QED BY <3>1, <3>2
  <2> QED BY <1>1, <2>5, <2>6
<1>20. Within' BY <1>0, <1>1, <1>6 DEF Within, Fitting
<1>21. LocalInitial'
  <2> SUFFICES ASSUME use.increments = {}, use.sizes = {}, NEW i \in StreamIds, srv'.stream[i] # "idle"
               PROVE  srv'.win[i].local = srv'.initial
    BY <1>1 DEF LocalInitial
  <2>1. CASE i # id \/ srv' = srv BY <1>0, <1>6, <2>1, IdsAre DEF LocalInitial
  <2>2. CASE i = id /\ srv' # srv BY <1>6, <2>2 DEF Window
  <2> QED BY <2>1, <2>2
<1>22. NoneAccused' BY <1>0, <1>1, <1>6 DEF NoneAccused, Apart
<1> QED BY <1>7, <1>8, <1>12, <1>13, <1>14, <1>15, <1>16, <1>17, <1>18, <1>19, <1>20, <1>21, <1>22 DEF LedgerInv

\* A new initial window is acknowledged, and reaches the streams.
LEMMA HeadAckKeeps ==
  ASSUME LedgerInv, RecvHead, Head(fromPeer).type = "SETTINGS_ACK" PROVE LedgerInv'
<1> DEFINE f == Head(fromPeer)
           new == Head(srv.inflight)
           t == UpdateLocalInitial(srv, new)
<1>0. /\ Types /\ InRange(srv) /\ Balanced /\ Roomy /\ Unopened /\ Opening /\ Ending /\ Touched
      /\ Ignored /\ HeldRight /\ Within /\ AckLedger /\ Afforded /\ LocalInitial /\ NoneAccused
  BY DEF LedgerInv
<1>1. /\ iframe = NoFrame /\ fromPeer # <<>> /\ fromPeer' = Tail(fromPeer) /\ iframe' = NoFrame /\ srv' = t
      /\ UNCHANGED <<use, toPeer, peer, held, frames, calls>>
  BY DEF RecvHead
<1>2. f \in In /\ f = fromPeer[1] /\ 1 \in DOMAIN fromPeer /\ fromPeer' \in Seq(In) BY <1>0, <1>1, TailIs
<1>3. srv \in Srv /\ 0 \in Ids /\ srv.inflight \in Seq(0..MaxWindow) BY <1>0, TypesFacts, IdsAre, SrvFields
<1>4. srv.inflight # <<>>
  <2>1. fromPeer \in Seq(In) BY <1>0, TypesFacts
  <2>2. Count(Tail(fromPeer), "SETTINGS_ACK") = Acknowledged - One(f, "SETTINGS_ACK")
        /\ Acknowledged \in Nat
    BY <1>1, <2>1, CountStep DEF Acknowledged
  <2>3. Count(Tail(fromPeer), "SETTINGS_ACK") \in Nat BY <1>1, <1>2, CountStep
  <2>4. Acknowledged >= 1 BY <2>2, <2>3 DEF One
  <2>5. Count(toPeer, "SETTINGS") \in Nat /\ Len(srv.urgent) \in Nat
    <3>1. toPeer \in Seq(Msg) /\ srv.urgent \in Seq(Announcement) BY <1>0, <1>3, TypesFacts, SrvFields
    <3> QED BY <3>1, CountStep
  <2>6. Len(srv.inflight) = Acknowledged + Count(toPeer, "SETTINGS") + Len(srv.urgent) BY <1>0 DEF AckLedger
  <2>7. Len(srv.inflight) # 0 BY <2>2, <2>4, <2>5, <2>6
  <2> QED BY <2>7
<1>5. /\ t \in Srv /\ t.initial = new /\ new \in 0..MaxWindow /\ t.inflight = Tail(srv.inflight)
      /\ t.shutRd = srv.shutRd /\ t.urgent = srv.urgent /\ t.goaway = srv.goaway /\ t.overrun = srv.overrun
      /\ \A i \in StreamIds : t.stream[i] = srv.stream[i] \/ (srv.stream[i] = "opened" /\ t.stream[i] = "closing")
      /\ InRange(t) /\ ResetKnown(t)
      /\ \A i \in Ids : (i = 0 \/ srv.stream[i] = "idle") => Same(srv, t, i)
      /\ \A i \in StreamIds : srv.stream[i] # "idle" =>
           \/ /\ t.win[i].local = srv.win[i].local + new - srv.initial
              /\ Claim(t, i) = Claim(srv, i) + new - srv.initial /\ t.stream[i] = srv.stream[i]
              /\ ~use.auto => Kept(t, i) = Kept(srv, i)
           \/ srv.win[i].local + new - srv.initial > MaxWindow /\ t.stream[i] # "opened"
  BY <1>0, <1>3, <1>4, UpdateLocalInitialIs DEF Touched
<1>6. new = srv.inflight[1]
  <2> DEFINE V == 0..MaxWindow
  <2>1. srv.inflight \in Seq(V) BY <1>3
  <2> HIDE DEF V
  <2> QED BY <1>4, <2>1, HeadAndTail
<1>7. new \in Int /\ srv.initial \in Int /\ MaxWindow \in Int /\ new <= MaxWindow BY <1>0, <1>5, TypesFacts, IdsAre
<1> HIDE DEF new, t
<1>8. use.initials # {} BY <1>0, <1>4 DEF Within
<1>9. ASSUME use.increments = {}, use.sizes = {}, NEW i \in StreamIds, srv.stream[i] # "idle"
      PROVE  srv.win[i].local + new - srv.initial = new
  BY <1>0, <1>7, <1>9 DEF LocalInitial
<1>10. Types'
  <2>1. \A i \in DOMAIN fromPeer' : fromPeer'[i].type = "DATA" => fromPeer'[i].pad = NoPad \/ fromPeer'[i].len > 0
    BY <1>0, <1>1, TailIs DEF Types
  <2> QED BY <1>0, <1>1, <1>2, <1>5, <2>1 DEF Types
<1>11. InRange(srv)' BY <1>1, <1>5 DEF InRange, Apart
<1>12. \A i \in Ids : \/ Slack(i)' = Slack(i)
                      \/ /\ i # 0 /\ srv.stream[i] # "idle" /\ t.stream[i] # "opened"
                         /\ srv.win[i].local + new - srv.initial > MaxWindow
                      \/ i # 0 /\ srv.stream[i] = "idle"
  <2> TAKE i \in Ids
  <2>1. InFlight(i)' = InFlight(i) BY <1>0, <1>1, FlightTail
  <2>2. Claim(srv, i) \in Int /\ SettingsGap(i) \in Int /\ peer.initial \in Int BY <1>0, SlackType, TypesFacts
  <2>3. CASE i = 0
    <3>1. Claim(srv, i)' = Claim(srv, i) /\ SettingsGap(i)' = SettingsGap(i)
      BY <1>1, <1>5, <2>3 DEF Claim, SettingsGap, Same
    <3> QED BY <1>0, <1>1, <2>1, <2>2, <3>1, SlackSame
  <2>4. CASE i # 0 /\ Claim(t, i) = Claim(srv, i) + new - srv.initial
    <3>1. Claim(srv, i)' = Claim(srv, i) + new - srv.initial BY <1>1, <2>4 DEF Claim
    <3>2. SettingsGap(i)' = peer.initial - new /\ SettingsGap(i) = peer.initial - srv.initial
      BY <1>1, <1>5, <2>4 DEF SettingsGap
    <3>3. Claim(srv, i)' + SettingsGap(i)' = Claim(srv, i) + SettingsGap(i) /\ Claim(srv, i)' \in Int /\ SettingsGap(i)' \in Int
      BY <1>7, <2>2, <3>1, <3>2
    <3> QED BY <1>0, <1>1, <2>1, <3>3, SlackSame
  <2> QED BY <1>5, <2>3, <2>4, IdsAre
<1>13. \A i \in Ids : Counted(i)' => Counted(i) /\ (i # 0 => t.stream[i] = "opened" /\ srv.stream[i] = "opened")
  <2> TAKE i \in Ids
  <2> HAVE Counted(i)'
  <2>1. ~IsClosing(srv) /\ i \notin srv.overrun /\ (i # 0 => t.stream[i] = "opened")
    BY <1>1, <1>5 DEF Counted, IsClosing
  <2> QED BY <1>5, <2>1, IdsAre DEF Counted
<1>14. Balanced'
  <2> SUFFICES ASSUME NEW i \in Ids, Counted(i)' PROVE Slack(i)' = 0 BY DEF Balanced
  <2>1. Counted(i) /\ (i # 0 => t.stream[i] = "opened" /\ srv.stream[i] = "opened") BY <1>13
  <2> QED BY <1>0, <1>12, <2>1 DEF Balanced
<1>15. Roomy'
  <2> SUFFICES ASSUME use.honest, Apart, NEW i \in Ids, i = 0 \/ Live(srv, i)' PROVE Slack(i)' >= 0
    BY <1>1 DEF Roomy, Apart
  <2>1. i = 0 \/ (Live(srv, i) /\ srv.stream[i] # "idle") BY <1>1, <1>5 DEF Live
  <2>2. Slack(i) >= 0 BY <1>0, <2>1 DEF Roomy
  <2>3. use.increments = {} /\ use.sizes = {} BY <1>8 DEF Apart
  <2>4. i # 0 => ~(srv.win[i].local + new - srv.initial > MaxWindow) BY <1>7, <1>9, <2>1, <2>3, IdsAre
  <2> QED BY <1>12, <2>1, <2>2, <2>4
<1>16. (Unopened /\ Opening /\ Ending)'
  <2>1. \A i \in StreamIds : srv.stream[i] = "idle" =>
          srv'.stream[i] = "idle" /\ Updates(srv'.ob, i) = Updates(srv.ob, i)
    BY <1>1, <1>5, IdsAre DEF Same
  <2>2. srv'.shutRd = srv.shutRd BY <1>1, <1>5
  <2> QED BY <1>0, <1>1, <2>1, <2>2, OrderTail
<1>17. AckLedger' /\ \A i \in 0..Len(fromPeer) - 1 : InitialAt(i)' = InitialAt(i + 1)
  BY <1>0, <1>1, <1>5, <1>6, AcksTail
<1>18. Afforded' BY <1>0, <1>1, <1>17, AffordedTail
<1>19. Ignored' BY <1>1 DEF Ignored
<1>20. Touched'
  <2>1. \A i \in srv.overrun : i # 0 => t.stream[i] \in {"closing", "closed"}
    <3> SUFFICES ASSUME NEW i \in srv.overrun, i # 0 PROVE t.stream[i] \in {"closing", "closed"} OBVIOUS
    <3>1. i \in StreamIds /\ srv.stream[i] \in {"closing", "closed"} BY <1>0, <1>3, SrvFields, IdsAre DEF Touched
    <3> QED BY <1>5, <3>1
  <2> QED BY <1>0, <1>1, <1>5, <2>1 DEF Touched, IsClosing, ResetKnown
<1>21. HeldRight'
  <2>1. HeldBytes' = HeldBytes BY <1>1 DEF HeldBytes
  <2>2. Kept(srv, 0)' = Kept(srv, 0) BY <1>1, <1>3, <1>5 DEF Kept, Same
  <2> SUFFICES ASSUME ~use.auto, use.increments = {}, use.sizes = {}
               PROVE  /\ ~IsClosing(srv)' => Kept(srv, 0)' = HeldBytes'
                      /\ \A s \in StreamIds : Counted(s)' => Kept(srv, s)' = held'[s]
    BY <1>1 DEF HeldRight
  <2>3. ~IsClosing(srv)' => Kept(srv, 0)' = HeldBytes' BY <1>0, <1>1, <1>5, <2>1, <2>2 DEF HeldRight, IsClosing
  <2>4. ASSUME NEW s \in StreamIds, Counted(s)' PROVE Kept(srv, s)' = held[s]
    <3>1. Counted(s) /\ t.stream[s] = "opened" /\ srv.stream[s] = "opened" BY <1>13, <2>4, IdsAre
    <3>2. Kept(t, s) = Kept(srv, s) BY <1>5, <3>1
    <3>3. Kept(srv, s)' = Kept(t, s) BY <1>1 DEF Kept
    <3> QED BY <1>0, <3>1, <3>2, <3>3 DEF HeldRight
  <2> QED BY <1>1, <2>3, <2>4
<1>22. Within' BY <1>1, <1>8 DEF Within
<1>23. LocalInitial'
  <2> SUFFICES ASSUME use.increments = {}, use.sizes = {}, NEW i \in StreamIds, t.stream[i] # "idle"
               PROVE  t.win[i].local = t.initial
    BY <1>1 DEF LocalInitial
  <2>1. srv.stream[i] # "idle" BY <1>5
  <2>2. srv.win[i].local + new - srv.initial = new BY <1>9, <2>1
  <2> QED BY <1>5, <1>7, <2>1, <2>2
<1>24. NoneAccused' BY <1>0, <1>1, <1>5 DEF NoneAccused, Apart
<1> QED BY <1>10, <1>11, <1>14, <1>15, <1>16, <1>17, <1>18, <1>19, <1>20, <1>21, <1>22, <1>23, <1>24 DEF LedgerInv

LEMMA RecvHeadKeeps == ASSUME LedgerInv, RecvHead PROVE LedgerInv'
<1>1. Types /\ fromPeer # <<>> BY DEF LedgerInv, RecvHead
<1>2. Head(fromPeer) \in In
  <2>1. fromPeer \in Seq(In) BY <1>1, TypesFacts
  <2> QED BY <1>1, <2>1, HeadAndTail
<1>3. Head(fromPeer).type \in {"HEADERS", "SETTINGS_ACK", "DATA"} BY <1>2, InFields
<1> QED BY <1>3, HeadDataKeeps, HeadHeadersKeeps, HeadAckKeeps

-----------------------------------------------------------------------------
(* The server sends, and the application acts.                              *)

\* What remains of the invariant where nothing is read
LEMMA RestKeeps ==
  ASSUME LedgerInv, srv' \in Srv, UNCHANGED <<use, iframe, fromPeer, peer>>, frames' \in Nat, calls' \in Nat,
         toPeer' \in Seq(Msg), AckLedger', \A i \in DOMAIN fromPeer : InitialAt(i)' = InitialAt(i),
         srv'.shutRd = srv.shutRd, srv'.initial = srv.initial,
         srv'.overrun = srv.overrun, held' \in [StreamIds -> Nat],
         \A i \in StreamIds : srv.stream[i] = "idle" =>
           /\ srv'.stream[i] = "idle" /\ (held[i] = 0 => held'[i] = 0)
           /\ Updates(srv.ob, i) = 0 => Updates(srv'.ob, i) = 0
           /\ Updates(toPeer, i) = 0 => Updates(toPeer', i) = 0,
         \A i \in StreamIds : \/ srv'.stream[i] = srv.stream[i]
                              \/ srv'.stream[i] \in {"closing", "closed"} /\ (Live(srv', i) => Live(srv, i)),
         IsClosing(srv) => IsClosing(srv'), InRange(srv'), ResetKnown(srv'),
         use.initials = {} => srv'.inflight = srv.inflight /\ Fitting(srv'),
         \A i \in Ids : \/ Slack(i)' = Slack(i)
                        \/ Slack(i)' \in Int /\ Slack(i)' >= Slack(i) /\ ~Counted(i)',
         (use.increments = {} /\ use.sizes = {}) => \A i \in StreamIds : srv'.win[i].local = srv.win[i].local,
         HeldRight'
  PROVE  LedgerInv'
<1>0. /\ Types /\ InRange(srv) /\ Balanced /\ Roomy /\ Unopened /\ Opening /\ Ending /\ Touched
      /\ Ignored /\ HeldRight /\ Within /\ AckLedger /\ Afforded /\ LocalInitial /\ NoneAccused
  BY DEF LedgerInv
<1>2. Types' BY <1>0 DEF Types, Msg
<1>3. InRange(srv)' BY DEF InRange, Apart
<1>4. srv.stream \in [StreamIds -> {"idle", "opened", "closing", "closed"}] /\ srv \in Srv BY <1>0, TypesFacts, SrvFields
<1>5. \A i \in Ids : Counted(i)' => Counted(i)
  <2> TAKE i \in Ids
  <2> HAVE Counted(i)'
  <2>1. ~IsClosing(srv') /\ i \notin srv.overrun /\ (i # 0 => srv'.stream[i] = "opened") BY DEF Counted, IsClosing
  <2>2. i # 0 => srv.stream[i] = "opened" BY <2>1, IdsAre
  <2> QED BY <2>1, <2>2 DEF Counted
<1>6. Balanced' BY <1>0, <1>5 DEF Balanced
<1>7. \A i \in Ids : Slack(i) \in Int /\ Slack(i)' \in Int
  <2>1. \A i \in Ids : Slack(i) \in Int BY <1>0, SlackType
  <2> QED BY <2>1
<1>8. Roomy'
  <2> SUFFICES ASSUME use.honest, Apart, NEW i \in Ids, i = 0 \/ Live(srv, i)' PROVE Slack(i)' >= 0
    BY DEF Roomy, Apart
  <2>1. i = 0 \/ Live(srv, i)
    <3>1. Live(srv, i)' => Live(srv', i) BY DEF Live
    <3>2. ASSUME i # 0, Live(srv', i) PROVE Live(srv, i)
      <4>1. i \in StreamIds BY <3>2, IdsAre
      <4>2. CASE srv'.stream[i] = srv.stream[i] BY <3>2, <4>1, <4>2 DEF Live
      <4>3. CASE srv'.stream[i] # srv.stream[i] BY <3>2, <4>1, <4>3
      <4> QED BY <4>2, <4>3
    <3> QED BY <3>1, <3>2
  <2>2. Slack(i) >= 0 BY <1>0, <2>1 DEF Roomy
  <2>3. Slack(i)' = Slack(i) \/ Slack(i)' >= Slack(i) OBVIOUS
  <2> QED BY <1>7, <2>2, <2>3
<1>9. (Unopened /\ Opening /\ Ending)' BY <1>0, OrderKept
<1>10. Touched'
  <2>1. \A i \in srv.overrun : i # 0 => srv'.stream[i] \in {"closing", "closed"}
    <3> SUFFICES ASSUME NEW i \in srv.overrun, i # 0 PROVE srv'.stream[i] \in {"closing", "closed"} OBVIOUS
    <3>1. i \in StreamIds /\ srv.stream[i] \in {"closing", "closed"} BY <1>0, <1>4, SrvFields, IdsAre DEF Touched
    <3> QED BY <3>1
  <2> QED BY <1>0, <2>1 DEF Touched, IsClosing, ResetKnown
<1>11. Ignored'
  <2> SUFFICES ASSUME iframe # NoFrame, iframe.state = "IGN_DATA" PROVE IsClosing(srv') \/ srv'.stream[iframe.id] # "opened"
    BY DEF Ignored, IsClosing
  <2>1. iframe.id \in StreamIds BY <1>0, TypesFacts DEF Reader
  <2> QED BY <1>0, <2>1 DEF Ignored
<1>12. Within' BY <1>0 DEF Within, Fitting
<1>13. AckLedger' OBVIOUS
<1>14. Afforded' BY <1>0, AffordedKept
<1>15. LocalInitial'
  <2> SUFFICES ASSUME use.increments = {}, use.sizes = {}, NEW i \in StreamIds, srv'.stream[i] # "idle"
               PROVE  srv'.win[i].local = srv'.initial
    BY DEF LocalInitial
  <2>1. srv.stream[i] # "idle" OBVIOUS
  <2> QED BY <1>0, <2>1 DEF LocalInitial
<1>16. NoneAccused' BY <1>0 DEF NoneAccused, Apart
<1> QED BY <1>2, <1>3, <1>6, <1>8, <1>9, <1>10, <1>11, <1>12, <1>13, <1>14, <1>15, <1>16 DEF LedgerInv

\* The same where no SETTINGS are sent
LEMMA ServerKeeps ==
  ASSUME LedgerInv, srv' \in Srv, UNCHANGED <<use, iframe, fromPeer, peer>>, frames' \in Nat, calls' \in Nat,
         \/ toPeer' = toPeer
         \/ \E f \in Msg : f.type # "SETTINGS" /\ toPeer' = Append(toPeer, f),
         srv'.shutRd = srv.shutRd, srv'.urgent = srv.urgent, srv'.initial = srv.initial,
         srv'.inflight = srv.inflight, srv'.overrun = srv.overrun, held' \in [StreamIds -> Nat],
         \A i \in StreamIds : srv.stream[i] = "idle" =>
           /\ srv'.stream[i] = "idle" /\ (held[i] = 0 => held'[i] = 0)
           /\ Updates(srv.ob, i) = 0 => Updates(srv'.ob, i) = 0
           /\ Updates(toPeer, i) = 0 => Updates(toPeer', i) = 0,
         \A i \in StreamIds : \/ srv'.stream[i] = srv.stream[i]
                              \/ srv'.stream[i] \in {"closing", "closed"} /\ (Live(srv', i) => Live(srv, i)),
         IsClosing(srv) => IsClosing(srv'), InRange(srv'), ResetKnown(srv'),
         use.initials = {} => Fitting(srv'),
         \A i \in Ids : \/ Slack(i)' = Slack(i)
                        \/ Slack(i)' \in Int /\ Slack(i)' >= Slack(i) /\ ~Counted(i)',
         (use.increments = {} /\ use.sizes = {}) => \A i \in StreamIds : srv'.win[i].local = srv.win[i].local,
         HeldRight'
  PROVE  LedgerInv'
<1>0. Types /\ AckLedger BY DEF LedgerInv
<1>1. toPeer' \in Seq(Msg)
  <2>1. toPeer \in Seq(Msg) BY <1>0, TypesFacts
  <2> QED BY <2>1
<1>2. AckLedger' /\ \A i : InitialAt(i)' = InitialAt(i) BY <1>0, AcksKept
<1>3. \A i \in DOMAIN fromPeer : InitialAt(i)' = InitialAt(i) BY <1>2
<1>4. use.initials = {} => srv'.inflight = srv.inflight /\ Fitting(srv') OBVIOUS
<1>5. AckLedger' BY <1>2
<1> QED BY <1>1, <1>3, <1>4, <1>5, RestKeeps

\* What is held is counted still, where nothing is consumed.
LEMMA HeldSame ==
  ASSUME LedgerInv, srv' \in Srv, UNCHANGED <<use, held>>, srv'.overrun = srv.overrun, IsClosing(srv) => IsClosing(srv'),
         \A i \in StreamIds : srv'.stream[i] = "opened" => srv.stream[i] = "opened",
         \A i \in Ids : (/\ ~use.auto /\ use.increments = {} /\ use.sizes = {}
                         /\ ~IsClosing(srv') /\ (i # 0 => srv'.stream[i] = "opened")) => Kept(srv', i) = Kept(srv, i)
  PROVE  HeldRight'
<1> SUFFICES ASSUME ~use.auto, use.increments = {}, use.sizes = {}
             PROVE  /\ ~IsClosing(srv)' => Kept(srv, 0)' = HeldBytes'
                    /\ \A s \in StreamIds : Counted(s)' => Kept(srv, s)' = held'[s]
  BY DEF HeldRight
<1>1. HeldBytes' = HeldBytes BY DEF HeldBytes
<1>2. /\ ~IsClosing(srv) => Kept(srv, 0) = HeldBytes
      /\ \A s \in StreamIds : Counted(s) => Kept(srv, s) = held[s]
  BY DEF LedgerInv, HeldRight
<1>3. \A i : Kept(srv, i)' = Kept(srv', i) BY DEF Kept
<1>4. IsClosing(srv)' = IsClosing(srv') BY DEF IsClosing
<1>5. ~IsClosing(srv)' => Kept(srv, 0)' = HeldBytes' BY <1>1, <1>2, <1>3, <1>4, IdsAre
<1>6. ASSUME NEW s \in StreamIds, Counted(s)' PROVE Kept(srv, s)' = held[s]
  <2>1. ~IsClosing(srv') /\ srv'.stream[s] = "opened" /\ s \notin srv.overrun /\ s \in Ids /\ s # 0
    BY <1>4, <1>6, IdsAre DEF Counted
  <2>2. Counted(s) BY <2>1 DEF Counted
  <2> QED BY <1>2, <1>3, <2>1, <2>2
<1> QED BY <1>5, <1>6

\* An item leaves the queue.
LEMMA Dequeued ==
  ASSUME NEW s \in Srv, s.ob # <<>>
  PROVE  LET r == [s EXCEPT !.ob = Tail(@)]
         IN /\ r \in Srv /\ r.win = s.win /\ r.stream = s.stream /\ r.shutRd = s.shutRd /\ r.urgent = s.urgent
            /\ r.goaway = s.goaway /\ r.initial = s.initial /\ r.inflight = s.inflight /\ r.overrun = s.overrun
            /\ Head(s.ob) \in Out /\ Head(s.ob) = s.ob[1] /\ 1 \in DOMAIN s.ob
            /\ \A i \in Ids : /\ Updates(r.ob, i) = Updates(s.ob, i) - IncFor(Head(s.ob), i)
                              /\ IncFor(Head(s.ob), i) \in Nat /\ IncFor(Head(s.ob), i) <= Updates(s.ob, i)
                              /\ Claim(r, i) = Claim(s, i) + IncFor(Head(s.ob), i) /\ Kept(r, i) = Kept(s, i)
            /\ InRange(s) => InRange(r)
            /\ Fitting(s) => Fitting(r)
            /\ ResetKnown(s) => ResetKnown(r)
<1> DEFINE r == [s EXCEPT !.ob = Tail(@)]
           f == Head(s.ob)
<1>1. s.ob \in Seq(Out) /\ s.ob \in Seq(Msg) BY SrvFields
<1>2. /\ f \in Out /\ f = s.ob[1] /\ 1 \in DOMAIN s.ob /\ Tail(s.ob) \in Seq(Out)
      /\ DOMAIN s.ob = 1..Len(s.ob) /\ DOMAIN Tail(s.ob) = 1..Len(s.ob) - 1
      /\ \A i \in 1..Len(s.ob) - 1 : Tail(s.ob)[i] = s.ob[i + 1] /\ i + 1 \in DOMAIN s.ob
  <2>1. 1 \in 1..Len(s.ob) BY <1>1, HeadAndTail
  <2> QED BY <1>1, <2>1, HeadAndTail
<1>3. /\ r.win = s.win /\ r.stream = s.stream /\ r.shutRd = s.shutRd /\ r.urgent = s.urgent
      /\ r.goaway = s.goaway /\ r.initial = s.initial /\ r.inflight = s.inflight /\ r.overrun = s.overrun
      /\ r.ob = Tail(s.ob) /\ r \in Srv
  BY <1>2 DEF Srv
<1> HIDE DEF r
<1>4. \A i \in Ids : /\ Updates(r.ob, i) = Updates(s.ob, i) - IncFor(f, i)
                     /\ IncFor(f, i) \in Nat /\ IncFor(f, i) <= Updates(s.ob, i)
                     /\ Claim(r, i) = Claim(s, i) + IncFor(f, i) /\ Kept(r, i) = Kept(s, i)
  <2> TAKE i \in Ids
  <2>1. f \in Msg BY <1>2 DEF Msg
  <2>2. IncFor(f, i) \in Nat BY <2>1, Contributions
  <2>3. Updates(s.ob, i) \in Nat /\ Updates(Tail(s.ob), i) = Updates(s.ob, i) - IncFor(f, i) BY <1>1, UpdatesStep
  <2>4. Updates(Tail(s.ob), i) \in Nat
    <3>1. Tail(s.ob) \in Seq(Msg) BY <1>2 DEF Msg
    <3> QED BY <3>1, UpdatesStep
  <2>5. s.win[i].local \in Int /\ s.win[i].recv \in Int BY SrvFields
  <2> DEFINE c == IncFor(f, i)
             u == Updates(s.ob, i)
             v == Updates(Tail(s.ob), i)
  <2>6. c \in Nat /\ u \in Nat /\ v \in Nat /\ v = u - c BY <2>2, <2>3, <2>4
  <2>7. Claim(s, i) = s.win[i].local - s.win[i].recv - u /\ Claim(r, i) = s.win[i].local - s.win[i].recv - v
    BY <1>3 DEF Claim
  <2>8. Updates(r.ob, i) = v BY <1>3
  <2> HIDE DEF c, u, v
  <2>9. c <= u /\ Claim(r, i) = Claim(s, i) + c BY <2>5, <2>6, <2>7
  <2>10. Kept(r, i) = Kept(s, i) BY <1>3 DEF Kept
  <2> QED BY <2>6, <2>8, <2>9, <2>10 DEF c, u
<1>5. InRange(s) => InRange(r) BY <1>2, <1>3 DEF InRange
<1>6. Fitting(s) => Fitting(r) BY <1>3 DEF Fitting
<1>7. ResetKnown(s) => ResetKnown(r) BY <1>2, <1>3 DEF ResetKnown
<1> QED BY <1>2, <1>3, <1>4, <1>5, <1>6, <1>7 DEF r

\* The same of states that have names.
Rest(q) == [q EXCEPT !.ob = Tail(@)]
LEMMA ItemOut ==
  ASSUME NEW q \in Srv, q.ob # <<>>, NEW f, f = Head(q.ob), NEW s, s = Rest(q)
  PROVE  /\ s \in Srv /\ s.win = q.win /\ s.stream = q.stream /\ s.shutRd = q.shutRd /\ s.urgent = q.urgent
         /\ s.goaway = q.goaway /\ s.initial = q.initial /\ s.inflight = q.inflight /\ s.overrun = q.overrun
         /\ f \in Out
         /\ \A i \in Ids : /\ Updates(s.ob, i) = Updates(q.ob, i) - IncFor(f, i)
                           /\ IncFor(f, i) \in Nat /\ IncFor(f, i) <= Updates(q.ob, i)
                           /\ Claim(s, i) = Claim(q, i) + IncFor(f, i) /\ Kept(s, i) = Kept(q, i)
         /\ InRange(q) => InRange(s)
         /\ Fitting(q) => Fitting(s)
         /\ ResetKnown(q) => ResetKnown(s)
BY Dequeued DEF Rest

\* How the slack of a window follows what the server claims and announces.
LEMMA SlackFollows ==
  ASSUME Types, NEW i \in Ids, UNCHANGED <<iframe, fromPeer, peer>>, srv'.initial = srv.initial, NEW c \in Nat,
         Claim(srv', i) \in Int, Updates(toPeer', i) \in Int,
         Claim(srv', i) - Updates(toPeer', i) = Claim(srv, i) - Updates(toPeer, i) + c
  PROVE  Slack(i)' = Slack(i) + c
<1>1. InFlight(i)' = InFlight(i) /\ SettingsGap(i)' = SettingsGap(i) BY DEF InFlight, SettingsGap
<1>2. /\ Claim(srv, i) \in Int /\ Updates(toPeer, i) \in Int /\ SettingsGap(i) \in Int /\ peer.credit[i] \in Int
      /\ InFlight(i) \in Int
  BY SlackType
<1>3. Slack(i)' = Claim(srv', i) + SettingsGap(i) - Updates(toPeer', i) - peer.credit[i] - InFlight(i)
  BY <1>1 DEF Slack
<1>4. Slack(i) = Claim(srv, i) + SettingsGap(i) - Updates(toPeer, i) - peer.credit[i] - InFlight(i) BY DEF Slack
<1> QED BY <1>2, <1>3, <1>4

\* A stream is closed.
LEMMA CloseStreamIs ==
  ASSUME NEW s \in Srv, NEW id \in StreamIds, s.stream[id] # "idle"
  PROVE  LET t == CloseStream(s, id)
         IN /\ t \in Srv /\ t.win = s.win /\ t.ob = s.ob /\ t.shutRd = s.shutRd /\ t.urgent = s.urgent
            /\ t.goaway = s.goaway /\ t.initial = s.initial /\ t.inflight = s.inflight /\ t.overrun = s.overrun
            /\ t.stream[id] = "closed" /\ \A i \in StreamIds : i # id => t.stream[i] = s.stream[i]
            /\ InRange(s) => InRange(t)
            /\ Fitting(s) => Fitting(t)
            /\ ResetKnown(s) => ResetKnown(t)
<1> DEFINE t == CloseStream(s, id)
<1>1. /\ t.win = s.win /\ t.ob = s.ob /\ t.shutRd = s.shutRd /\ t.urgent = s.urgent
      /\ t.goaway = s.goaway /\ t.initial = s.initial /\ t.inflight = s.inflight /\ t.overrun = s.overrun
      /\ t.stream = [s.stream EXCEPT ![id] = "closed"]
      /\ t = [s EXCEPT !.stream = t.stream]
  BY DEF CloseStream, Srv
<1>2. /\ t.stream \in [StreamIds -> {"idle", "opened", "closing", "closed"}]
      /\ t.stream[id] = "closed" /\ \A i \in StreamIds : i # id => t.stream[i] = s.stream[i]
  BY <1>1, SrvFields
<1>3. t \in Srv BY <1>1, <1>2 DEF Srv
<1> HIDE DEF t
<1>4. InRange(s) => InRange(t) BY <1>1 DEF InRange
<1>5. Fitting(s) => Fitting(t) BY <1>1 DEF Fitting
<1>6. ResetKnown(s) => ResetKnown(t)
  <2> SUFFICES ASSUME ResetKnown(s), NEW j \in DOMAIN s.ob, s.ob[j].type = "RST_STREAM"
               PROVE  t.stream[s.ob[j].id] # "idle"
    BY <1>1 DEF ResetKnown
  <2>1. s.ob[j] \in Out /\ s.stream[s.ob[j].id] # "idle" BY SrvFields DEF ResetKnown
  <2>2. s.ob[j].id \in StreamIds BY <2>1, MsgFields
  <2> QED BY <1>2, <2>1, <2>2
<1> QED BY <1>1, <1>2, <1>3, <1>4, <1>5, <1>6 DEF t

\* An update is sent.
LEMMA UpdateSent ==
  ASSUME LedgerInv, srv.ob # <<>>, NEW f, f = Head(srv.ob), NEW s, s = [srv EXCEPT !.ob = Tail(@)],
         NEW id, id = f.id, f.type = "WINDOW_UPDATE", WindowUpdateAllowed(s, id),
         srv' = AfterWindowUpdate(s, id), toPeer' = Append(toPeer, f),
         UNCHANGED <<use, iframe, fromPeer, peer, held, frames, calls>>
  PROVE  LedgerInv'
<1>0. Types /\ InRange(srv) /\ Touched /\ Within BY DEF LedgerInv
<1>1. srv \in Srv /\ toPeer \in Seq(Msg) /\ held \in [StreamIds -> Nat] BY <1>0, TypesFacts
<1>2. /\ s \in Srv /\ s.win = srv.win /\ s.stream = srv.stream /\ s.shutRd = srv.shutRd /\ s.urgent = srv.urgent
      /\ s.goaway = srv.goaway /\ s.initial = srv.initial /\ s.inflight = srv.inflight /\ s.overrun = srv.overrun
      /\ f \in Out
      /\ \A i \in Ids : /\ Updates(s.ob, i) = Updates(srv.ob, i) - IncFor(f, i)
                        /\ IncFor(f, i) \in Nat /\ IncFor(f, i) <= Updates(srv.ob, i)
                        /\ Claim(s, i) = Claim(srv, i) + IncFor(f, i) /\ Kept(s, i) = Kept(srv, i)
      /\ InRange(srv) => InRange(s)
      /\ Fitting(srv) => Fitting(s)
      /\ ResetKnown(srv) => ResetKnown(s)
  <2>1. srv \in Srv /\ srv.ob # <<>> BY <1>1
  <2>2. s = Rest(srv) BY DEF Rest
  <2> QED BY ONLY <2>1, <2>2, f = Head(srv.ob), ItemOut
<1>3. id \in Ids /\ f \in Msg /\ f.type # "SETTINGS" BY <1>2, MsgFields DEF Msg
<1>4. /\ Moves(s, srv', id) /\ srv' \in Srv /\ Claim(srv', id) = Claim(s, id)
      /\ ~use.auto => IsClosing(srv') \/ Kept(srv', id) = Kept(s, id)
  BY <1>2, <1>3, AfterWindowUpdateIs
<1>5. /\ Onward(s, srv') /\ srv'.stream = srv.stream /\ srv'.overrun = srv.overrun
      /\ \A i \in Ids : i # id => Same(s, srv', i)
  BY <1>2, <1>4 DEF Moves
<1>6. \A i \in Ids : Claim(srv', i) = Claim(srv, i) + IncFor(f, i)
  <2> TAKE i \in Ids
  <2>1. i # id => Claim(srv', i) = Claim(s, i) BY <1>5 DEF Same, Claim
  <2> QED BY <1>2, <1>4, <2>1
<1>7. \A i \in Ids : Updates(toPeer', i) = Updates(toPeer, i) + IncFor(f, i) BY <1>1, <1>3, UpdatesStep
<1>8. \A i \in Ids : Slack(i)' = Slack(i)
  <2> TAKE i \in Ids
  <2>1. Claim(srv, i) \in Int /\ Updates(toPeer, i) \in Int /\ Slack(i) \in Int BY <1>0, SlackType
  <2>2. IncFor(f, i) \in Nat BY <1>2
  <2>3. /\ Claim(srv', i) \in Int /\ Updates(toPeer', i) \in Int
        /\ Claim(srv', i) - Updates(toPeer', i) = Claim(srv, i) - Updates(toPeer, i) + 0
    <3> DEFINE c == IncFor(f, i)
               a == Claim(srv, i)
               b == Updates(toPeer, i)
    <3>1. Claim(srv', i) = a + c /\ Updates(toPeer', i) = b + c BY <1>6, <1>7
    <3>2. a \in Int /\ b \in Int /\ c \in Int BY <2>1, <2>2
    <3> HIDE DEF a, b, c
    <3>3. Claim(srv', i) \in Int /\ Updates(toPeer', i) \in Int /\ Claim(srv', i) - Updates(toPeer', i) = a - b + 0
      BY <3>1, <3>2
    <3> QED BY <3>3 DEF a, b
  <2>4. srv'.initial = srv.initial BY <1>2, <1>5 DEF Onward
  <2>5. Slack(i)' = Slack(i) + 0 BY <1>0, <2>3, <2>4, SlackFollows
  <2> QED BY <2>1, <2>5
<1>9. id # 0 => srv.stream[id] = "opened" BY <1>2 DEF WindowUpdateAllowed
<1>10. \A i \in StreamIds : srv.stream[i] = "idle" =>
         /\ srv'.stream[i] = "idle"
         /\ Updates(srv.ob, i) = 0 => Updates(srv'.ob, i) = 0
         /\ Updates(toPeer, i) = 0 => Updates(toPeer', i) = 0
  <2> SUFFICES ASSUME NEW i \in StreamIds, srv.stream[i] = "idle"
               PROVE  /\ srv'.stream[i] = "idle" /\ Updates(srv'.ob, i) = Updates(srv.ob, i)
                      /\ Updates(toPeer', i) = Updates(toPeer, i)
    OBVIOUS
  <2>1. i \in Ids /\ i # id BY <1>9, IdsAre
  <2>2. IncFor(f, i) = 0 BY <2>1 DEF IncFor, Fits
  <2>3. Updates(srv'.ob, i) = Updates(s.ob, i) BY <1>5, <2>1 DEF Same
  <2>4. Updates(srv.ob, i) \in Nat /\ Updates(toPeer, i) \in Nat BY <1>0, <1>1, <2>1, SrvFields, SlackType
  <2> QED BY <1>2, <1>5, <1>7, <2>1, <2>2, <2>3, <2>4
<1>11. IsClosing(srv) => IsClosing(srv') BY <1>2, <1>5 DEF Onward, IsClosing
<1>12. \A i \in Ids : ~use.auto /\ ~IsClosing(srv') => Kept(srv', i) = Kept(srv, i)
  <2> TAKE i \in Ids
  <2>1. i # id => Kept(srv', i) = Kept(s, i) BY <1>5 DEF Same, Kept
  <2> QED BY <1>2, <1>4, <2>1
<1>13. HeldRight' BY <1>4, <1>5, <1>11, <1>12, HeldSame
<1>14. InRange(srv') /\ ResetKnown(srv') /\ (use.initials = {} => Fitting(srv'))
  BY <1>0, <1>2, <1>5 DEF Onward, Touched, Within
<1>15. /\ srv'.shutRd = srv.shutRd /\ srv'.urgent = srv.urgent /\ srv'.initial = srv.initial
       /\ srv'.inflight = srv.inflight /\ srv'.overrun = srv.overrun
  BY <1>2, <1>5 DEF Onward
<1>16. \A i \in StreamIds : srv'.win[i].local = srv.win[i].local
  <2>1. \A i \in Ids : srv'.win[i].local = s.win[i].local BY <1>5 DEF Onward
  <2> QED BY <1>2, <2>1, IdsAre
<1>17. frames' \in Nat /\ calls' \in Nat /\ held' \in [StreamIds -> Nat] BY <1>0, <1>1 DEF Types
<1>18. \E g \in Msg : g.type # "SETTINGS" /\ toPeer' = Append(toPeer, g) BY <1>3
<1>19. \A i \in StreamIds : \/ srv'.stream[i] = srv.stream[i]
                            \/ srv'.stream[i] \in {"closing", "closed"} /\ (Live(srv', i) => Live(srv, i))
  BY <1>5
<1>20. \A i \in StreamIds : srv.stream[i] = "idle" =>
         /\ srv'.stream[i] = "idle" /\ (held[i] = 0 => held'[i] = 0)
         /\ Updates(srv.ob, i) = 0 => Updates(srv'.ob, i) = 0
         /\ Updates(toPeer, i) = 0 => Updates(toPeer', i) = 0
  BY <1>10
<1>21. \A i \in Ids : \/ Slack(i)' = Slack(i)
                      \/ Slack(i)' \in Int /\ Slack(i)' >= Slack(i) /\ ~Counted(i)'
  BY <1>8
<1>22. (use.increments = {} /\ use.sizes = {}) => \A i \in StreamIds : srv'.win[i].local = srv.win[i].local
  BY <1>16
<1>23. UNCHANGED <<use, iframe, fromPeer, peer>> /\ srv' \in Srv BY <1>4
<1> QED BY <1>11, <1>13, <1>14, <1>15, <1>17, <1>18, <1>19, <1>20, <1>21, <1>22, <1>23, ServerKeeps

\* Another item is sent, or an update is dropped.
LEMMA OtherSent ==
  ASSUME LedgerInv, srv.ob # <<>>, NEW f, f = Head(srv.ob), NEW s, s = [srv EXCEPT !.ob = Tail(@)],
         srv' \in Srv, srv'.win = s.win, srv'.ob = s.ob, srv'.shutRd = s.shutRd, srv'.urgent = s.urgent,
         srv'.initial = s.initial, srv'.inflight = s.inflight, srv'.overrun = s.overrun,
         \A i \in StreamIds : srv'.stream[i] = s.stream[i] \/ (srv'.stream[i] = "closed" /\ s.stream[i] # "idle"),
         IsClosing(s) => IsClosing(srv'), ResetKnown(s) => ResetKnown(srv'),
         \/ toPeer' = toPeer
         \/ \E g \in Msg : g.type \notin {"SETTINGS", "WINDOW_UPDATE"} /\ toPeer' = Append(toPeer, g),
         \A i \in Ids : IncFor(f, i) = 0 \/ ~Counted(i)',
         UNCHANGED <<use, iframe, fromPeer, peer, held, frames, calls>>
  PROVE  LedgerInv'
<1>0. Types /\ InRange(srv) /\ Touched /\ Within BY DEF LedgerInv
<1>1. srv \in Srv /\ toPeer \in Seq(Msg) /\ held \in [StreamIds -> Nat] BY <1>0, TypesFacts
<1>2. /\ s \in Srv /\ s.win = srv.win /\ s.stream = srv.stream /\ s.shutRd = srv.shutRd /\ s.urgent = srv.urgent
      /\ s.goaway = srv.goaway /\ s.initial = srv.initial /\ s.inflight = srv.inflight /\ s.overrun = srv.overrun
      /\ f \in Out
      /\ \A i \in Ids : /\ Updates(s.ob, i) = Updates(srv.ob, i) - IncFor(f, i)
                        /\ IncFor(f, i) \in Nat /\ IncFor(f, i) <= Updates(srv.ob, i)
                        /\ Claim(s, i) = Claim(srv, i) + IncFor(f, i) /\ Kept(s, i) = Kept(srv, i)
      /\ InRange(srv) => InRange(s)
      /\ Fitting(srv) => Fitting(s)
      /\ ResetKnown(srv) => ResetKnown(s)
  <2>1. srv \in Srv /\ srv.ob # <<>> BY <1>1
  <2>2. s = Rest(srv) BY DEF Rest
  <2> QED BY ONLY <2>1, <2>2, f = Head(srv.ob), ItemOut
<1>3. \A i \in Ids : Claim(srv', i) = Claim(s, i) /\ Kept(srv', i) = Kept(s, i) BY DEF Claim, Kept
<1>4. \A i \in Ids : Updates(toPeer', i) = Updates(toPeer, i)
  <2>1. ASSUME NEW g \in Msg, g.type # "WINDOW_UPDATE", toPeer' = Append(toPeer, g), NEW i \in Ids
        PROVE  Updates(toPeer', i) = Updates(toPeer, i)
    <3>1. IncFor(g, i) = 0 BY <2>1 DEF IncFor, Fits
    <3>2. Updates(toPeer', i) = Updates(toPeer, i) + IncFor(g, i) /\ Updates(toPeer, i) \in Nat
      BY <1>1, <2>1, UpdatesStep
    <3> QED BY <3>1, <3>2
  <2> QED BY <2>1
<1>5. \A i \in Ids : Slack(i)' \in Int /\ Slack(i)' = Slack(i) + IncFor(f, i) /\ Slack(i) \in Int /\ IncFor(f, i) \in Nat
  <2> TAKE i \in Ids
  <2>1. Claim(srv, i) \in Int /\ Updates(toPeer, i) \in Int /\ Slack(i) \in Int BY <1>0, SlackType
  <2>2. IncFor(f, i) \in Nat BY <1>2
  <2>3. /\ Claim(srv', i) \in Int /\ Updates(toPeer', i) \in Int
        /\ Claim(srv', i) - Updates(toPeer', i) = Claim(srv, i) - Updates(toPeer, i) + IncFor(f, i)
    <3> DEFINE c == IncFor(f, i)
               a == Claim(srv, i)
               b == Updates(toPeer, i)
    <3>1. Claim(srv', i) = a + c /\ Updates(toPeer', i) = b BY <1>2, <1>3, <1>4
    <3>2. a \in Int /\ b \in Int /\ c \in Int BY <2>1, <2>2
    <3> HIDE DEF a, b, c
    <3>3. Claim(srv', i) \in Int /\ Updates(toPeer', i) \in Int /\ Claim(srv', i) - Updates(toPeer', i) = a - b + c
      BY <3>1, <3>2
    <3> QED BY <3>3 DEF a, b, c
  <2>4. srv'.initial = srv.initial BY <1>2
  <2>5. Slack(i)' = Slack(i) + IncFor(f, i) BY <1>0, <2>2, <2>3, <2>4, SlackFollows
  <2> QED BY <2>1, <2>2, <2>5
<1>6. \A i \in Ids : \/ Slack(i)' = Slack(i)
                     \/ Slack(i)' \in Int /\ Slack(i)' >= Slack(i) /\ ~Counted(i)'
  <2> TAKE i \in Ids
  <2> DEFINE c == IncFor(f, i)
  <2>1. c = 0 \/ ~Counted(i)' OBVIOUS
  <2>2. Slack(i)' \in Int /\ Slack(i)' = Slack(i) + c /\ Slack(i) \in Int /\ c \in Nat BY <1>5
  <2> HIDE DEF c
  <2> QED BY <2>1, <2>2
<1>7. IsClosing(srv) => IsClosing(srv') BY <1>2 DEF IsClosing
<1>8. \A i \in StreamIds : srv'.stream[i] = "opened" => srv.stream[i] = "opened" BY <1>2
<1>9. HeldRight'
  <2>1. \A i \in Ids : Kept(srv', i) = Kept(srv, i) BY <1>2, <1>3
  <2>2. srv'.overrun = srv.overrun BY <1>2
  <2> QED BY <1>7, <1>8, <2>1, <2>2, HeldSame
<1>10. InRange(srv') /\ ResetKnown(srv') /\ (use.initials = {} => Fitting(srv'))
  <2>1. InRange(srv') BY <1>0, <1>2 DEF InRange
  <2>2. ResetKnown(srv') BY <1>0, <1>2 DEF Touched
  <2>3. use.initials = {} => Fitting(srv') BY <1>0, <1>2 DEF Within, Fitting
  <2> QED BY <2>1, <2>2, <2>3
<1>11. /\ srv'.shutRd = srv.shutRd /\ srv'.urgent = srv.urgent /\ srv'.initial = srv.initial
       /\ srv'.inflight = srv.inflight /\ srv'.overrun = srv.overrun
       /\ \A i \in StreamIds : srv'.win[i].local = srv.win[i].local
  BY <1>2
<1>12. frames' \in Nat /\ calls' \in Nat /\ held' \in [StreamIds -> Nat] BY <1>0, <1>1 DEF Types
<1>13. \/ toPeer' = toPeer
       \/ \E g \in Msg : g.type # "SETTINGS" /\ toPeer' = Append(toPeer, g)
  OBVIOUS
<1>14. \A i \in StreamIds : \/ srv'.stream[i] = srv.stream[i]
                            \/ srv'.stream[i] \in {"closing", "closed"} /\ (Live(srv', i) => Live(srv, i))
  BY <1>2 DEF Live
<1>15. \A i \in StreamIds : srv.stream[i] = "idle" =>
         /\ srv'.stream[i] = "idle" /\ (held[i] = 0 => held'[i] = 0)
         /\ Updates(srv.ob, i) = 0 => Updates(srv'.ob, i) = 0
         /\ Updates(toPeer, i) = 0 => Updates(toPeer', i) = 0
  <2> SUFFICES ASSUME NEW i \in StreamIds, srv.stream[i] = "idle"
               PROVE  /\ srv'.stream[i] = "idle" /\ (Updates(srv.ob, i) = 0 => Updates(srv'.ob, i) = 0)
                      /\ Updates(toPeer', i) = Updates(toPeer, i)
    OBVIOUS
  <2>1. srv'.stream[i] = "idle" /\ i \in Ids BY <1>2, IdsAre
  <2>2. ASSUME Updates(srv.ob, i) = 0 PROVE Updates(s.ob, i) = 0
    <3>1. IncFor(f, i) \in Nat /\ IncFor(f, i) <= Updates(srv.ob, i) BY <1>2, <2>1
    <3>2. IncFor(f, i) = 0 BY <2>2, <3>1
    <3>3. Updates(s.ob, i) = Updates(srv.ob, i) - IncFor(f, i) BY <1>2, <2>1
    <3> QED BY <2>2, <3>2, <3>3
  <2> QED BY <1>4, <2>1, <2>2
<1>16. (use.increments = {} /\ use.sizes = {}) => \A i \in StreamIds : srv'.win[i].local = srv.win[i].local
  BY <1>11
<1>17. UNCHANGED <<use, iframe, fromPeer, peer>> OBVIOUS
<1> QED BY <1>6, <1>7, <1>9, <1>10, <1>11, <1>12, <1>13, <1>14, <1>15, <1>16, <1>17, ServerKeeps

\* The queue is served.
LEMMA SendItemKeeps == ASSUME LedgerInv, Send, srv.urgent = <<>> PROVE LedgerInv'
<1> DEFINE f == Head(srv.ob)
           s == [srv EXCEPT !.ob = Tail(@)]
<1>0. Types /\ Touched BY DEF LedgerInv
<1>1. srv \in Srv /\ srv.ob \in Seq(Out) /\ srv.ob # <<>> BY <1>0, TypesFacts, SrvFields DEF Send
<1>2. Head(srv.urgent \o srv.ob) = f
  <2>1. srv.urgent \o srv.ob = srv.ob BY <1>1
  <2> QED BY <2>1
<1>3. /\ \/ /\ f.type = "WINDOW_UPDATE"
            /\ IF WindowUpdateAllowed(s, f.id)
               THEN srv' = AfterWindowUpdate(s, f.id) /\ toPeer' = Append(toPeer, f)
               ELSE srv' = s /\ UNCHANGED toPeer
         \/ /\ f.type = "RST_STREAM"
            /\ IF IsClosing(s) THEN srv' = s /\ UNCHANGED toPeer
               ELSE srv' = CloseStream(s, f.id) /\ toPeer' = Append(toPeer, f)
         \/ f.type = "GOAWAY" /\ srv' = [s EXCEPT !.goaway = "sent"] /\ toPeer' = Append(toPeer, f)
         \/ f.type = "SETTINGS"
      /\ UNCHANGED <<use, iframe, fromPeer, peer, held, frames, calls>>
  BY <1>2 DEF Send
<1>4. /\ s \in Srv /\ s.win = srv.win /\ s.stream = srv.stream /\ s.goaway = srv.goaway
      /\ f \in Out /\ f = srv.ob[1] /\ 1 \in DOMAIN srv.ob
  BY <1>1, Dequeued
<1>5. f \in Msg /\ f.type # "SETTINGS" /\ f.id \in Ids /\ (f.type = "RST_STREAM" => f.id \in StreamIds)
  BY <1>4, MsgFields DEF Msg
<1> HIDE DEF f
<1>6. CASE f.type = "WINDOW_UPDATE" /\ WindowUpdateAllowed(s, f.id) BY <1>1, <1>3, <1>6, UpdateSent DEF f
<1> HIDE DEF s
<1>7. CASE f.type = "WINDOW_UPDATE" /\ ~WindowUpdateAllowed(s, f.id)
  <2>1. srv' = s /\ toPeer' = toPeer /\ UNCHANGED <<use, iframe, fromPeer, peer, held, frames, calls>> BY <1>3, <1>7
  <2>2. \A i \in Ids : IncFor(f, i) = 0 \/ ~Counted(i)'
    <3> SUFFICES ASSUME NEW i \in Ids, Counted(i)' PROVE IncFor(f, i) = 0 OBVIOUS
    <3>1. ~IsClosing(s) /\ (i # 0 => s.stream[i] = "opened") BY <2>1 DEF Counted, IsClosing
    <3>2. f.id # i BY <1>7, <3>1 DEF WindowUpdateAllowed
    <3> QED BY <3>2 DEF IncFor, Fits
  <2> QED BY <1>1, <1>4, <2>1, <2>2, OtherSent DEF f, s
<1>8. \A i \in Ids : f.type # "WINDOW_UPDATE" => IncFor(f, i) = 0 BY DEF IncFor, Fits
<1>11. CASE f.type = "RST_STREAM" /\ IsClosing(s)
  <2>1. srv' = s /\ toPeer' = toPeer /\ UNCHANGED <<use, iframe, fromPeer, peer, held, frames, calls>> BY <1>3, <1>11
  <2>2. \A i \in Ids : IncFor(f, i) = 0 \/ ~Counted(i)' BY <1>8, <1>11
  <2> QED BY <1>1, <1>4, <2>1, <2>2, OtherSent DEF f, s
<1>9. CASE f.type = "RST_STREAM" /\ ~IsClosing(s)
  <2>1. srv' = CloseStream(s, f.id) /\ toPeer' = Append(toPeer, f) BY <1>3, <1>9
  <2>2. s.stream[f.id] # "idle" /\ f.id \in StreamIds BY <1>0, <1>4, <1>5, <1>9 DEF Touched, ResetKnown
  <2> DEFINE id == f.id
  <2> HIDE DEF id
  <2>3. /\ srv' \in Srv /\ srv'.win = s.win /\ srv'.ob = s.ob /\ srv'.shutRd = s.shutRd /\ srv'.urgent = s.urgent
        /\ srv'.goaway = s.goaway /\ srv'.initial = s.initial /\ srv'.inflight = s.inflight
        /\ srv'.overrun = s.overrun
        /\ srv'.stream[id] = "closed" /\ \A i \in StreamIds : i # id => srv'.stream[i] = s.stream[i]
        /\ ResetKnown(s) => ResetKnown(srv')
    BY <1>4, <2>1, <2>2, CloseStreamIs DEF id
  <2>4. \A i \in StreamIds : srv'.stream[i] = s.stream[i] \/ (srv'.stream[i] = "closed" /\ s.stream[i] # "idle")
    BY <2>2, <2>3 DEF id
  <2>5. IsClosing(s) => IsClosing(srv') BY <2>3 DEF IsClosing
  <2>6. \E g \in Msg : g.type \notin {"SETTINGS", "WINDOW_UPDATE"} /\ toPeer' = Append(toPeer, g)
    BY <1>5, <1>9, <2>1
  <2>7. \A i \in Ids : IncFor(f, i) = 0 \/ ~Counted(i)' BY <1>8, <1>9
  <2> QED BY <1>1, <1>3, <2>3, <2>4, <2>5, <2>6, <2>7, OtherSent DEF f, s
<1>10. CASE f.type = "GOAWAY"
  <2>1. srv' = [s EXCEPT !.goaway = "sent"] /\ toPeer' = Append(toPeer, f) BY <1>3, <1>10
  <2>2. /\ srv' \in Srv /\ srv'.win = s.win /\ srv'.ob = s.ob /\ srv'.shutRd = s.shutRd /\ srv'.urgent = s.urgent
        /\ srv'.goaway = "sent" /\ srv'.initial = s.initial /\ srv'.inflight = s.inflight
        /\ srv'.overrun = s.overrun /\ srv'.stream = s.stream
    BY <1>4, <2>1 DEF Srv
  <2>3. IsClosing(srv') /\ (ResetKnown(s) => ResetKnown(srv')) BY <2>2 DEF IsClosing, ResetKnown
  <2>4. \E g \in Msg : g.type \notin {"SETTINGS", "WINDOW_UPDATE"} /\ toPeer' = Append(toPeer, g)
    BY <1>5, <1>10, <2>1
  <2>5. \A i \in Ids : IncFor(f, i) = 0 \/ ~Counted(i)' BY <1>8, <1>10
  <2>6. \A i \in StreamIds : srv'.stream[i] = s.stream[i] \/ (srv'.stream[i] = "closed" /\ s.stream[i] # "idle")
    BY <2>2
  <2> QED BY <1>1, <1>3, <2>2, <2>3, <2>4, <2>5, <2>6, OtherSent DEF f, s
<1> QED BY <1>3, <1>5, <1>6, <1>7, <1>9, <1>10, <1>11

LEMMA HeadOfBoth ==
  ASSUME NEW S, NEW v \in Seq(S), NEW w \in Seq(S), v # <<>>
  PROVE  Head(v \o w) = Head(v)
<1>1. Len(v) \in Nat \ {0} /\ Len(w) \in Nat /\ Head(v) = v[1] BY HeadAndTail
<1>2. v \o w \in Seq(S) /\ Len(v \o w) = Len(v) + Len(w) OBVIOUS
<1>3. v \o w # <<>> BY <1>1, <1>2
<1>4. Head(v \o w) = (v \o w)[1] BY <1>2, <1>3, HeadAndTail
<1>5. (v \o w)[1] = v[1] BY <1>1
<1> QED BY <1>1, <1>4, <1>5

\* An announcement is sent: it moves from the urgent queue to the wire.
LEMMA SendSettingsKeeps == ASSUME LedgerInv, Send, srv.urgent # <<>> PROVE LedgerInv'
<1> DEFINE f == Head(srv.urgent)
<1>0. Types /\ InRange(srv) /\ Touched /\ Within /\ AckLedger BY DEF LedgerInv
<1>1. srv \in Srv /\ srv.urgent \in Seq(Announcement) /\ srv.ob \in Seq(Out) /\ toPeer \in Seq(Msg)
  BY <1>0, TypesFacts, SrvFields
<1>2. /\ f \in Announcement /\ f = srv.urgent[1] /\ Tail(srv.urgent) \in Seq(Announcement)
      /\ Len(Tail(srv.urgent)) = Len(srv.urgent) - 1 /\ Len(srv.urgent) \in Nat \ {0}
      /\ DOMAIN srv.urgent = 1..Len(srv.urgent) /\ DOMAIN Tail(srv.urgent) = 1..Len(srv.urgent) - 1
      /\ \A j \in 1..Len(srv.urgent) - 1 : Tail(srv.urgent)[j] = srv.urgent[j + 1] /\ j + 1 \in DOMAIN srv.urgent
  BY <1>1, HeadAndTail DEF Send
<1>3. f.type = "SETTINGS" /\ f \in Msg /\ f.id = 0 BY <1>2, MsgFields DEF Msg
<1>4. Head(srv.urgent \o srv.ob) = f
  <2>1. srv.urgent \in Seq(Msg) /\ srv.ob \in Seq(Msg) BY <1>1 DEF Msg
  <2> QED BY <2>1, HeadOfBoth DEF Send
<1>5. /\ srv' = [srv EXCEPT !.urgent = Tail(@)] /\ toPeer' = Append(toPeer, f)
      /\ UNCHANGED <<use, iframe, fromPeer, peer, held, frames, calls>>
  BY <1>3, <1>4 DEF Send
<1>6. /\ srv'.win = srv.win /\ srv'.stream = srv.stream /\ srv'.shutRd = srv.shutRd /\ srv'.ob = srv.ob
      /\ srv'.goaway = srv.goaway /\ srv'.initial = srv.initial /\ srv'.inflight = srv.inflight
      /\ srv'.overrun = srv.overrun /\ srv'.urgent = Tail(srv.urgent) /\ srv' \in Srv
  BY <1>1, <1>2, <1>5 DEF Srv
<1> HIDE DEF f
<1>7. /\ toPeer' \in Seq(Msg) /\ Len(toPeer') = Len(toPeer) + 1 /\ Len(toPeer) \in Nat
      /\ DOMAIN toPeer = 1..Len(toPeer) /\ DOMAIN toPeer' = 1..Len(toPeer) + 1
      /\ toPeer'[Len(toPeer) + 1] = f /\ \A j \in 1..Len(toPeer) : toPeer'[j] = toPeer[j]
  BY <1>1, <1>3, <1>5, Appended
<1>8. \A i \in Ids : Slack(i)' = Slack(i)
  <2> TAKE i \in Ids
  <2>1. Claim(srv, i) \in Int /\ Updates(toPeer, i) \in Int /\ Slack(i) \in Int BY <1>0, SlackType
  <2>2. IncFor(f, i) = 0 BY <1>3 DEF IncFor, Fits
  <2>3. Updates(toPeer', i) = Updates(toPeer, i) + 0 BY <1>1, <1>3, <1>5, <2>2, UpdatesStep
  <2>4. Claim(srv', i) = Claim(srv, i) BY <1>6 DEF Claim
  <2>5. /\ Claim(srv', i) \in Int /\ Updates(toPeer', i) \in Int
        /\ Claim(srv', i) - Updates(toPeer', i) = Claim(srv, i) - Updates(toPeer, i) + 0
    BY <2>1, <2>3, <2>4
  <2>6. Slack(i)' = Slack(i) + 0 BY <1>0, <1>5, <1>6, <2>5, SlackFollows
  <2> QED BY <2>1, <2>6
<1>9. Acknowledged' = Acknowledged /\ Acknowledged \in Nat
  <2>1. fromPeer \in Seq(In) BY <1>0, TypesFacts
  <2> QED BY <1>5, <2>1, CountStep DEF Acknowledged
<1>10. Count(toPeer', "SETTINGS") = Count(toPeer, "SETTINGS") + 1 /\ Count(toPeer, "SETTINGS") \in Nat
  <2>1. /\ Count(Append(toPeer, f), "SETTINGS") = Count(toPeer, "SETTINGS") + One(f, "SETTINGS")
        /\ Count(toPeer, "SETTINGS") \in Nat
    BY <1>1, <1>3, CountStep
  <2> QED BY <1>3, <1>5, <2>1 DEF One
<1>11. \A i : InitialAt(i)' = InitialAt(i) BY <1>5, <1>6 DEF InitialAt
<1>12. AckLedger'
  <2> DEFINE ack == Acknowledged
             sent == Count(toPeer, "SETTINGS")
             len == Len(srv.urgent)
  <2>0. ack \in Nat /\ sent \in Nat /\ len \in Nat \ {0} BY <1>2, <1>9, <1>10
  <2>1. Len(srv'.inflight) = ack + (sent + 1) + (len - 1)
    <3>1. Len(srv.inflight) = ack + sent + len BY <1>0 DEF AckLedger
    <3> HIDE DEF ack, sent, len
    <3> QED BY <1>6, <2>0, <3>1
  <2>2. peer'.initial = InitialAt(Len(fromPeer))' BY <1>0, <1>5, <1>6 DEF AckLedger, InitialAt
  <2>3. \A j \in DOMAIN toPeer' : toPeer'[j].type = "SETTINGS" =>
          toPeer'[j].inc = srv.inflight[ack + CountTo(toPeer', "SETTINGS", j)]
    <3> SUFFICES ASSUME NEW j \in DOMAIN toPeer', toPeer'[j].type = "SETTINGS"
                 PROVE  toPeer'[j].inc = srv.inflight[ack + CountTo(toPeer', "SETTINGS", j)]
      OBVIOUS
    <3>1. CASE j \in DOMAIN toPeer
      <4>1. j \in 0..Len(toPeer) /\ toPeer'[j] = toPeer[j] BY <1>7, <3>1
      <4>2. CountTo(Append(toPeer, f), "SETTINGS", j) = CountTo(toPeer, "SETTINGS", j)
        BY <1>1, <1>3, <4>1, CountToAppend
      <4> QED BY <1>0, <1>5, <3>1, <4>1, <4>2 DEF AckLedger
    <3>2. CASE j = Len(toPeer')
      <4>1. CountTo(toPeer', "SETTINGS", j) = Count(toPeer', "SETTINGS") BY <1>7, <3>2, CountToStep
      <4>2. toPeer'[j] = f BY <1>7, <3>2
      <4>3. 1 \in DOMAIN srv.urgent BY <1>2
      <4>4. srv.urgent[1].inc = srv.inflight[ack + sent + 1] BY <1>0, <4>3 DEF AckLedger
      <4>5. ack + CountTo(toPeer', "SETTINGS", j) = ack + sent + 1
        <5>1. CountTo(toPeer', "SETTINGS", j) = sent + 1 BY <1>10, <4>1
        <5> HIDE DEF ack, sent
        <5> QED BY <2>0, <5>1
      <4> QED BY <1>2, <4>2, <4>4, <4>5
    <3>3. j \in DOMAIN toPeer \/ j = Len(toPeer')
      <4> DEFINE m == Len(toPeer)
      <4>1. j \in 1..m + 1 /\ m \in Nat /\ DOMAIN toPeer = 1..m /\ Len(toPeer') = m + 1 BY <1>7
      <4> HIDE DEF m
      <4> QED BY <4>1
    <3> QED BY <3>1, <3>2, <3>3
  <2>4. \A j \in DOMAIN Tail(srv.urgent) : Tail(srv.urgent)[j].inc = srv.inflight[ack + (sent + 1) + j]
    <3> TAKE j \in DOMAIN Tail(srv.urgent)
    <3>1. Tail(srv.urgent)[j] = srv.urgent[j + 1] /\ j + 1 \in DOMAIN srv.urgent /\ j \in Int BY <1>2
    <3>2. srv.urgent[j + 1].inc = srv.inflight[ack + sent + (j + 1)] BY <1>0, <3>1 DEF AckLedger
    <3>3. ack + sent + (j + 1) = ack + (sent + 1) + j
      <4> HIDE DEF ack, sent
      <4> QED BY <2>0, <3>1
    <3> QED BY <3>1, <3>2, <3>3
  <2> QED BY <1>2, <1>6, <1>9, <1>10, <2>1, <2>2, <2>3, <2>4 DEF AckLedger
<1>13. HeldRight'
  <2>1. \A i \in Ids : Kept(srv', i) = Kept(srv, i) BY <1>6 DEF Kept
  <2>2. IsClosing(srv) => IsClosing(srv') BY <1>6 DEF IsClosing
  <2> QED BY <1>5, <1>6, <2>1, <2>2, HeldSame
<1>14. InRange(srv') /\ ResetKnown(srv') /\ (use.initials = {} => srv'.inflight = srv.inflight /\ Fitting(srv'))
  <2>1. InRange(srv') BY <1>0, <1>6 DEF InRange
  <2>2. ResetKnown(srv') BY <1>0, <1>6 DEF Touched, ResetKnown
  <2>3. use.initials = {} => Fitting(srv') BY <1>0, <1>6 DEF Within, Fitting
  <2> QED BY <1>6, <2>1, <2>2, <2>3
<1>15. IsClosing(srv) => IsClosing(srv') BY <1>6 DEF IsClosing
<1>16. \A i \in StreamIds : srv.stream[i] = "idle" =>
         /\ srv'.stream[i] = "idle" /\ (held[i] = 0 => held'[i] = 0)
         /\ Updates(srv.ob, i) = 0 => Updates(srv'.ob, i) = 0
         /\ Updates(toPeer, i) = 0 => Updates(toPeer', i) = 0
  <2> SUFFICES ASSUME NEW i \in StreamIds PROVE Updates(toPeer', i) = Updates(toPeer, i) BY <1>5, <1>6
  <2>1. IncFor(f, i) = 0 /\ i \in Ids BY <1>3, IdsAre DEF IncFor, Fits
  <2>2. Updates(toPeer', i) = Updates(toPeer, i) + IncFor(f, i) /\ Updates(toPeer, i) \in Nat
    BY <1>1, <1>3, <1>5, <2>1, UpdatesStep
  <2> QED BY <2>1, <2>2
<1>17. frames' \in Nat /\ calls' \in Nat /\ held' \in [StreamIds -> Nat] BY <1>0, <1>5, TypesFacts DEF Types
<1>18. \A i \in Ids : \/ Slack(i)' = Slack(i)
                      \/ Slack(i)' \in Int /\ Slack(i)' >= Slack(i) /\ ~Counted(i)'
  BY <1>8
<1>19. \A i \in StreamIds : \/ srv'.stream[i] = srv.stream[i]
                            \/ srv'.stream[i] \in {"closing", "closed"} /\ (Live(srv', i) => Live(srv, i))
  BY <1>6
<1>20. (use.increments = {} /\ use.sizes = {}) => \A i \in StreamIds : srv'.win[i].local = srv.win[i].local
  BY <1>6
<1>21. /\ UNCHANGED <<use, iframe, fromPeer, peer>> /\ \A i \in DOMAIN fromPeer : InitialAt(i)' = InitialAt(i)
  BY <1>5, <1>11
<1>22. toPeer' \in Seq(Msg) /\ srv' \in Srv /\ srv'.shutRd = srv.shutRd /\ srv'.initial = srv.initial
       /\ srv'.overrun = srv.overrun
  BY <1>6, <1>7
<1> QED BY <1>12, <1>13, <1>14, <1>15, <1>16, <1>17, <1>18, <1>19, <1>20, <1>21, <1>22, RestKeeps

LEMMA SendKeeps == ASSUME LedgerInv, Send PROVE LedgerInv'
BY SendItemKeeps, SendSettingsKeeps

\* Nothing is claimed and nothing is sent.
LEMMA SlackUnmoved ==
  ASSUME Types, NEW i \in Ids, UNCHANGED <<iframe, fromPeer, peer, toPeer>>, srv'.initial = srv.initial,
         Claim(srv', i) = Claim(srv, i)
  PROVE  Slack(i)' = Slack(i)
<1>1. Claim(srv, i) \in Int /\ Updates(toPeer, i) \in Int /\ Slack(i) \in Int BY SlackType
<1>2. Updates(toPeer', i) = Updates(toPeer, i) OBVIOUS
<1>3. /\ Claim(srv', i) \in Int /\ Updates(toPeer', i) \in Int
      /\ Claim(srv', i) - Updates(toPeer', i) = Claim(srv, i) - Updates(toPeer, i) + 0
  BY <1>1, <1>2
<1>4. Slack(i)' = Slack(i) + 0 BY <1>3, SlackFollows
<1> QED BY <1>1, <1>4

\* A stream ends from this side.
LEMMA FinishStreamKeeps == ASSUME LedgerInv, NEW id \in StreamIds, FinishStream(id) PROVE LedgerInv'
<1>0. Types /\ InRange(srv) /\ Touched /\ Within BY DEF LedgerInv
<1>1. /\ srv \in Srv /\ held \in [StreamIds -> Nat] /\ srv.stream[id] = "opened" /\ id \in Ids
      /\ UNCHANGED <<use, iframe, fromPeer, toPeer, peer, held, frames>>
  BY <1>0, TypesFacts, IdsAre DEF FinishStream
<1>2. /\ srv' \in Srv /\ srv'.shutRd = srv.shutRd /\ srv'.urgent = srv.urgent
      /\ srv'.initial = srv.initial /\ srv'.inflight = srv.inflight /\ srv'.overrun = srv.overrun
      /\ srv'.stream[id] \in {"closing", "closed"} /\ \A i \in StreamIds : i # id => srv'.stream[i] = srv.stream[i]
      /\ srv'.goaway = srv.goaway /\ srv'.win = srv.win /\ \A i \in Ids : Updates(srv'.ob, i) = Updates(srv.ob, i)
      /\ InRange(srv') /\ (Fitting(srv) => Fitting(srv')) /\ ResetKnown(srv')
  <2>0. srv.stream[id] # "idle" /\ ResetKnown(srv) BY <1>0, <1>1 DEF Touched
  <2>1. CASE srv' = CloseStream(srv, id) BY <1>0, <1>1, <2>0, <2>1, CloseStreamIs
  <2>2. CASE srv' = AddRst(srv, id)
    <3>1. /\ Onward(srv, srv') /\ srv'.stream[id] # "opened"
          /\ \A i \in Ids : i # id => Same(srv, srv', i)
          /\ srv'.win = srv.win /\ Updates(srv'.ob, id) = Updates(srv.ob, id)
          /\ srv'.overrun = srv.overrun /\ srv'.goaway = srv.goaway
      BY <1>1, <2>0, <2>2, AddRstIs
    <3>2. /\ srv' \in Srv /\ srv'.shutRd = srv.shutRd /\ srv'.urgent = srv.urgent
          /\ srv'.initial = srv.initial /\ srv'.inflight = srv.inflight
          /\ InRange(srv') /\ (Fitting(srv) => Fitting(srv')) /\ ResetKnown(srv')
          /\ srv'.stream[id] \in {"closing", "closed"}
      BY <1>0, <1>1, <2>0, <3>1 DEF Onward
    <3>3. \A i \in StreamIds : i # id => srv'.stream[i] = srv.stream[i] BY <3>1, IdsAre DEF Same
    <3>4. \A i \in Ids : Updates(srv'.ob, i) = Updates(srv.ob, i) BY <3>1 DEF Same
    <3> QED BY <3>1, <3>2, <3>3, <3>4
  <2> QED BY <2>1, <2>2 DEF FinishStream
<1>3. \A i \in Ids : Claim(srv', i) = Claim(srv, i) /\ Kept(srv', i) = Kept(srv, i) BY <1>2 DEF Claim, Kept
<1>4. \A i \in Ids : \/ Slack(i)' = Slack(i)
                     \/ Slack(i)' \in Int /\ Slack(i)' >= Slack(i) /\ ~Counted(i)'
  BY <1>0, <1>1, <1>2, <1>3, SlackUnmoved
<1>5. IsClosing(srv) => IsClosing(srv') BY <1>2 DEF IsClosing
<1>6. \A i \in StreamIds : srv'.stream[i] = "opened" => srv.stream[i] = "opened" BY <1>2
<1>7. HeldRight' BY <1>1, <1>2, <1>3, <1>5, <1>6, HeldSame
<1>8. use.initials = {} => Fitting(srv') BY <1>0, <1>2 DEF Within
<1>9. frames' \in Nat /\ calls' \in Nat /\ held' \in [StreamIds -> Nat] BY <1>0, <1>1 DEF Types, FinishStream
<1>10. \A i \in StreamIds : \/ srv'.stream[i] = srv.stream[i]
                            \/ srv'.stream[i] \in {"closing", "closed"} /\ (Live(srv', i) => Live(srv, i))
  BY <1>1, <1>2 DEF Live
<1>11. \A i \in StreamIds : srv.stream[i] = "idle" =>
         /\ srv'.stream[i] = "idle" /\ (held[i] = 0 => held'[i] = 0)
         /\ Updates(srv.ob, i) = 0 => Updates(srv'.ob, i) = 0
         /\ Updates(toPeer, i) = 0 => Updates(toPeer', i) = 0
  BY <1>1, <1>2, IdsAre
<1>12. (use.increments = {} /\ use.sizes = {}) => \A i \in StreamIds : srv'.win[i].local = srv.win[i].local
  BY <1>2
<1>13. UNCHANGED <<use, iframe, fromPeer, peer>> /\ toPeer' = toPeer BY <1>1
<1> QED BY <1>2, <1>4, <1>5, <1>7, <1>8, <1>9, <1>10, <1>11, <1>12, <1>13, ServerKeeps

\* The application consumes what it holds: the windows count it as given back.
LEMMA ConsumeHeldKeeps ==
  ASSUME LedgerInv, NEW id \in StreamIds, NEW n \in 1..held[id], ConsumeHeld(id, n)
  PROVE  LedgerInv'
<1>0. Types /\ InRange(srv) /\ Touched /\ Within /\ HeldRight BY DEF LedgerInv
<1>1. /\ srv \in Srv /\ held \in [StreamIds -> Nat] /\ id \in Ids /\ id # 0 /\ 0 \in Ids /\ n \in Nat \ {0}
      /\ held[id] \in Nat /\ n <= held[id] /\ ~use.auto
      /\ srv' = Consume(srv, id, n) /\ held' = [held EXCEPT ![id] = @ - n]
      /\ UNCHANGED <<use, iframe, fromPeer, toPeer, peer, frames, calls>>
  BY <1>0, TypesFacts, IdsAre DEF ConsumeHeld
<1>2. /\ Onward(srv, srv') /\ srv' \in Srv /\ srv'.stream = srv.stream /\ srv'.overrun = srv.overrun
      /\ \A i \in Ids : i \notin {0, id} => Same(srv, srv', i)
      /\ \A i \in Ids : Claim(srv', i) = Claim(srv, i)
      /\ ~Live(srv, id) => Same(srv, srv', id)
      /\ IsClosing(srv') \/ (/\ Kept(srv', 0) = Kept(srv, 0) - n
                             /\ Live(srv, id) => Kept(srv', id) = Kept(srv, id) - n)
  BY <1>1, ConsumeIs
<1>3. /\ srv'.shutRd = srv.shutRd /\ srv'.urgent = srv.urgent /\ srv'.initial = srv.initial
      /\ srv'.inflight = srv.inflight /\ InRange(srv') /\ (Fitting(srv) => Fitting(srv')) /\ ResetKnown(srv')
      /\ \A i \in StreamIds : srv'.win[i].local = srv.win[i].local
  BY <1>0, <1>2, IdsAre DEF Onward, Touched
<1>4. IsClosing(srv) => IsClosing(srv') BY <1>2 DEF IsClosing, Onward
<1>5. held' \in [StreamIds -> Nat] /\ held'[id] = held[id] - n /\ \A i \in StreamIds \ {id} : held'[i] = held[i]
  BY <1>1
<1>6. HeldBytes \in Int /\ HeldBytes' = HeldBytes - n
  <2>1. held' \in [StreamIds -> Int] BY <1>5
  <2>2. HeldBytes \in Int /\ HeldBytes' = HeldBytes - held[id] + held'[id] BY <1>0, <1>5, <2>1, HeldChange
  <2> QED BY <1>1, <1>5, <2>2
<1>7. HeldRight'
  <2> SUFFICES ASSUME use.increments = {}, use.sizes = {}
               PROVE  /\ ~IsClosing(srv)' => Kept(srv, 0)' = HeldBytes'
                      /\ \A s \in StreamIds : Counted(s)' => Kept(srv, s)' = held'[s]
    BY <1>1 DEF HeldRight
  <2>1. /\ ~IsClosing(srv) => Kept(srv, 0) = HeldBytes
        /\ \A s \in StreamIds : Counted(s) => Kept(srv, s) = held[s]
    BY <1>0, <1>1 DEF HeldRight
  <2>2. (IsClosing(srv)' <=> IsClosing(srv')) /\ \A i : Kept(srv, i)' = Kept(srv', i) BY DEF IsClosing, Kept
  <2>3. ASSUME ~IsClosing(srv') PROVE Kept(srv', 0) = HeldBytes'
    <3>1. Kept(srv, 0) = HeldBytes /\ Kept(srv', 0) = Kept(srv, 0) - n BY <1>2, <1>4, <2>1, <2>3
    <3> QED BY <1>6, <3>1
  <2>4. ASSUME NEW s \in StreamIds, Counted(s)' PROVE Kept(srv', s) = held'[s]
    <3>1. ~IsClosing(srv') /\ srv.stream[s] = "opened" /\ s \notin srv.overrun /\ s \in Ids /\ s # 0
      BY <1>2, <2>2, <2>4, IdsAre DEF Counted
    <3>2. Counted(s) BY <1>4, <3>1 DEF Counted
    <3>3. Kept(srv, s) = held[s] BY <2>1, <3>2
    <3>4. CASE s = id
      <4>1. Live(srv, id) BY <3>1, <3>4 DEF Live
      <4>2. Kept(srv', id) = Kept(srv, id) - n BY <1>2, <3>1, <4>1
      <4> QED BY <1>5, <3>3, <3>4, <4>2
    <3>5. CASE s # id
      <4>1. Kept(srv', s) = Kept(srv, s) BY <1>2, <3>1, <3>5 DEF Same, Kept
      <4> QED BY <1>5, <3>3, <3>5, <4>1
    <3> QED BY <3>4, <3>5
  <2> QED BY <2>2, <2>3, <2>4
<1>8. \A i \in Ids : \/ Slack(i)' = Slack(i)
                     \/ Slack(i)' \in Int /\ Slack(i)' >= Slack(i) /\ ~Counted(i)'
  BY <1>0, <1>1, <1>2, <1>3, SlackUnmoved
<1>9. use.initials = {} => Fitting(srv') BY <1>0, <1>3 DEF Within
<1>10. frames' \in Nat /\ calls' \in Nat BY <1>0, <1>1 DEF Types
<1>11. \A i \in StreamIds : \/ srv'.stream[i] = srv.stream[i]
                            \/ srv'.stream[i] \in {"closing", "closed"} /\ (Live(srv', i) => Live(srv, i))
  BY <1>2
<1>12. \A i \in StreamIds : srv.stream[i] = "idle" =>
         /\ srv'.stream[i] = "idle" /\ (held[i] = 0 => held'[i] = 0)
         /\ Updates(srv.ob, i) = 0 => Updates(srv'.ob, i) = 0
         /\ Updates(toPeer, i) = 0 => Updates(toPeer', i) = 0
  <2> SUFFICES ASSUME NEW i \in StreamIds, srv.stream[i] = "idle"
               PROVE  (held[i] = 0 => held'[i] = 0) /\ Updates(srv'.ob, i) = Updates(srv.ob, i)
    BY <1>1, <1>2
  <2>1. i \in Ids /\ i # 0 BY IdsAre
  <2>2. held[i] = 0 => held'[i] = 0 BY <1>1, <1>5
  <2>3. i = id => ~Live(srv, id) BY DEF Live
  <2>4. Same(srv, srv', i) BY <1>2, <2>1, <2>3
  <2> QED BY <2>2, <2>4 DEF Same
<1>13. (use.increments = {} /\ use.sizes = {}) => \A i \in StreamIds : srv'.win[i].local = srv.win[i].local
  BY <1>3
<1>14. UNCHANGED <<use, iframe, fromPeer, peer>> /\ toPeer' = toPeer BY <1>1
<1> QED BY <1>2, <1>3, <1>4, <1>5, <1>7, <1>8, <1>9, <1>10, <1>11, <1>12, <1>13, <1>14, ServerKeeps

\* One window is given another size.
Resized(s, id, w) == [s EXCEPT !.win[id] = w]
LEMMA ResizedIs ==
  ASSUME NEW s \in Srv, NEW id \in Ids, NEW w \in Win
  PROVE  LET t == Resized(s, id, w)
         IN /\ t \in Srv /\ t.win[id] = w /\ \A i \in Ids : i # id => t.win[i] = s.win[i]
            /\ t.stream = s.stream /\ t.shutRd = s.shutRd /\ t.urgent = s.urgent /\ t.ob = s.ob /\ t.goaway = s.goaway
            /\ t.initial = s.initial /\ t.inflight = s.inflight /\ t.overrun = s.overrun
<1> DEFINE t == Resized(s, id, w)
<1>1. /\ t.win = [s.win EXCEPT ![id] = w] /\ t.stream = s.stream /\ t.shutRd = s.shutRd /\ t.urgent = s.urgent
      /\ t.ob = s.ob /\ t.goaway = s.goaway /\ t.initial = s.initial /\ t.inflight = s.inflight
      /\ t.overrun = s.overrun /\ t = [s EXCEPT !.win = t.win]
  BY DEF Resized, Srv
<1>2. t.win \in [Ids -> Win] /\ t.win[id] = w /\ \A i \in Ids : i # id => t.win[i] = s.win[i]
  BY <1>1, SrvFields
<1>3. t \in Srv BY <1>1, <1>2 DEF Srv
<1> HIDE DEF t
<1> QED BY <1>1, <1>2, <1>3 DEF t

\* The application resizes a window, and what it gains is announced.
LEMMA ResizedKeeps ==
  ASSUME LedgerInv, NEW id \in Ids, id = 0 \/ Live(srv, id), NEW w \in Win, NEW n \in Nat,
         w.local - w.recv - n = srv.win[id].local - srv.win[id].recv,
         w.local <= MaxWindow, Apart => w.recv <= MaxWindow /\ n <= MaxWindow,
         w.consumed \in 0..MaxWindow, w.reduction >= 0, use.initials = {} => w.recv <= w.local /\ w.local >= 0,
         use.increments # {} \/ use.sizes # {},
         NEW s, s = Resized(srv, id, w),
         \/ n = 0 /\ srv' = s
         \/ n > 0 /\ srv' = AddWindowUpdate(s, id, n),
         calls' \in Nat, UNCHANGED <<use, iframe, fromPeer, toPeer, peer, held, frames>>
  PROVE  LedgerInv'
<1>0. Types /\ InRange(srv) /\ Touched /\ Within BY DEF LedgerInv
<1>1. srv \in Srv /\ held \in [StreamIds -> Nat] BY <1>0, TypesFacts
<1>2. /\ s \in Srv /\ s.win[id] = w /\ \A i \in Ids : i # id => s.win[i] = srv.win[i]
      /\ s.stream = srv.stream /\ s.shutRd = srv.shutRd /\ s.urgent = srv.urgent /\ s.ob = srv.ob
      /\ s.goaway = srv.goaway /\ s.initial = srv.initial /\ s.inflight = srv.inflight /\ s.overrun = srv.overrun
  BY <1>1, ResizedIs
<1>3. InRange(s)
  <2>1. \A i \in Ids : /\ s.win[i].local <= MaxWindow /\ (Apart => s.win[i].recv <= MaxWindow)
                       /\ s.win[i].consumed \in 0..MaxWindow /\ s.win[i].reduction >= 0
    <3> TAKE i \in Ids
    <3>1. CASE i = id BY <1>2, <3>1
    <3>2. CASE i # id BY <1>0, <1>2, <3>2 DEF InRange
    <3> QED BY <3>1, <3>2
  <2>2. Apart => \A i \in DOMAIN s.ob : s.ob[i].inc <= MaxWindow BY <1>0, <1>2 DEF InRange
  <2> QED BY <2>1, <2>2 DEF InRange
<1>4. use.initials = {} => Fitting(s)
  <2> SUFFICES ASSUME use.initials = {}, NEW i \in Ids PROVE s.win[i].recv <= s.win[i].local /\ s.win[i].local >= 0
    BY DEF Fitting
  <2>1. CASE i = id BY <1>2, <2>1
  <2>2. CASE i # id BY <1>0, <1>2, <2>2 DEF Within, Fitting
  <2> QED BY <2>1, <2>2
<1>5. ResetKnown(s) BY <1>0, <1>2 DEF Touched, ResetKnown
<1>6. /\ srv' \in Srv /\ Onward(s, srv') /\ srv'.stream = srv.stream /\ srv'.overrun = srv.overrun
      /\ Updates(srv'.ob, id) = Updates(srv.ob, id) + n
      /\ srv'.win[id].local = w.local /\ srv'.win[id].recv = w.recv /\ \A i \in Ids : i # id => Same(s, srv', i)
  <2>1. CASE n = 0 /\ srv' = s
    <3>1. Updates(srv.ob, id) \in Nat BY <1>1, SrvFields
    <3> QED BY <1>2, <2>1, <3>1, OnwardSame DEF Same
  <2>2. CASE n > 0 /\ srv' = AddWindowUpdate(s, id, n)
    <3>1. n \in Nat \ {0} /\ (InRange(s) /\ Apart => n <= MaxWindow) BY <2>2
    <3>2. /\ Moves(s, srv', id) /\ srv' \in Srv /\ Updates(srv'.ob, id) = Updates(s.ob, id) + n
          /\ srv'.win[id].local = s.win[id].local /\ srv'.win[id].recv = s.win[id].recv
      BY <1>2, <2>2, <3>1, AddWindowUpdateIs
    <3> QED BY <1>2, <3>2 DEF Moves
  <2> QED BY <2>1, <2>2
<1>7. \A i \in Ids : Claim(srv', i) = Claim(srv, i)
  <2> TAKE i \in Ids
  <2>1. CASE i # id
    <3>1. srv'.win[i] = srv.win[i] /\ Updates(srv'.ob, i) = Updates(srv.ob, i) BY <1>2, <1>6, <2>1 DEF Same
    <3> QED BY <3>1 DEF Claim
  <2>2. CASE i = id
    <3> DEFINE a == srv.win[id].local
               b == srv.win[id].recv
               u == Updates(srv.ob, id)
               c == w.local
               e == w.recv
    <3>1. a \in Int /\ b \in Int /\ u \in Int BY <1>1, SrvFields
    <3>2. c \in Int /\ e \in Int /\ c - e - n = a - b BY DEF Win
    <3>3. Claim(srv', id) = c - e - (u + n) /\ Claim(srv, id) = a - b - u BY <1>6 DEF Claim
    <3> HIDE DEF a, b, c, e, u
    <3> QED BY <2>2, <3>1, <3>2, <3>3
  <2> QED BY <2>1, <2>2
<1>8. /\ srv'.shutRd = srv.shutRd /\ srv'.urgent = srv.urgent /\ srv'.initial = srv.initial
      /\ srv'.inflight = srv.inflight /\ InRange(srv') /\ (use.initials = {} => Fitting(srv')) /\ ResetKnown(srv')
  BY <1>2, <1>3, <1>4, <1>5, <1>6 DEF Onward
<1>9. IsClosing(srv) => IsClosing(srv') BY <1>2, <1>6 DEF IsClosing, Onward
<1>10. \A i \in Ids : \/ Slack(i)' = Slack(i)
                      \/ Slack(i)' \in Int /\ Slack(i)' >= Slack(i) /\ ~Counted(i)'
  BY <1>0, <1>7, <1>8, SlackUnmoved
<1>11. HeldRight' BY DEF HeldRight
<1>12. frames' \in Nat /\ held' \in [StreamIds -> Nat] BY <1>0, <1>1 DEF Types
<1>13. \A i \in StreamIds : \/ srv'.stream[i] = srv.stream[i]
                            \/ srv'.stream[i] \in {"closing", "closed"} /\ (Live(srv', i) => Live(srv, i))
  BY <1>6
<1>14. \A i \in StreamIds : srv.stream[i] = "idle" =>
         /\ srv'.stream[i] = "idle" /\ (held[i] = 0 => held'[i] = 0)
         /\ Updates(srv.ob, i) = 0 => Updates(srv'.ob, i) = 0
         /\ Updates(toPeer, i) = 0 => Updates(toPeer', i) = 0
  <2> SUFFICES ASSUME NEW i \in StreamIds, srv.stream[i] = "idle" PROVE Updates(srv'.ob, i) = Updates(srv.ob, i)
    BY <1>6
  <2>1. i \in Ids /\ i # id BY IdsAre DEF Live
  <2> QED BY <1>2, <1>6, <2>1 DEF Same
<1>15. (use.increments = {} /\ use.sizes = {}) => \A i \in StreamIds : srv'.win[i].local = srv.win[i].local
  OBVIOUS
<1>16. UNCHANGED <<use, iframe, fromPeer, peer>> /\ toPeer' = toPeer OBVIOUS
<1> QED BY <1>6, <1>8, <1>9, <1>10, <1>11, <1>12, <1>13, <1>14, <1>15, <1>16, ServerKeeps

\* A window with other counts
Counts(w, l, r, k) == [w EXCEPT !.local = l, !.recv = r, !.reduction = k]
LEMMA WindowWith ==
  ASSUME NEW w \in Win, NEW l \in Int, NEW r \in Int, NEW k \in Int
  PROVE  LET v == Counts(w, l, r, k)
         IN v \in Win /\ v.local = l /\ v.recv = r /\ v.reduction = k /\ v.consumed = w.consumed
BY DEF Win, Counts

\* What is gained is what is left to announce, and the debt of an earlier reduction is paid first.
LEMMA AdjustIs ==
  ASSUME NEW w \in Win, NEW d \in Int, d # 0, d <= MaxWindow, ~AdjustFails(w, d), w.reduction >= 0, w.local <= MaxWindow
  PROVE  LET a == Adjust(w, d)
         IN /\ a.win \in Win /\ a.inc \in Nat /\ a.inc <= MaxWindow
            /\ a.win.local - a.win.recv - a.inc = w.local - w.recv
            /\ a.win.local <= MaxWindow /\ a.win.consumed = w.consumed /\ a.win.reduction >= 0
            /\ w.recv <= MaxWindow => a.win.recv <= MaxWindow
            /\ (w.recv <= w.local /\ w.local >= 0) => (a.win.recv <= a.win.local /\ a.win.local >= 0)
<1> DEFINE a == Adjust(w, d)
           grow == d - Greatest(0, w.recv)
           paid == Least(w.reduction, grow)
<1>0. w.local \in Int /\ w.recv \in Int /\ w.consumed \in Int /\ w.reduction \in Int /\ MaxWindow \in Nat
  BY IdsAre DEF Win
<1>1. grow \in Int /\ grow <= d /\ (w.recv < 0 => grow = d) /\ (w.recv >= 0 => grow = d - w.recv)
  BY <1>0 DEF Greatest
<1> HIDE DEF grow
<1>2. paid \in Int /\ paid <= grow /\ paid <= w.reduction /\ (grow >= 0 => paid >= 0) BY <1>0, <1>1 DEF Least
<1> HIDE DEF paid
<1>3. CASE d < 0
  <2>1. a.inc = 0 /\ a.win = Counts(w, w.local + d, w.recv + d, w.reduction - d)
    BY <1>3 DEF Adjust, Counts
  <2>2. /\ a.win \in Win /\ a.win.local = w.local + d /\ a.win.recv = w.recv + d /\ a.win.reduction = w.reduction - d
        /\ a.win.consumed = w.consumed
    <3>1. w.local + d \in Int /\ w.recv + d \in Int /\ w.reduction - d \in Int BY <1>0
    <3> QED BY <2>1, <3>1, WindowWith
  <2>3. ~(w.local + d < 0) BY <1>3, <1>0 DEF AdjustFails
  <2> HIDE DEF a
  <2>4. /\ a.win \in Win /\ a.inc \in Nat /\ a.inc <= MaxWindow
        /\ a.win.local - a.win.recv - a.inc = w.local - w.recv
        /\ a.win.local <= MaxWindow /\ a.win.consumed = w.consumed /\ a.win.reduction >= 0
        /\ w.recv <= MaxWindow => a.win.recv <= MaxWindow
        /\ (w.recv <= w.local /\ w.local >= 0) => (a.win.recv <= a.win.local /\ a.win.local >= 0)
    BY <1>0, <1>3, <2>1, <2>2, <2>3
  <2> QED BY <2>4 DEF a
<1>4. CASE d > 0 /\ grow <= 0
  <2>1. a = [win |-> [w EXCEPT !.recv = -grow], inc |-> d] BY <1>4 DEF Adjust, grow
  <2>2. /\ a.inc = d /\ a.win \in Win /\ a.win.local = w.local /\ a.win.recv = -grow /\ a.win.reduction = w.reduction
        /\ a.win.consumed = w.consumed
    BY <1>0, <1>1, <2>1 DEF Win
  <2>3. w.recv >= 0 /\ -grow = w.recv - d BY <1>0, <1>1, <1>4
  <2> HIDE DEF a
  <2>4. /\ a.win \in Win /\ a.inc \in Nat /\ a.inc <= MaxWindow
        /\ a.win.local - a.win.recv - a.inc = w.local - w.recv
        /\ a.win.local <= MaxWindow /\ a.win.consumed = w.consumed /\ a.win.reduction >= 0
        /\ w.recv <= MaxWindow => a.win.recv <= MaxWindow
        /\ (w.recv <= w.local /\ w.local >= 0) => (a.win.recv <= a.win.local /\ a.win.local >= 0)
    BY <1>0, <1>4, <2>2, <2>3
  <2> QED BY <2>4 DEF a
<1>5. CASE d > 0 /\ grow > 0
  <2> DEFINE r == IF w.recv < 0 THEN w.recv + paid ELSE paid
  <2>0. r \in Int /\ (w.recv < 0 => r = w.recv + paid) /\ (w.recv >= 0 => r = paid) BY <1>0, <1>2
  <2>1. a = [win |-> [w EXCEPT !.local = w.local + grow, !.reduction = w.reduction - paid, !.recv = r],
             inc |-> d - paid]
    <3>1. ~(d < 0) /\ ~(grow <= 0) BY <1>1, <1>5
    <3> QED BY <1>5, <3>1 DEF Adjust, grow, paid
  <2> HIDE DEF r, a
  <2>3. a.inc = d - paid /\ a.win = Counts(w, w.local + grow, r, w.reduction - paid)
    <3>1. [w EXCEPT !.local = w.local + grow, !.reduction = w.reduction - paid, !.recv = r]
            = Counts(w, w.local + grow, r, w.reduction - paid)
      BY DEF Win, Counts
    <3> QED BY <2>1, <3>1
  <2>2. /\ a.inc = d - paid /\ a.win \in Win /\ a.win.local = w.local + grow /\ a.win.recv = r
        /\ a.win.reduction = w.reduction - paid /\ a.win.consumed = w.consumed
    <3>1. w.local + grow \in Int /\ w.reduction - paid \in Int BY <1>0, <1>1, <1>2
    <3> QED BY <2>0, <2>3, <3>1, WindowWith
  <2>4. ~(w.local > MaxWindow - grow)
    <3>1. d > Greatest(0, w.recv) BY <1>0, <1>5 DEF grow, Greatest
    <3> QED BY <1>5, <3>1 DEF AdjustFails, grow
  <2>5. /\ a.win \in Win /\ a.inc \in Nat /\ a.inc <= MaxWindow
        /\ a.win.local - a.win.recv - a.inc = w.local - w.recv
    BY <1>0, <1>1, <1>2, <1>5, <2>0, <2>2
  <2>6. a.win.local <= MaxWindow /\ a.win.consumed = w.consumed /\ a.win.reduction >= 0
    BY <1>0, <1>1, <1>2, <1>5, <2>2, <2>4
  <2>7. /\ w.recv <= MaxWindow => a.win.recv <= MaxWindow
        /\ (w.recv <= w.local /\ w.local >= 0) => (a.win.recv <= a.win.local /\ a.win.local >= 0)
    BY <1>0, <1>1, <1>2, <1>5, <2>0, <2>2
  <2> QED BY <2>5, <2>6, <2>7 DEF a
<1> QED BY <1>1, <1>3, <1>4, <1>5

\* The same of a window that is set to more than it has.
LEMMA IncreaseIs ==
  ASSUME NEW w \in Win, NEW d \in Nat \ {0}, w.reduction >= 0, w.local + d <= MaxWindow
  PROVE  LET a == Increase(w, d)
         IN /\ a.win \in Win /\ a.inc \in Nat /\ a.inc <= d /\ a.win.local = w.local + d
            /\ a.win.local - a.win.recv - a.inc = w.local - w.recv
            /\ a.win.consumed = w.consumed /\ a.win.reduction >= 0
            /\ w.recv <= w.local => a.win.recv <= a.win.local
<1> DEFINE a == Increase(w, d)
           paid == Least(w.reduction, d)
<1>0. w.local \in Int /\ w.recv \in Int /\ w.consumed \in Int /\ w.reduction \in Int BY DEF Win
<1>1. paid \in Nat /\ paid <= d /\ paid <= w.reduction BY <1>0 DEF Least
<1>2. a.inc = d - paid /\ a.win = Counts(w, w.local + d, w.recv + paid, w.reduction - paid)
  <2>1. a = [win |-> [w EXCEPT !.local = w.local + d, !.reduction = w.reduction - paid, !.recv = w.recv + paid],
             inc |-> d - paid]
    BY DEF Increase
  <2>2. [w EXCEPT !.local = w.local + d, !.reduction = w.reduction - paid, !.recv = w.recv + paid]
          = Counts(w, w.local + d, w.recv + paid, w.reduction - paid)
    BY DEF Win, Counts
  <2> QED BY <2>1, <2>2
<1> HIDE DEF paid, a
<1>3. /\ a.inc = d - paid /\ a.win \in Win /\ a.win.local = w.local + d /\ a.win.recv = w.recv + paid
      /\ a.win.reduction = w.reduction - paid /\ a.win.consumed = w.consumed
  <2> DEFINE l == w.local + d
             v == w.recv + paid
             n == w.reduction - paid
             x == Counts(w, l, v, n)
  <2>1. l \in Int /\ v \in Int /\ n \in Int BY <1>0, <1>1
  <2>2. a.inc = d - paid /\ a.win = x BY <1>2
  <2> HIDE DEF l, v, n
  <2>3. x \in Win /\ x.local = l /\ x.recv = v /\ x.reduction = n /\ x.consumed = w.consumed BY <2>1, WindowWith
  <2> QED BY <2>2, <2>3 DEF l, v, n
<1>4. /\ a.win \in Win /\ a.inc \in Nat /\ a.inc <= d /\ a.win.local = w.local + d
      /\ a.win.local - a.win.recv - a.inc = w.local - w.recv
      /\ a.win.consumed = w.consumed /\ a.win.reduction >= 0
      /\ w.recv <= w.local => a.win.recv <= a.win.local
  BY <1>0, <1>1, <1>3
<1> QED BY <1>4 DEF a

\* nghttp2_session_set_local_window_size keeps the ledgers.
LEMMA SetLocalWindowSizeKeeps ==
  ASSUME LedgerInv, NEW id \in Ids, NEW size \in use.sizes, SetLocalWindowSize(id, size)
  PROVE  LedgerInv'
<1> DEFINE w == srv.win[id]
           d == size - w.local
           a == IF d < 0 THEN Adjust(w, d) ELSE Increase(w, d)
           s == Resized(srv, id, a.win)
<1>0. Types /\ InRange(srv) /\ Within /\ use \in Uses BY DEF LedgerInv, Types
<1>1. srv \in Srv /\ w \in Win /\ use.sizes \subseteq 0..MaxWindow /\ MaxWindow \in Nat
  BY <1>0, TypesFacts, SrvFields, SizesAssumption
<1>2. /\ w.local \in Int /\ w.recv \in Int /\ size \in 0..MaxWindow /\ d \in Int
      /\ w.local <= MaxWindow /\ (Apart => w.recv <= MaxWindow) /\ w.consumed \in 0..MaxWindow /\ w.reduction >= 0
  BY <1>0, <1>1 DEF InRange, Win
<1>3. /\ calls \in Nat /\ calls' = calls + 1 /\ (id = 0 \/ Live(srv, id)) /\ d # 0 /\ (d < 0 => ~AdjustFails(w, d))
      /\ srv' = IF a.inc > 0 THEN AddWindowUpdate(s, id, a.inc) ELSE s
      /\ UNCHANGED <<use, iframe, fromPeer, toPeer, peer, held, frames>>
  BY <1>0 DEF SetLocalWindowSize, Types, Resized
<1>4. use.initials = {} => w.recv <= w.local /\ w.local >= 0 BY <1>0 DEF Within, Fitting
<1>5. Apart => use.initials = {} BY DEF Apart
<1>6. d < 0 \/ d \in Nat \ {0} BY <1>2, <1>3
<1>7. w.local + d = size BY <1>2
<1> HIDE DEF s, w, d
<1>8. /\ a.win \in Win /\ a.inc \in Nat /\ (Apart => a.inc <= MaxWindow)
      /\ a.win.local - a.win.recv - a.inc = w.local - w.recv
      /\ a.win.local <= MaxWindow /\ a.win.consumed = w.consumed /\ a.win.reduction >= 0
      /\ Apart => a.win.recv <= MaxWindow
      /\ use.initials = {} => (a.win.recv <= a.win.local /\ a.win.local >= 0)
  <2>1. CASE d < 0
    <3>1. a = Adjust(w, d) /\ ~AdjustFails(w, d) /\ d <= MaxWindow BY <1>1, <1>2, <1>3, <2>1
    <3> HIDE DEF a
    <3>2. /\ a.win \in Win /\ a.inc \in Nat /\ a.inc <= MaxWindow
          /\ a.win.local - a.win.recv - a.inc = w.local - w.recv
          /\ a.win.local <= MaxWindow /\ a.win.consumed = w.consumed /\ a.win.reduction >= 0
          /\ w.recv <= MaxWindow => a.win.recv <= MaxWindow
          /\ (w.recv <= w.local /\ w.local >= 0) => (a.win.recv <= a.win.local /\ a.win.local >= 0)
      BY <1>1, <1>2, <1>3, <3>1, AdjustIs
    <3> QED BY <1>2, <1>4, <3>2
  <2>2. CASE d \in Nat \ {0}
    <3>1. a = Increase(w, d) /\ w.local + d <= MaxWindow BY <1>2, <1>7, <2>2
    <3> HIDE DEF a
    <3>2. /\ a.win \in Win /\ a.inc \in Nat /\ a.inc <= d /\ a.win.local = w.local + d
          /\ a.win.local - a.win.recv - a.inc = w.local - w.recv
          /\ a.win.consumed = w.consumed /\ a.win.reduction >= 0
          /\ w.recv <= w.local => a.win.recv <= a.win.local
      BY <1>1, <1>2, <2>2, <3>1, IncreaseIs
    <3>3. a.win.recv \in Int BY <3>2 DEF Win
    <3>4. use.initials = {} => (a.win.recv <= a.win.local /\ a.win.local >= 0) BY <1>2, <1>4, <1>7, <3>2
    <3>5. Apart => (a.win.recv <= MaxWindow /\ a.inc <= MaxWindow)
      BY <1>1, <1>2, <1>4, <1>5, <1>7, <2>2, <3>2, <3>3, <3>4
    <3> QED BY <1>2, <1>7, <3>2, <3>4, <3>5
  <2> QED BY <1>6, <2>1, <2>2
<1>9. \/ a.inc = 0 /\ srv' = s
      \/ a.inc > 0 /\ srv' = AddWindowUpdate(s, id, a.inc)
  <2>1. a.inc \in Nat BY <1>8
  <2>2. srv' = IF a.inc > 0 THEN AddWindowUpdate(s, id, a.inc) ELSE s BY <1>3
  <2> HIDE DEF a
  <2> QED BY <2>1, <2>2
<1>10. use.sizes # {} /\ calls' \in Nat BY <1>3
<1>11. a.win.consumed \in 0..MaxWindow BY <1>2, <1>8
<1>12. s = Resized(srv, id, a.win) BY DEF s
<1> HIDE DEF a
<1>13. a.win.local - a.win.recv - a.inc = srv.win[id].local - srv.win[id].recv BY <1>8 DEF w
<1>14. Apart => a.win.recv <= MaxWindow /\ a.inc <= MaxWindow BY <1>8
<1>15. a.win \in Win /\ a.inc \in Nat /\ a.win.local <= MaxWindow /\ a.win.reduction >= 0
       /\ (use.initials = {} => a.win.recv <= a.win.local /\ a.win.local >= 0)
  BY <1>8
<1> QED BY <1>3, <1>9, <1>10, <1>11, <1>12, <1>13, <1>14, <1>15, ResizedKeeps

\* A window resized and then counted anew is one that is resized.
LEMMA ResizedTwice ==
  ASSUME NEW s \in Srv, NEW id \in Ids, NEW w \in Win, NEW n \in Int
  PROVE  [Resized(s, id, w) EXCEPT !.win[id].consumed = n] = Resized(s, id, [w EXCEPT !.consumed = n])
<1> DEFINE t == Resized(s, id, w)
           v == [w EXCEPT !.consumed = n]
<1>1. /\ t = [s EXCEPT !.win = t.win] /\ t.win = [s.win EXCEPT ![id] = w] /\ t.win[id] = w /\ t \in Srv
      /\ s.win \in [Ids -> Win]
  <2>1. t.win = [s.win EXCEPT ![id] = w] /\ t = [s EXCEPT !.win = t.win] BY DEF Resized, Srv
  <2> QED BY <2>1, ResizedIs, SrvFields
<1>2. [t EXCEPT !.win[id].consumed = n] = [t EXCEPT !.win = [t.win EXCEPT ![id] = [t.win[id] EXCEPT !.consumed = n]]]
  OBVIOUS
<1>3. [t.win EXCEPT ![id] = [t.win[id] EXCEPT !.consumed = n]] = [s.win EXCEPT ![id] = v] BY <1>1
<1>4. [t EXCEPT !.win = [s.win EXCEPT ![id] = v]] = [s EXCEPT !.win = [s.win EXCEPT ![id] = v]] BY <1>1 DEF Srv
<1>5. Resized(s, id, v) = [s EXCEPT !.win = [s.win EXCEPT ![id] = v]] BY DEF Resized
<1> QED BY <1>2, <1>3, <1>4, <1>5

\* nghttp2_submit_window_update keeps the ledgers.
LEMMA SubmitWindowUpdateKeeps ==
  ASSUME LedgerInv, NEW id \in Ids, NEW d \in use.increments, SubmitWindowUpdate(id, d)
  PROVE  LedgerInv'
<1> DEFINE w == srv.win[id]
           a == Adjust(w, d)
           s == Resized(srv, id, a.win)
           k == Greatest(0, a.win.consumed - a.inc)
           v == IF a.inc > 0 THEN [a.win EXCEPT !.consumed = k] ELSE a.win
           t == Resized(srv, id, v)
<1>0. Types /\ InRange(srv) /\ Within /\ use \in Uses BY DEF LedgerInv, Types
<1>1. srv \in Srv /\ w \in Win /\ use.increments \subseteq -MaxWindow - 1..MaxWindow /\ MaxWindow \in Nat
  BY <1>0, TypesFacts, SrvFields, SizesAssumption
<1>2. /\ d \in Int /\ d <= MaxWindow
      /\ w.local <= MaxWindow /\ (Apart => w.recv <= MaxWindow) /\ w.consumed \in 0..MaxWindow /\ w.reduction >= 0
  BY <1>0, <1>1 DEF InRange
<1>3. /\ calls \in Nat /\ calls' = calls + 1 /\ (id = 0 \/ Live(srv, id)) /\ d # 0 /\ ~AdjustFails(w, d)
      /\ UNCHANGED <<use, iframe, fromPeer, toPeer, peer, held, frames>>
  BY <1>0 DEF SubmitWindowUpdate, Types
<1>4. srv' = IF a.inc > 0
             THEN AddWindowUpdate([s EXCEPT !.win[id].consumed = Greatest(0, @ - a.inc)], id, a.inc)
             ELSE s
  BY DEF SubmitWindowUpdate, Resized
<1>5. use.initials = {} => w.recv <= w.local /\ w.local >= 0 BY <1>0 DEF Within, Fitting
<1> HIDE DEF w
<1>6. /\ a.win \in Win /\ a.inc \in Nat /\ a.inc <= MaxWindow
      /\ a.win.local - a.win.recv - a.inc = w.local - w.recv
      /\ a.win.local <= MaxWindow /\ a.win.consumed = w.consumed /\ a.win.reduction >= 0
      /\ w.recv <= MaxWindow => a.win.recv <= MaxWindow
      /\ (w.recv <= w.local /\ w.local >= 0) => (a.win.recv <= a.win.local /\ a.win.local >= 0)
  BY <1>1, <1>2, <1>3, AdjustIs
<1>7. s.win[id] = a.win BY <1>1, <1>6, ResizedIs
<1>8. k \in 0..MaxWindow BY <1>1, <1>2, <1>6 DEF Greatest
<1>9. a.inc > 0 => [s EXCEPT !.win[id].consumed = Greatest(0, @ - a.inc)] = t
  <2>1. [s EXCEPT !.win[id].consumed = Greatest(0, @ - a.inc)] = [s EXCEPT !.win[id].consumed = k] BY <1>7
  <2> HIDE DEF k
  <2>2. [s EXCEPT !.win[id].consumed = k] = Resized(srv, id, [a.win EXCEPT !.consumed = k])
    BY <1>1, <1>6, <1>8, ResizedTwice
  <2> QED BY <2>1, <2>2
<1> HIDE DEF a, k
<1>10. /\ v \in Win /\ v.local = a.win.local /\ v.recv = a.win.recv /\ v.reduction = a.win.reduction
       /\ v.consumed \in 0..MaxWindow
  <2>1. CASE a.inc > 0
    <3>1. v = [a.win EXCEPT !.consumed = k] BY <2>1
    <3> HIDE DEF v
    <3> QED BY <1>6, <1>8, <3>1 DEF Win
  <2>2. CASE ~(a.inc > 0)
    <3>1. v = a.win BY <2>2
    <3> HIDE DEF v
    <3> QED BY <1>2, <1>6, <3>1
  <2> QED BY <2>1, <2>2
<1>11. \/ a.inc = 0 /\ srv' = t
       \/ a.inc > 0 /\ srv' = AddWindowUpdate(t, id, a.inc)
  <2>1. CASE a.inc > 0 BY <1>4, <1>9, <2>1
  <2>2. CASE ~(a.inc > 0) BY <1>4, <1>6, <2>2
  <2> QED BY <2>1, <2>2
<1> HIDE DEF v
<1>12. t = Resized(srv, id, v) OBVIOUS
<1> HIDE DEF t
<1>13. v.local - v.recv - a.inc = srv.win[id].local - srv.win[id].recv BY <1>6, <1>10 DEF w
<1>14. Apart => v.recv <= MaxWindow /\ a.inc <= MaxWindow BY <1>2, <1>6, <1>10
<1>15. use.initials = {} => v.recv <= v.local /\ v.local >= 0 BY <1>5, <1>6, <1>10
<1>16. a.inc \in Nat /\ v.local <= MaxWindow /\ v.reduction >= 0 BY <1>6, <1>10
<1>17. use.increments # {} /\ calls' \in Nat BY <1>3
<1> QED BY <1>3, <1>10, <1>11, <1>12, <1>13, <1>14, <1>15, <1>16, <1>17, ResizedKeeps

\* A new initial window is announced; it applies when it is acknowledged.
LEMMA SubmitSettingsKeeps == ASSUME LedgerInv, NEW v \in use.initials, SubmitSettings(v) PROVE LedgerInv'
<1> DEFINE f == [type |-> "SETTINGS", id |-> 0, inc |-> v]
<1>0. Types /\ InRange(srv) /\ Touched /\ AckLedger /\ use \in Uses BY DEF LedgerInv, Types
<1>1. /\ srv \in Srv /\ srv.urgent \in Seq(Announcement) /\ srv.inflight \in Seq(0..MaxWindow)
      /\ fromPeer \in Seq(In) /\ toPeer \in Seq(Msg) /\ held \in [StreamIds -> Nat]
  BY <1>0, TypesFacts, SrvFields
<1>2. v \in 0..MaxWindow BY <1>0, SizesAssumption
<1>3. f \in Announcement /\ f.inc = v BY <1>2 DEF Announcement
<1>4. /\ srv' = [srv EXCEPT !.inflight = Append(@, v), !.urgent = Append(@, f)]
      /\ calls' = calls + 1 /\ UNCHANGED <<use, iframe, fromPeer, toPeer, peer, held, frames>>
  BY DEF SubmitSettings
<1> HIDE DEF f
<1>5. /\ srv'.win = srv.win /\ srv'.stream = srv.stream /\ srv'.shutRd = srv.shutRd /\ srv'.ob = srv.ob
      /\ srv'.goaway = srv.goaway /\ srv'.initial = srv.initial /\ srv'.inflight = Append(srv.inflight, v)
      /\ srv'.overrun = srv.overrun /\ srv'.urgent = Append(srv.urgent, f) /\ srv' \in Srv
  <2>1. Append(srv.inflight, v) \in Seq(0..MaxWindow)
    <3> DEFINE S == 0..MaxWindow
    <3>1. srv.inflight \in Seq(S) /\ v \in S BY <1>1, <1>2
    <3> HIDE DEF S
    <3>2. Append(srv.inflight, v) \in Seq(S) BY <3>1
    <3> QED BY <3>2 DEF S
  <2>2. Append(srv.urgent, f) \in Seq(Announcement) BY <1>1, <1>3
  <2> QED BY <1>1, <1>4, <2>1, <2>2 DEF Srv
<1> DEFINE ack == Acknowledged
           sent == Count(toPeer, "SETTINGS")
           wait == Len(srv.urgent)
           len == Len(srv.inflight)
<1>6. ack \in Nat /\ sent \in Nat /\ wait \in Nat /\ len \in Nat /\ len = ack + sent + wait
  <2>1. ack \in Nat BY <1>1, CountStep DEF Acknowledged
  <2>2. sent \in Nat BY <1>1, CountStep
  <2>3. wait \in Nat /\ len \in Nat BY <1>1
  <2> QED BY <1>0, <2>1, <2>2, <2>3 DEF AckLedger
<1>7. /\ Len(srv'.inflight) = len + 1 /\ srv'.inflight[len + 1] = v
      /\ \A j \in 1..len : srv'.inflight[j] = srv.inflight[j]
  <2> DEFINE S == 0..MaxWindow
  <2>1. srv.inflight \in Seq(S) /\ v \in S BY <1>1, <1>2
  <2> HIDE DEF S
  <2> QED BY <1>5, <2>1, Appended
<1>8. /\ Len(srv'.urgent) = wait + 1 /\ srv'.urgent[wait + 1] = f
      /\ DOMAIN srv.urgent = 1..wait /\ DOMAIN srv'.urgent = 1..wait + 1
      /\ \A j \in 1..wait : srv'.urgent[j] = srv.urgent[j]
  BY <1>1, <1>3, <1>5, Appended
<1>9. Acknowledged' = Acknowledged /\ Count(toPeer, "SETTINGS")' = Count(toPeer, "SETTINGS")
  BY <1>4 DEF Acknowledged
<1>10. \A i \in 0..Len(fromPeer) : CountTo(fromPeer, "SETTINGS_ACK", i) \in 0..ack
  BY <1>1, CountToStep DEF Acknowledged
<1>11. \A j \in DOMAIN toPeer : toPeer[j].type = "SETTINGS" =>
         CountTo(toPeer, "SETTINGS", j) \in 1..sent
  <2> SUFFICES ASSUME NEW j \in DOMAIN toPeer, toPeer[j].type = "SETTINGS" PROVE CountTo(toPeer, "SETTINGS", j) \in 1..sent
    OBVIOUS
  <2>1. j \in 1..Len(toPeer) /\ j \in 0..Len(toPeer) /\ j - 1 \in 0..Len(toPeer) BY <1>1
  <2>2. CountTo(toPeer, "SETTINGS", j) = CountTo(toPeer, "SETTINGS", j - 1) + One(toPeer[j], "SETTINGS")
    BY <1>1, <2>1, CountToStep
  <2>3. \A i \in 0..Len(toPeer) : CountTo(toPeer, "SETTINGS", i) \in 0..sent BY <1>1, CountToStep
  <2>4. CountTo(toPeer, "SETTINGS", j) \in 0..sent /\ CountTo(toPeer, "SETTINGS", j - 1) \in 0..sent BY <2>1, <2>3
  <2>5. One(toPeer[j], "SETTINGS") = 1 BY DEF One
  <2> HIDE DEF sent
  <2> QED BY <1>6, <2>2, <2>4, <2>5
<1> HIDE DEF ack, sent, wait, len
<1>12. \A i \in 0..Len(fromPeer) : InitialAt(i)' = InitialAt(i)
  <2> TAKE i \in 0..Len(fromPeer)
  <2> DEFINE c == CountTo(fromPeer, "SETTINGS_ACK", i)
  <2>1. c \in 0..ack BY <1>10
  <2>2. /\ InitialAt(i)' = IF c = 0 THEN srv'.initial ELSE srv'.inflight[c]
        /\ InitialAt(i) = IF c = 0 THEN srv.initial ELSE srv.inflight[c]
    BY <1>4 DEF InitialAt
  <2> HIDE DEF c
  <2>3. c # 0 => c \in 1..len BY <1>6, <2>1
  <2> QED BY <1>5, <1>7, <2>2, <2>3
<1>13. AckLedger'
  <2>1. Len(srv'.inflight) = ack + sent + Len(srv'.urgent) BY <1>6, <1>7, <1>8
  <2>2. peer'.initial = InitialAt(Len(fromPeer))'
    <3>1. Len(fromPeer) \in 0..Len(fromPeer) BY <1>1
    <3>2. InitialAt(Len(fromPeer))' = InitialAt(Len(fromPeer))
      <4> SUFFICES ASSUME NEW m, m = Len(fromPeer), m \in 0..Len(fromPeer) PROVE InitialAt(Len(fromPeer))' = InitialAt(m)
        BY <3>1
      <4>1. InitialAt(m)' = InitialAt(m) BY <1>12
      <4>2. Len(fromPeer') = m BY <1>4
      <4> QED BY <4>1, <4>2 DEF InitialAt
    <3> QED BY <1>0, <1>4, <3>2 DEF AckLedger
  <2>3. \A j \in DOMAIN toPeer : toPeer[j].type = "SETTINGS" =>
          toPeer[j].inc = srv'.inflight[ack + CountTo(toPeer, "SETTINGS", j)]
    <3> SUFFICES ASSUME NEW j \in DOMAIN toPeer, toPeer[j].type = "SETTINGS"
                 PROVE  toPeer[j].inc = srv'.inflight[ack + CountTo(toPeer, "SETTINGS", j)]
      OBVIOUS
    <3> DEFINE c == CountTo(toPeer, "SETTINGS", j)
    <3>1. c \in 1..sent BY <1>11
    <3>2. toPeer[j].inc = srv.inflight[ack + c] BY <1>0 DEF AckLedger, ack
    <3> HIDE DEF c
    <3>3. ack + c \in 1..len BY <1>6, <3>1
    <3>4. toPeer[j].inc = srv'.inflight[ack + c] BY <1>7, <3>2, <3>3
    <3> QED BY <3>4 DEF c
  <2>4. \A j \in DOMAIN srv'.urgent : srv'.urgent[j].inc = srv'.inflight[ack + sent + j]
    <3> TAKE j \in DOMAIN srv'.urgent
    <3>1. j \in 1..wait \/ j = wait + 1
      <4>1. j \in 1..wait + 1 BY <1>8
      <4> QED BY <1>6, <4>1
    <3>2. CASE j \in 1..wait
      <4>1. srv'.urgent[j] = srv.urgent[j] /\ j \in DOMAIN srv.urgent BY <1>8, <3>2
      <4>2. srv.urgent[j].inc = srv.inflight[ack + sent + j] BY <1>0, <4>1 DEF AckLedger, ack, sent
      <4>3. ack + sent + j \in 1..len BY <1>6, <3>2
      <4> QED BY <1>7, <4>1, <4>2, <4>3
    <3>3. CASE j = wait + 1
      <4>1. ack + sent + j = len + 1 BY <1>6, <3>3
      <4> QED BY <1>3, <1>7, <1>8, <3>3, <4>1
    <3> QED BY <3>1, <3>2, <3>3
  <2> QED BY <1>4, <1>9, <2>1, <2>2, <2>3, <2>4 DEF AckLedger, ack, sent
<1>14. \A i \in Ids : Claim(srv', i) = Claim(srv, i) /\ Kept(srv', i) = Kept(srv, i) BY <1>5 DEF Claim, Kept
<1>15. \A i \in Ids : \/ Slack(i)' = Slack(i)
                      \/ Slack(i)' \in Int /\ Slack(i)' >= Slack(i) /\ ~Counted(i)'
  BY <1>0, <1>4, <1>5, <1>14, SlackUnmoved
<1>16. IsClosing(srv) => IsClosing(srv') BY <1>5 DEF IsClosing
<1>17. HeldRight' BY <1>4, <1>5, <1>14, <1>16, HeldSame
<1>18. InRange(srv') /\ ResetKnown(srv')
  <2>1. InRange(srv') BY <1>0, <1>5 DEF InRange
  <2> QED BY <1>0, <1>5, <2>1 DEF Touched, ResetKnown
<1>19. use.initials = {} => srv'.inflight = srv.inflight /\ Fitting(srv') OBVIOUS
<1>20. calls' \in Nat /\ frames' \in Nat /\ held' \in [StreamIds -> Nat] BY <1>0, <1>1, <1>4 DEF Types
<1>21. \A i \in StreamIds : \/ srv'.stream[i] = srv.stream[i]
                            \/ srv'.stream[i] \in {"closing", "closed"} /\ (Live(srv', i) => Live(srv, i))
  BY <1>5
<1>22. \A i \in StreamIds : srv.stream[i] = "idle" =>
         /\ srv'.stream[i] = "idle" /\ (held[i] = 0 => held'[i] = 0)
         /\ Updates(srv.ob, i) = 0 => Updates(srv'.ob, i) = 0
         /\ Updates(toPeer, i) = 0 => Updates(toPeer', i) = 0
  BY <1>4, <1>5
<1>23. (use.increments = {} /\ use.sizes = {}) => \A i \in StreamIds : srv'.win[i].local = srv.win[i].local
  BY <1>5
<1>24. UNCHANGED <<use, iframe, fromPeer, peer>> /\ toPeer' \in Seq(Msg) BY <1>1, <1>4
<1>25. \A i \in DOMAIN fromPeer : InitialAt(i)' = InitialAt(i)
  <2>1. \A i \in DOMAIN fromPeer : i \in 0..Len(fromPeer) BY <1>1
  <2> QED BY <1>12, <2>1
<1> QED BY <1>5, <1>13, <1>15, <1>16, <1>17, <1>18, <1>19, <1>20, <1>21, <1>22, <1>23, <1>24, <1>25, RestKeeps

LEMMA ApplicationKeeps == ASSUME LedgerInv, Application PROVE LedgerInv'
BY FinishStreamKeeps, ConsumeHeldKeeps, SubmitWindowUpdateKeeps, SetLocalWindowSizeKeeps, SubmitSettingsKeeps
   DEF Application

-----------------------------------------------------------------------------
(* The peer.                                                                *)

\* What is left to show of a step of the peer: its frames, its credit, the acknowledgements
LEMMA PeerKeeps ==
  ASSUME LedgerInv, UNCHANGED <<srv, iframe, held, use, calls>>, frames' \in Nat,
         fromPeer' \in Seq(In), toPeer' \in Seq(Msg),
         \A i \in DOMAIN fromPeer' : fromPeer'[i].type = "DATA" => fromPeer'[i].pad = NoPad \/ fromPeer'[i].len > 0,
         peer' \in [credit : [Ids -> Int], initial : 0..MaxWindow, opened : SUBSET StreamIds, ended : SUBSET StreamIds],
         Unopened', Opening', Ending', AckLedger', Afforded',
         \A i \in Ids : Slack(i)' = Slack(i) \/ (i # 0 /\ srv.stream[i] = "idle")
  PROVE  LedgerInv'
<1>0. /\ Types /\ InRange(srv) /\ Balanced /\ Roomy /\ Touched
      /\ Ignored /\ HeldRight /\ Within /\ LocalInitial /\ NoneAccused
  BY DEF LedgerInv
<1>1. Types' BY <1>0 DEF Types, Msg
<1>2. InRange(srv)' BY <1>0 DEF InRange, Apart
<1>3. Balanced'
  <2> SUFFICES ASSUME NEW i \in Ids, Counted(i)' PROVE Slack(i)' = 0 BY DEF Balanced
  <2>1. Counted(i) BY DEF Counted, IsClosing
  <2>2. ~(i # 0 /\ srv.stream[i] = "idle") BY <2>1 DEF Counted
  <2>3. Slack(i) = 0 BY <1>0, <2>1 DEF Balanced
  <2> QED BY <2>2, <2>3
<1>4. Roomy'
  <2> SUFFICES ASSUME use.honest, Apart, NEW i \in Ids, i = 0 \/ Live(srv, i) PROVE Slack(i)' >= 0
    BY DEF Roomy, Apart, Live
  <2>1. ~(i # 0 /\ srv.stream[i] = "idle") BY DEF Live
  <2>2. Slack(i) >= 0 BY <1>0 DEF Roomy
  <2> QED BY <2>1, <2>2
<1>5. Touched' BY <1>0 DEF Touched, IsClosing, ResetKnown
<1>6. Ignored' BY <1>0 DEF Ignored, IsClosing
<1>7. HeldRight' BY <1>0 DEF HeldRight, IsClosing, Kept, Counted, HeldBytes
<1>8. Within' BY <1>0 DEF Within, Fitting
<1>9. LocalInitial' BY <1>0 DEF LocalInitial
<1>10. NoneAccused' BY <1>0 DEF NoneAccused, Apart
<1> QED BY <1>1, <1>2, <1>3, <1>4, <1>5, <1>6, <1>7, <1>8, <1>9, <1>10 DEF LedgerInv

\* The slack of a window follows the columns the peer writes.
LEMMA SlackPeer ==
  ASSUME Types, NEW i \in Ids, UNCHANGED <<srv, iframe>>,
         Updates(toPeer', i) \in Int, peer'.credit[i] \in Int, Bytes(fromPeer', i) \in Int, SettingsGap(i)' \in Int,
         SettingsGap(i)' - Updates(toPeer', i) - peer'.credit[i] - Bytes(fromPeer', i)
           = SettingsGap(i) - Updates(toPeer, i) - peer.credit[i] - Bytes(fromPeer, i)
  PROVE  Slack(i)' = Slack(i)
<1> DEFINE left == IF iframe # NoFrame /\ i \in {0, iframe.id} THEN iframe.left ELSE 0
           c == Claim(srv, i)
           b == Bytes(fromPeer, i)
           bb == Bytes(fromPeer', i)
           u == Updates(toPeer, i)
           uu == Updates(toPeer', i)
           g == SettingsGap(i)
           gg == SettingsGap(i)'
           k == peer.credit[i]
           kk == peer'.credit[i]
<1>1. left \in Int
  <2>1. iframe # NoFrame => iframe.left \in Nat BY TypesFacts DEF Reader
  <2> QED BY <2>1
<1>2. c \in Int /\ b \in Int /\ u \in Int /\ g \in Int /\ k \in Int BY SlackType
<1>3. Slack(i) = c + g - u - k - (b + left) BY DEF Slack, InFlight
<1>4. Slack(i)' = c + gg - uu - kk - (bb + left)
  <2>1. Claim(srv, i)' = c BY DEF Claim
  <2>2. InFlight(i)' = bb + left BY DEF InFlight
  <2> QED BY <2>1, <2>2 DEF Slack
<1>5. uu \in Int /\ kk \in Int /\ bb \in Int /\ gg \in Int /\ gg - uu - kk - bb = g - u - k - b OBVIOUS
<1> HIDE DEF left, c, b, bb, u, uu, g, gg, k, kk
<1> QED BY <1>1, <1>2, <1>3, <1>4, <1>5

\* Frames that are under way are of streams the peer has opened.
LEMMA OpenedKnown ==
  ASSUME Types, Unopened
  PROVE  /\ \A i \in DOMAIN fromPeer : fromPeer[i].type \in {"HEADERS", "DATA"} =>
              fromPeer[i].id \in peer.opened /\ fromPeer[i].id \in Ids /\ fromPeer[i].id # 0
         /\ iframe # NoFrame => iframe.id \in peer.opened /\ iframe.id \in Ids /\ iframe.id # 0
         /\ \A i \in StreamIds : i \notin peer.opened => srv.stream[i] = "idle"
<1>1. ASSUME NEW i \in DOMAIN fromPeer, fromPeer[i].type \in {"HEADERS", "DATA"}
      PROVE  fromPeer[i].id \in peer.opened /\ fromPeer[i].id \in Ids /\ fromPeer[i].id # 0
  <2>1. fromPeer[i] \in In BY TypesFacts
  <2>2. fromPeer[i].id \in StreamIds BY <1>1, <2>1, InFields
  <2>3. AboutStream(fromPeer[i], fromPeer[i].id) BY <1>1 DEF AboutStream
  <2> QED BY <2>2, <2>3, IdsAre DEF Unopened
<1>2. ASSUME iframe # NoFrame PROVE iframe.id \in peer.opened /\ iframe.id \in Ids /\ iframe.id # 0
  <2>1. iframe.id \in StreamIds BY <1>2, TypesFacts DEF Reader
  <2> QED BY <1>2, <2>1, IdsAre DEF Unopened, Untouched
<1>3. \A i \in StreamIds : i \notin peer.opened => srv.stream[i] = "idle" BY DEF Unopened, Untouched
<1> QED BY <1>1, <1>2, <1>3

\* Frames that are not about a stream carry no byte of it.
LEMMA NoBytes ==
  ASSUME NEW w \in Seq(In), NEW id \in StreamIds, \A i \in DOMAIN w : ~AboutStream(w[i], id)
  PROVE  Bytes(w, id) = 0
<1> DEFINE c == Lengths(w, id)
<1>1. id \in Ids /\ id # 0 BY IdsAre
<1>2. c \in Seq(Int) /\ Len(c) = Len(w) /\ \A i \in DOMAIN w : c[i] = DataFor(w[i], id) BY <1>1, LengthsAre
<1>3. \A i \in DOMAIN w : DataFor(w[i], id) = 0 BY <1>1 DEF DataFor, AboutStream
<1>4. Bytes(w, id) = SumFunction(c) BY DEF Bytes, Lengths, DataFor
<1>5. DOMAIN c = DOMAIN w BY <1>2
<1> HIDE DEF c
<1>6. \A i \in DOMAIN c : c[i] = 0 BY <1>2, <1>3, <1>5
<1>7. IsFiniteSet(DOMAIN c)
  <2>1. DOMAIN c = 1..Len(c) /\ Len(c) \in Int /\ 1 \in Int BY <1>2
  <2> QED BY <2>1, FS_Interval
<1> QED BY <1>4, <1>6, <1>7, SumZeros DEF SumFunction

\* One more frame on its way to the server.
LEMMA FrameSent ==
  ASSUME Types, NEW f \in In, fromPeer' = Append(fromPeer, f), UNCHANGED srv, NEW n, n = Len(fromPeer)
  PROVE  /\ n \in Nat /\ DOMAIN fromPeer = 1..n /\ DOMAIN fromPeer' = 1..n + 1
         /\ fromPeer' \in Seq(In) /\ Len(fromPeer') = n + 1 /\ fromPeer'[n + 1] = f
         /\ \A i \in 1..n : fromPeer'[i] = fromPeer[i]
         /\ \A i \in 0..n : InitialAt(i)' = InitialAt(i)
         /\ \A id \in Ids : /\ Bytes(fromPeer', id) = Bytes(fromPeer, id) + DataFor(f, id)
                            /\ Bytes(fromPeer, id) \in Nat /\ DataFor(f, id) \in Nat
                            /\ BytesAfter(fromPeer', n + 1, id) = 0
                            /\ \A i \in 1..n : /\ BytesAfter(fromPeer, i, id) \in Int
                                               /\ BytesAfter(fromPeer', i, id) = BytesAfter(fromPeer, i, id) + DataFor(f, id)
<1>1. fromPeer \in Seq(In) BY TypesFacts
<1>2. /\ n \in Nat /\ DOMAIN fromPeer = 1..n /\ DOMAIN fromPeer' = 1..n + 1
      /\ fromPeer' \in Seq(In) /\ Len(fromPeer') = n + 1 /\ fromPeer'[n + 1] = f
      /\ \A i \in 1..n : fromPeer'[i] = fromPeer[i]
  BY <1>1, Appended
<1>3. ASSUME NEW i \in 0..n PROVE InitialAt(i)' = InitialAt(i)
  <2>1. CountTo(Append(fromPeer, f), "SETTINGS_ACK", i) = CountTo(fromPeer, "SETTINGS_ACK", i)
    BY <1>1, CountToAppend
  <2> QED BY <2>1 DEF InitialAt
<1>4. ASSUME NEW id \in Ids
      PROVE  /\ Bytes(fromPeer', id) = Bytes(fromPeer, id) + DataFor(f, id)
             /\ Bytes(fromPeer, id) \in Nat /\ DataFor(f, id) \in Nat
             /\ BytesAfter(fromPeer', n + 1, id) = 0
             /\ \A i \in 1..n : /\ BytesAfter(fromPeer, i, id) \in Int
                                /\ BytesAfter(fromPeer', i, id) = BytesAfter(fromPeer, i, id) + DataFor(f, id)
  <2>1. Bytes(fromPeer', id) = Bytes(fromPeer, id) + DataFor(f, id) /\ Bytes(fromPeer, id) \in Nat
    BY <1>1, BytesStep
  <2>2. DataFor(f, id) \in Nat BY Contributions
  <2>3. /\ BytesAfter(fromPeer', n + 1, id) = 0
        /\ \A i \in 1..n : /\ BytesAfter(fromPeer, i, id) \in Int
                           /\ BytesAfter(fromPeer', i, id) = BytesAfter(fromPeer, i, id) + DataFor(f, id)
    BY <1>1, AfterStep
  <2> QED BY <2>1, <2>2, <2>3
<1> QED BY <1>2, <1>3, <1>4

\* It was sent with the window the peer knows.
LEMMA AcksAppend ==
  ASSUME Types, AckLedger, NEW f \in In, f.type # "SETTINGS_ACK", fromPeer' = Append(fromPeer, f),
         UNCHANGED <<srv, toPeer>>, peer'.initial = peer.initial, NEW n, n = Len(fromPeer)
  PROVE  AckLedger' /\ InitialAt(n + 1)' = peer.initial
<1>1. /\ fromPeer \in Seq(In) /\ fromPeer' \in Seq(In) /\ n \in Nat /\ Len(fromPeer') = n + 1
      /\ fromPeer'[n + 1] = f
  BY FrameSent, TypesFacts
<1>2. Acknowledged' = Acknowledged
  <2>1. Count(Append(fromPeer, f), "SETTINGS_ACK") = Count(fromPeer, "SETTINGS_ACK") + One(f, "SETTINGS_ACK")
    BY <1>1, CountStep
  <2>2. Count(fromPeer, "SETTINGS_ACK") \in Nat BY <1>1, CountStep
  <2>3. One(f, "SETTINGS_ACK") = 0 BY DEF One
  <2> QED BY <2>1, <2>2, <2>3 DEF Acknowledged
<1>3. CountTo(fromPeer', "SETTINGS_ACK", n + 1) = CountTo(fromPeer, "SETTINGS_ACK", n)
  <2>1. CountTo(fromPeer', "SETTINGS_ACK", n + 1) = Count(fromPeer', "SETTINGS_ACK") BY <1>1, CountToStep
  <2>2. CountTo(fromPeer, "SETTINGS_ACK", n) = Count(fromPeer, "SETTINGS_ACK") BY <1>1, CountToStep
  <2> QED BY <1>2, <2>1, <2>2 DEF Acknowledged
<1>4. InitialAt(n + 1)' = peer.initial
  <2>1. InitialAt(n + 1)' = InitialAt(n) BY <1>3 DEF InitialAt
  <2>2. peer.initial = InitialAt(n) BY DEF AckLedger
  <2> QED BY <2>1, <2>2
<1>5. peer'.initial = InitialAt(Len(fromPeer))'
  <2>1. Len(fromPeer') = n + 1 BY <1>1
  <2> QED BY <1>4, <2>1 DEF InitialAt
<1>6. AckLedger' BY <1>2, <1>5 DEF AckLedger
<1> QED BY <1>4, <1>6

\* A stream is opened: nothing of it was known, so its window is the one the peer gave itself.
LEMMA PeerOpenKeeps == ASSUME LedgerInv, NEW id \in StreamIds, PeerOpen(id) PROVE LedgerInv'
<1> DEFINE f == [type |-> "HEADERS", id |-> id]
<1> SUFFICES ASSUME NEW n, n = Len(fromPeer) PROVE LedgerInv' OBVIOUS
<1>0. Types /\ Unopened /\ Opening /\ Ending /\ AckLedger /\ Afforded BY DEF LedgerInv
<1>1. /\ UNCHANGED <<srv, iframe, toPeer, held, frames, use, calls>> /\ fromPeer' = Append(fromPeer, f)
      /\ peer' = [peer EXCEPT !.opened = @ \cup {id}, !.credit[id] = peer.initial]
      /\ id \notin peer.opened
  BY DEF PeerOpen
<1>2. /\ f \in In /\ f.type = "HEADERS" /\ f.id = id /\ id \in Ids /\ id # 0 BY IdsAre DEF In
<1>3. /\ n \in Nat /\ DOMAIN fromPeer = 1..n /\ DOMAIN fromPeer' = 1..n + 1
      /\ fromPeer' \in Seq(In) /\ Len(fromPeer') = n + 1 /\ fromPeer'[n + 1] = f
      /\ \A i \in 1..n : fromPeer'[i] = fromPeer[i]
  BY <1>0, <1>1, <1>2, FrameSent
<1>4. \A i \in 0..n : InitialAt(i)' = InitialAt(i) BY <1>0, <1>1, <1>2, FrameSent
<1>5. \A i \in Ids : DataFor(f, i) = 0 BY <1>2 DEF DataFor
<1>6. \A i \in Ids : /\ Bytes(fromPeer', i) = Bytes(fromPeer, i) /\ Bytes(fromPeer, i) \in Nat
                     /\ \A j \in 1..n : BytesAfter(fromPeer', j, i) = BytesAfter(fromPeer, j, i)
  <2> SUFFICES ASSUME NEW i \in Ids
               PROVE  /\ Bytes(fromPeer', i) = Bytes(fromPeer, i) /\ Bytes(fromPeer, i) \in Nat
                      /\ \A j \in 1..n : BytesAfter(fromPeer', j, i) = BytesAfter(fromPeer, j, i)
    OBVIOUS
  <2>1. /\ Bytes(fromPeer', i) = Bytes(fromPeer, i) + DataFor(f, i) /\ Bytes(fromPeer, i) \in Nat
        /\ \A j \in 1..n : /\ BytesAfter(fromPeer, j, i) \in Int
                           /\ BytesAfter(fromPeer', j, i) = BytesAfter(fromPeer, j, i) + DataFor(f, i)
    BY <1>0, <1>1, <1>2, FrameSent
  <2> QED BY <1>5, <2>1
<1>7. /\ peer.credit \in [Ids -> Int] /\ peer.initial \in Int /\ peer.initial \in 0..MaxWindow
      /\ peer.opened \in SUBSET StreamIds /\ peer.ended \in SUBSET StreamIds
      /\ peer \in [credit : [Ids -> Int], initial : 0..MaxWindow, opened : SUBSET StreamIds, ended : SUBSET StreamIds]
  BY <1>0, TypesFacts DEF Types
<1>8. /\ peer'.initial = peer.initial /\ peer'.ended = peer.ended /\ peer'.opened = peer.opened \cup {id}
      /\ peer'.credit[id] = peer.initial /\ \A i \in Ids : i # id => peer'.credit[i] = peer.credit[i]
  BY <1>1, <1>2, <1>7
<1>9. peer' \in [credit : [Ids -> Int], initial : 0..MaxWindow, opened : SUBSET StreamIds, ended : SUBSET StreamIds]
  BY <1>1, <1>2, <1>7
<1>10. Untouched(id) /\ \A i \in DOMAIN fromPeer : ~AboutStream(fromPeer[i], id) BY <1>0, <1>1 DEF Unopened
<1>11. Bytes(fromPeer, id) = 0 BY <1>0, <1>10, NoBytes, TypesFacts
<1>12. \A i : Untouched(i)' <=> Untouched(i) BY <1>1 DEF Untouched
<1> HIDE DEF f
<1>13. Unopened'
  <2> SUFFICES ASSUME NEW i \in StreamIds, i \notin peer'.opened
               PROVE  Untouched(i)' /\ \A j \in DOMAIN fromPeer' : ~AboutStream(fromPeer'[j], i)
    BY DEF Unopened
  <2>1. i # id /\ i \notin peer.opened BY <1>8
  <2>2. Untouched(i) /\ \A j \in DOMAIN fromPeer : ~AboutStream(fromPeer[j], i) BY <1>0, <2>1 DEF Unopened
  <2>3. ASSUME NEW j \in DOMAIN fromPeer' PROVE ~AboutStream(fromPeer'[j], i)
    <3>1. CASE j \in 1..n BY <1>3, <2>2, <3>1
    <3>2. CASE j = n + 1 BY <1>2, <1>3, <2>1, <3>2 DEF AboutStream
    <3> QED BY <1>3, <3>1, <3>2
  <2> QED BY <1>12, <2>2, <2>3
<1>14. Opening'
  <2> SUFFICES ASSUME NEW i \in DOMAIN fromPeer', fromPeer'[i].type = "HEADERS", NEW s, s = fromPeer'[i].id
               PROVE  /\ s \in peer'.opened /\ Untouched(s)' /\ peer'.credit[s] + Bytes(fromPeer', s) = peer'.initial
                      /\ \A j \in DOMAIN fromPeer' :
                           (AboutStream(fromPeer'[j], s) /\ i # j) => i < j /\ fromPeer'[j].type = "DATA"
    BY DEF Opening
  <2>1. CASE i = n + 1
    <3>1. s = id BY <1>2, <1>3, <2>1
    <3>2. peer'.credit[s] + Bytes(fromPeer', s) = peer'.initial BY <1>2, <1>6, <1>7, <1>8, <1>11, <3>1
    <3>3. ASSUME NEW j \in DOMAIN fromPeer', AboutStream(fromPeer'[j], s), i # j PROVE FALSE
      <4>1. j \in 1..n BY <1>3, <2>1, <3>3
      <4> QED BY <1>3, <1>10, <3>1, <3>3, <4>1
    <3> QED BY <1>8, <1>10, <1>12, <3>1, <3>2, <3>3
  <2>2. CASE i \in 1..n
    <3>1. fromPeer'[i] = fromPeer[i] /\ i \in DOMAIN fromPeer BY <1>3, <2>2
    <3>2. /\ s \in peer.opened /\ Untouched(s) /\ peer.credit[s] + Bytes(fromPeer, s) = peer.initial
          /\ \A j \in DOMAIN fromPeer : (AboutStream(fromPeer[j], s) /\ i # j) => i < j /\ fromPeer[j].type = "DATA"
      BY <1>0, <3>1 DEF Opening
    <3>3. s # id /\ s \in Ids BY <1>1, <1>7, <3>2, IdsAre
    <3>4. ASSUME NEW j \in DOMAIN fromPeer', AboutStream(fromPeer'[j], s), i # j
          PROVE  i < j /\ fromPeer'[j].type = "DATA"
      <4>1. j # n + 1 BY <1>2, <1>3, <3>3, <3>4 DEF AboutStream
      <4>2. j \in 1..n BY <1>3, <4>1
      <4> QED BY <1>3, <3>2, <3>4, <4>2
    <3> QED BY <1>6, <1>8, <1>12, <3>2, <3>3, <3>4
  <2> QED BY <1>3, <2>1, <2>2
<1>15. Ending'
  <2>1. \A i \in DOMAIN fromPeer' : fromPeer'[i].type = "DATA" => i \in DOMAIN fromPeer /\ fromPeer'[i] = fromPeer[i]
    <3> TAKE i \in DOMAIN fromPeer'
    <3>1. CASE i = n + 1 BY <1>2, <1>3, <3>1
    <3>2. CASE i \in 1..n BY <1>3, <3>2
    <3> QED BY <1>3, <3>1, <3>2
  <2> QED BY <1>0, <1>1, <1>8, <2>1 DEF Ending, NoDataOf
<1>16. AckLedger' BY <1>0, <1>1, <1>2, <1>8, AcksAppend
<1>17. Afforded'
  <2> SUFFICES ASSUME use.honest
               PROVE  /\ peer'.credit[0] >= 0
                      /\ \A i \in DOMAIN fromPeer' : fromPeer'[i].type = "DATA" =>
                           peer'.credit[fromPeer'[i].id] + BytesAfter(fromPeer', i, fromPeer'[i].id)
                             >= peer'.initial - InitialAt(i)'
                      /\ iframe # NoFrame =>
                           peer'.credit[iframe.id] + Bytes(fromPeer', iframe.id) >= peer'.initial - srv.initial
    BY <1>1 DEF Afforded
  <2>1. peer'.credit[0] >= 0 BY <1>0, <1>2, <1>8, IdsAre DEF Afforded
  <2>2. ASSUME NEW i \in DOMAIN fromPeer', fromPeer'[i].type = "DATA"
        PROVE  peer'.credit[fromPeer'[i].id] + BytesAfter(fromPeer', i, fromPeer'[i].id) >= peer'.initial - InitialAt(i)'
    <3>1. i # n + 1 BY <1>2, <1>3, <2>2
    <3>2. i \in 1..n /\ fromPeer'[i] = fromPeer[i] /\ i \in DOMAIN fromPeer /\ i \in 0..n BY <1>3, <3>1
    <3>3. fromPeer[i].id \in peer.opened /\ fromPeer[i].id \in Ids BY <1>0, <2>2, <3>2, OpenedKnown
    <3>4. fromPeer[i].id # id BY <1>1, <3>3
    <3>5. peer.credit[fromPeer[i].id] + BytesAfter(fromPeer, i, fromPeer[i].id) >= peer.initial - InitialAt(i)
      BY <1>0, <2>2, <3>2 DEF Afforded
    <3>6. InitialAt(i)' = InitialAt(i) BY <1>4, <3>2
    <3> QED BY <1>6, <1>8, <3>2, <3>3, <3>4, <3>5, <3>6
  <2>3. ASSUME iframe # NoFrame
        PROVE  peer'.credit[iframe.id] + Bytes(fromPeer', iframe.id) >= peer'.initial - srv.initial
    <3>1. iframe.id \in peer.opened /\ iframe.id \in Ids BY <1>0, <2>3, OpenedKnown
    <3>2. iframe.id # id BY <1>1, <3>1
    <3> QED BY <1>0, <1>6, <1>8, <2>3, <3>1, <3>2 DEF Afforded
  <2> QED BY <2>1, <2>2, <2>3
<1>18. ASSUME NEW i \in Ids PROVE Slack(i)' = Slack(i) \/ (i # 0 /\ srv.stream[i] = "idle")
  <2>1. CASE i = id BY <1>2, <1>10, <2>1 DEF Untouched
  <2>2. CASE i # id
    <3>1. SettingsGap(i)' = SettingsGap(i) BY <1>1, <1>8 DEF SettingsGap
    <3>2. SettingsGap(i) \in Int /\ Updates(toPeer, i) \in Int /\ peer.credit[i] \in Int BY <1>0, SlackType
    <3> QED BY <1>0, <1>1, <1>6, <1>8, <2>2, <3>1, <3>2, SlackPeer
  <2> QED BY <2>1, <2>2
<1>19. \A i \in DOMAIN fromPeer' : fromPeer'[i].type = "DATA" => fromPeer'[i].pad = NoPad \/ fromPeer'[i].len > 0
  <2> TAKE i \in DOMAIN fromPeer'
  <2>1. CASE i = n + 1 BY <1>2, <1>3, <2>1
  <2>2. CASE i \in 1..n BY <1>0, <1>3, <2>2 DEF Types
  <2> QED BY <1>3, <2>1, <2>2
<1>20. frames' \in Nat /\ toPeer' \in Seq(Msg) BY <1>0, <1>1, TypesFacts DEF Types
<1>21. UNCHANGED <<srv, iframe, held, use, calls>> BY <1>1
<1> QED BY <1>3, <1>9, <1>13, <1>14, <1>15, <1>16, <1>17, <1>18, <1>19, <1>20, <1>21, PeerKeeps

\* DATA moves from the credit of the peer to the wire.
LEMMA PeerDataKeeps ==
  ASSUME LedgerInv, NEW id \in StreamIds, NEW len \in use.payloads, NEW pad \in use.pads \cup {NoPad}, NEW end \in BOOLEAN,
         PeerData(id, len, pad, end)
  PROVE  LedgerInv'
<1> DEFINE f == [type |-> "DATA", id |-> id, len |-> len, pad |-> pad, end |-> end]
<1> SUFFICES ASSUME NEW n, n = Len(fromPeer) PROVE LedgerInv' OBVIOUS
<1>0. Types /\ Unopened /\ Opening /\ Ending /\ AckLedger /\ Afforded BY DEF LedgerInv
<1>1. /\ UNCHANGED <<srv, iframe, toPeer, held, use, calls>> /\ frames' = frames + 1 /\ fromPeer' = Append(fromPeer, f)
      /\ peer' = [peer EXCEPT !.credit[id] = @ - len, !.credit[0] = @ - len,
                              !.ended = IF end THEN @ \cup {id} ELSE @]
      /\ id \in peer.opened /\ id \notin peer.ended /\ (pad = NoPad \/ len > 0)
      /\ use.honest => len <= peer.credit[id] /\ len <= peer.credit[0]
  BY DEF PeerData
<1>2. len \in Nat /\ pad \in Nat \cup {NoPad}
  <2>1. use \in Uses BY <1>0 DEF Types
  <2> QED BY <2>1, SizesAssumption
<1>3. /\ f \in In /\ f.type = "DATA" /\ f.id = id /\ f.len = len /\ f.pad = pad /\ f.end = end
      /\ id \in Ids /\ id # 0 /\ 0 \in Ids
  BY <1>2, IdsAre DEF In
<1>4. /\ n \in Nat /\ DOMAIN fromPeer = 1..n /\ DOMAIN fromPeer' = 1..n + 1
      /\ fromPeer' \in Seq(In) /\ Len(fromPeer') = n + 1 /\ fromPeer'[n + 1] = f
      /\ \A i \in 1..n : fromPeer'[i] = fromPeer[i]
  BY <1>0, <1>1, <1>3, FrameSent
<1>5. \A i \in 0..n : InitialAt(i)' = InitialAt(i) BY <1>0, <1>1, <1>3, FrameSent
<1>6. \A i \in Ids : DataFor(f, i) = IF i \in {0, id} THEN len ELSE 0 BY <1>3 DEF DataFor
<1> HIDE DEF f
<1>7. /\ peer.credit \in [Ids -> Int] /\ peer.initial \in Int
      /\ peer.opened \in SUBSET StreamIds /\ peer.ended \in SUBSET StreamIds
      /\ peer \in [credit : [Ids -> Int], initial : 0..MaxWindow, opened : SUBSET StreamIds, ended : SUBSET StreamIds]
  BY <1>0, TypesFacts DEF Types
<1>8. /\ peer'.initial = peer.initial /\ peer'.opened = peer.opened
      /\ peer'.ended = IF end THEN peer.ended \cup {id} ELSE peer.ended
      /\ peer'.credit = [[peer.credit EXCEPT ![id] = @ - len] EXCEPT ![0] = @ - len]
  BY <1>1, <1>7
<1>9. \A i \in Ids : peer'.credit[i] = peer.credit[i] - DataFor(f, i) /\ peer'.credit[i] \in Int /\ peer.credit[i] \in Int
  <2> SUFFICES ASSUME NEW i \in Ids
               PROVE  peer'.credit[i] = peer.credit[i] - DataFor(f, i) /\ peer'.credit[i] \in Int /\ peer.credit[i] \in Int
    OBVIOUS
  <2>1. peer.credit[i] \in Int BY <1>7
  <2>2. peer'.credit[i] = IF i \in {0, id} THEN peer.credit[i] - len ELSE peer.credit[i] BY <1>3, <1>7, <1>8
  <2>3. DataFor(f, i) = IF i \in {0, id} THEN len ELSE 0 BY <1>6
  <2> QED BY <1>2, <2>1, <2>2, <2>3
<1>10. peer' \in [credit : [Ids -> Int], initial : 0..MaxWindow, opened : SUBSET StreamIds, ended : SUBSET StreamIds]
  <2>1. peer'.ended \in SUBSET StreamIds BY <1>7, <1>8
  <2>2. peer'.credit \in [Ids -> Int] BY <1>2, <1>3, <1>7, <1>8
  <2>3. peer' = [credit |-> peer'.credit, initial |-> peer.initial, opened |-> peer.opened, ended |-> peer'.ended]
    BY <1>1, <1>7
  <2> QED BY <1>7, <2>1, <2>2, <2>3
<1>11. \A i \in Ids : /\ peer'.credit[i] + Bytes(fromPeer', i) = peer.credit[i] + Bytes(fromPeer, i)
                      /\ Bytes(fromPeer', i) \in Nat /\ Bytes(fromPeer, i) \in Nat
                      /\ BytesAfter(fromPeer', n + 1, i) = 0
                      /\ \A j \in 1..n : peer'.credit[i] + BytesAfter(fromPeer', j, i) = peer.credit[i] + BytesAfter(fromPeer, j, i)
  <2> SUFFICES ASSUME NEW i \in Ids
               PROVE  /\ peer'.credit[i] + Bytes(fromPeer', i) = peer.credit[i] + Bytes(fromPeer, i)
                      /\ Bytes(fromPeer', i) \in Nat /\ Bytes(fromPeer, i) \in Nat
                      /\ BytesAfter(fromPeer', n + 1, i) = 0
                      /\ \A j \in 1..n : peer'.credit[i] + BytesAfter(fromPeer', j, i) = peer.credit[i] + BytesAfter(fromPeer, j, i)
    OBVIOUS
  <2>1. /\ Bytes(fromPeer', i) = Bytes(fromPeer, i) + DataFor(f, i)
        /\ Bytes(fromPeer, i) \in Nat /\ DataFor(f, i) \in Nat
        /\ BytesAfter(fromPeer', n + 1, i) = 0
        /\ \A j \in 1..n : /\ BytesAfter(fromPeer, j, i) \in Int
                           /\ BytesAfter(fromPeer', j, i) = BytesAfter(fromPeer, j, i) + DataFor(f, i)
    BY <1>0, <1>1, <1>3, FrameSent
  <2>2. peer'.credit[i] = peer.credit[i] - DataFor(f, i) /\ peer'.credit[i] \in Int /\ peer.credit[i] \in Int BY <1>9
  <2>3. \A j \in 1..n : peer'.credit[i] + BytesAfter(fromPeer', j, i) = peer.credit[i] + BytesAfter(fromPeer, j, i)
    BY <2>1, <2>2
  <2> QED BY <2>1, <2>2, <2>3
<1>12. \A i : Untouched(i)' <=> Untouched(i) BY <1>1 DEF Untouched
<1>13. Unopened'
  <2> SUFFICES ASSUME NEW i \in StreamIds, i \notin peer'.opened
               PROVE  Untouched(i)' /\ \A j \in DOMAIN fromPeer' : ~AboutStream(fromPeer'[j], i)
    BY DEF Unopened
  <2>1. i # id /\ i \notin peer.opened BY <1>1, <1>8
  <2>2. Untouched(i) /\ \A j \in DOMAIN fromPeer : ~AboutStream(fromPeer[j], i) BY <1>0, <2>1 DEF Unopened
  <2>3. ASSUME NEW j \in DOMAIN fromPeer' PROVE ~AboutStream(fromPeer'[j], i)
    <3>1. CASE j \in 1..n BY <1>4, <2>2, <3>1
    <3>2. CASE j = n + 1 BY <1>3, <1>4, <2>1, <3>2 DEF AboutStream
    <3> QED BY <1>4, <3>1, <3>2
  <2> QED BY <1>12, <2>2, <2>3
<1>14. Opening'
  <2> SUFFICES ASSUME NEW i \in DOMAIN fromPeer', fromPeer'[i].type = "HEADERS", NEW s, s = fromPeer'[i].id
               PROVE  /\ s \in peer'.opened /\ Untouched(s)' /\ peer'.credit[s] + Bytes(fromPeer', s) = peer'.initial
                      /\ \A j \in DOMAIN fromPeer' :
                           (AboutStream(fromPeer'[j], s) /\ i # j) => i < j /\ fromPeer'[j].type = "DATA"
    BY DEF Opening
  <2>1. i # n + 1 BY <1>3, <1>4
  <2>2. i \in 1..n BY <1>4, <2>1
  <2>3. fromPeer'[i] = fromPeer[i] /\ i \in DOMAIN fromPeer BY <1>4, <2>2
  <2>4. /\ s \in peer.opened /\ Untouched(s) /\ peer.credit[s] + Bytes(fromPeer, s) = peer.initial
        /\ \A j \in DOMAIN fromPeer : (AboutStream(fromPeer[j], s) /\ i # j) => i < j /\ fromPeer[j].type = "DATA"
    BY <1>0, <2>3 DEF Opening
  <2>5. s \in Ids BY <1>7, <2>4, IdsAre
  <2>6. peer'.credit[s] + Bytes(fromPeer', s) = peer'.initial BY <1>8, <1>11, <2>4, <2>5
  <2>7. ASSUME NEW j \in DOMAIN fromPeer', AboutStream(fromPeer'[j], s), i # j
        PROVE  i < j /\ fromPeer'[j].type = "DATA"
    <3>1. CASE j = n + 1 BY <1>3, <1>4, <2>2, <3>1
    <3>2. CASE j \in 1..n BY <1>4, <2>4, <2>7, <3>2
    <3> QED BY <1>4, <3>1, <3>2
  <2> QED BY <1>8, <1>12, <2>4, <2>6, <2>7
<1>15. Ending'
  <2>1. \A i \in peer.ended : i # id /\ i \in peer'.ended BY <1>1, <1>8
  <2>2. ASSUME NEW i, i \in peer.ended, NoDataOf(i) PROVE NoDataOf(i)'
    <3> SUFFICES ASSUME NEW j \in DOMAIN fromPeer', fromPeer'[j].type = "DATA" PROVE fromPeer'[j].id # i BY DEF NoDataOf
    <3>1. CASE j = n + 1 BY <1>3, <1>4, <2>1, <2>2, <3>1
    <3>2. CASE j \in 1..n BY <1>4, <2>2, <3>2 DEF NoDataOf
    <3> QED BY <1>4, <3>1, <3>2
  <2>3. ASSUME NEW i \in DOMAIN fromPeer', NEW j \in DOMAIN fromPeer', i < j, fromPeer'[i].type = "DATA",
               fromPeer'[j].type = "DATA", fromPeer'[i].id = fromPeer'[j].id
        PROVE  ~fromPeer'[i].end
    <3>1. i \in 1..n BY <1>4, <2>3
    <3>2. fromPeer'[i] = fromPeer[i] /\ i \in DOMAIN fromPeer BY <1>4, <3>1
    <3>3. CASE j = n + 1
      <4>1. fromPeer[i].id \notin peer.ended BY <1>1, <1>3, <1>4, <2>3, <3>2, <3>3
      <4> QED BY <1>0, <2>3, <3>2, <4>1 DEF Ending
    <3>4. CASE j \in 1..n
      <4>1. fromPeer'[j] = fromPeer[j] /\ j \in DOMAIN fromPeer BY <1>4, <3>4
      <4> QED BY <1>0, <2>3, <3>2, <4>1 DEF Ending
    <3> QED BY <1>4, <3>3, <3>4
  <2>4. ASSUME NEW i \in DOMAIN fromPeer', fromPeer'[i].type = "DATA", fromPeer'[i].end
        PROVE  fromPeer'[i].id \in peer'.ended
    <3>1. CASE i = n + 1 BY <1>3, <1>4, <1>8, <2>4, <3>1
    <3>2. CASE i \in 1..n
      <4>1. fromPeer'[i] = fromPeer[i] /\ i \in DOMAIN fromPeer BY <1>4, <3>2
      <4> QED BY <1>0, <2>1, <2>4, <4>1 DEF Ending
    <3> QED BY <1>4, <3>1, <3>2
  <2>5. iframe # NoFrame /\ iframe.end => iframe.id \in peer'.ended /\ NoDataOf(iframe.id)'
    <3> SUFFICES ASSUME iframe # NoFrame, iframe.end, NEW i, i = iframe.id PROVE i \in peer'.ended /\ NoDataOf(i)'
      BY <1>1 DEF NoDataOf
    <3>1. i \in peer.ended /\ NoDataOf(i) BY <1>0 DEF Ending
    <3> QED BY <2>1, <2>2, <3>1
  <2>6. ASSUME NEW i \in srv.shutRd
        PROVE  i \in peer'.ended /\ NoDataOf(i)' /\ (iframe # NoFrame => iframe.id # i)
    <3>1. i \in peer.ended /\ NoDataOf(i) /\ (iframe # NoFrame => iframe.id # i) BY <1>0 DEF Ending
    <3> QED BY <2>1, <2>2, <3>1
  <2>7. iframe' = iframe /\ srv' = srv BY <1>1
  <2>8. \A i \in srv'.shutRd : i \in peer'.ended /\ NoDataOf(i)' /\ (iframe' # NoFrame => iframe'.id # i)
    BY <2>6, <2>7
  <2>9. iframe' # NoFrame /\ iframe'.end => iframe'.id \in peer'.ended /\ NoDataOf(iframe.id)' BY <2>5, <2>7
  <2> QED BY <2>3, <2>4, <2>8, <2>9 DEF Ending, NoDataOf
<1>16. AckLedger' /\ InitialAt(n + 1)' = peer.initial
  <2>1. f.type # "SETTINGS_ACK" /\ UNCHANGED <<srv, toPeer>> BY <1>1, <1>3
  <2> QED BY <1>0, <1>1, <1>3, <1>8, <2>1, AcksAppend
<1>17. Afforded'
  <2> SUFFICES ASSUME use.honest
               PROVE  /\ peer'.credit[0] >= 0
                      /\ \A i \in DOMAIN fromPeer' : fromPeer'[i].type = "DATA" =>
                           peer'.credit[fromPeer'[i].id] + BytesAfter(fromPeer', i, fromPeer'[i].id)
                             >= peer'.initial - InitialAt(i)'
                      /\ iframe # NoFrame =>
                           peer'.credit[iframe.id] + Bytes(fromPeer', iframe.id) >= peer'.initial - srv.initial
    BY <1>1 DEF Afforded
  <2>0. \A i \in {0, id} : peer'.credit[i] = peer.credit[i] - len BY <1>3, <1>6, <1>9
  <2>1. peer'.credit[0] >= 0 /\ peer'.credit[id] >= 0
    <3>1. peer.credit[0] \in Int /\ peer.credit[id] \in Int BY <1>3, <1>9
    <3> QED BY <1>1, <1>2, <2>0, <3>1
  <2>2. ASSUME NEW i \in DOMAIN fromPeer', fromPeer'[i].type = "DATA"
        PROVE  peer'.credit[fromPeer'[i].id] + BytesAfter(fromPeer', i, fromPeer'[i].id) >= peer'.initial - InitialAt(i)'
    <3>1. CASE i = n + 1
      <4>1. fromPeer'[i].id = id /\ BytesAfter(fromPeer', i, id) = 0 BY <1>3, <1>4, <1>11, <3>1
      <4>2. InitialAt(i)' = peer.initial BY <1>16, <3>1
      <4>3. peer'.credit[id] \in Int BY <1>3, <1>9
      <4> QED BY <1>7, <1>8, <2>1, <4>1, <4>2, <4>3
    <3>2. CASE i \in 1..n
      <4>1. fromPeer'[i] = fromPeer[i] /\ i \in DOMAIN fromPeer /\ i \in 0..n BY <1>4, <3>2
      <4>2. fromPeer[i].id \in Ids BY <1>0, <2>2, <4>1, OpenedKnown
      <4>3. peer.credit[fromPeer[i].id] + BytesAfter(fromPeer, i, fromPeer[i].id) >= peer.initial - InitialAt(i)
        BY <1>0, <2>2, <4>1 DEF Afforded
      <4>4. InitialAt(i)' = InitialAt(i) BY <1>5, <4>1
      <4>5. peer'.credit[fromPeer[i].id] + BytesAfter(fromPeer', i, fromPeer[i].id)
              = peer.credit[fromPeer[i].id] + BytesAfter(fromPeer, i, fromPeer[i].id)
        BY <1>11, <3>2, <4>2
      <4> QED BY <1>8, <4>1, <4>3, <4>4, <4>5
    <3> QED BY <1>4, <3>1, <3>2
  <2>3. ASSUME iframe # NoFrame
        PROVE  peer'.credit[iframe.id] + Bytes(fromPeer', iframe.id) >= peer'.initial - srv.initial
    <3>1. iframe.id \in Ids BY <1>0, <2>3, OpenedKnown
    <3>2. peer.credit[iframe.id] + Bytes(fromPeer, iframe.id) >= peer.initial - srv.initial BY <1>0, <2>3 DEF Afforded
    <3> QED BY <1>8, <1>11, <3>1, <3>2
  <2> QED BY <2>1, <2>2, <2>3
<1>18. ASSUME NEW i \in Ids PROVE Slack(i)' = Slack(i)
  <2> DEFINE g == SettingsGap(i)
             u == Updates(toPeer, i)
             k == peer.credit[i]
             kk == peer'.credit[i]
             b == Bytes(fromPeer, i)
             bb == Bytes(fromPeer', i)
  <2>1. SettingsGap(i)' = g BY <1>1, <1>8 DEF SettingsGap
  <2>2. g \in Int /\ u \in Int BY <1>0, SlackType
  <2>3. kk + bb = k + b /\ bb \in Int /\ b \in Int /\ k \in Int /\ kk \in Int BY <1>9, <1>11
  <2>4. Updates(toPeer', i) = u BY <1>1
  <2>5. g - u - kk - bb = g - u - k - b
    <3> HIDE DEF g, u, k, kk, b, bb
    <3> QED BY <2>2, <2>3
  <2> QED BY <1>0, <1>1, <2>1, <2>2, <2>3, <2>4, <2>5, SlackPeer
<1>19. \A i \in DOMAIN fromPeer' : fromPeer'[i].type = "DATA" => fromPeer'[i].pad = NoPad \/ fromPeer'[i].len > 0
  <2> TAKE i \in DOMAIN fromPeer'
  <2>1. CASE i = n + 1 BY <1>1, <1>3, <1>4, <2>1
  <2>2. CASE i \in 1..n BY <1>0, <1>4, <2>2 DEF Types
  <2> QED BY <1>4, <2>1, <2>2
<1>20. frames' \in Nat /\ toPeer' \in Seq(Msg) BY <1>0, <1>1, TypesFacts DEF Types
<1>21. UNCHANGED <<srv, iframe, held, use, calls>> BY <1>1
<1> QED BY <1>4, <1>10, <1>13, <1>14, <1>15, <1>16, <1>17, <1>18, <1>19, <1>20, <1>21, PeerKeeps

LEMMA PeerSendsKeeps == ASSUME LedgerInv, PeerSends PROVE LedgerInv'
BY PeerOpenKeeps, PeerDataKeeps DEF PeerSends

\* The window a frame was sent with is one the server has announced.
LEMMA InitialAtType ==
  ASSUME Types, AckLedger, NEW i \in DOMAIN fromPeer
  PROVE  InitialAt(i) \in Int
<1> DEFINE c == CountTo(fromPeer, "SETTINGS_ACK", i)
           ack == Acknowledged
           len == Len(srv.inflight)
<1>1. c \in 0..ack /\ ack \in Nat
  <2>1. fromPeer \in Seq(In) BY TypesFacts
  <2>2. i \in 0..Len(fromPeer) BY <2>1
  <2> QED BY <2>1, <2>2, CountToStep, CountStep DEF Acknowledged
<1>2. len >= ack /\ len \in Nat
  <2>1. Count(toPeer, "SETTINGS") \in Nat BY TypesFacts, CountStep
  <2>2. Len(srv.urgent) \in Nat /\ len \in Nat BY TypesFacts, SrvFields
  <2>3. len = ack + Count(toPeer, "SETTINGS") + Len(srv.urgent) BY DEF AckLedger
  <2> QED BY <1>1, <2>1, <2>2, <2>3
<1>3. /\ srv.initial \in Int
      /\ \A j \in 1..len : srv.inflight[j] \in Int
  <2> DEFINE S == 0..MaxWindow
  <2>1. srv.initial \in Int BY TypesFacts
  <2>2. srv.inflight \in Seq(S) /\ S \subseteq Int BY TypesFacts, SrvFields
  <2> HIDE DEF S
  <2>3. \A j \in 1..len : srv.inflight[j] \in S BY <2>2
  <2> QED BY <2>1, <2>2, <2>3
<1>4. InitialAt(i) = IF c = 0 THEN srv.initial ELSE srv.inflight[c] BY DEF InitialAt
<1> HIDE DEF c, ack, len
<1>5. c # 0 => c \in 1..len BY <1>1, <1>2
<1> QED BY <1>3, <1>4, <1>5


\* An item leaves the wire to the peer.
LEMMA ItemRead ==
  ASSUME Types, toPeer # <<>>, toPeer' = Tail(toPeer), NEW m, m = Head(toPeer)
  PROVE  /\ m \in Msg /\ m = toPeer[1] /\ 1 \in DOMAIN toPeer /\ toPeer' \in Seq(Msg)
         /\ \A i \in Ids : /\ Updates(toPeer', i) = Updates(toPeer, i) - IncFor(m, i)
                           /\ Updates(toPeer, i) \in Nat /\ Updates(toPeer', i) \in Nat /\ IncFor(m, i) \in Nat
         /\ \A i \in Ids : Untouched(i) /\ UNCHANGED <<srv, iframe, held>> => Untouched(i)' /\ IncFor(m, i) = 0
         /\ Count(toPeer, "SETTINGS") \in Nat
         /\ Count(toPeer', "SETTINGS") = Count(toPeer, "SETTINGS") - One(m, "SETTINGS")
         /\ CountTo(toPeer, "SETTINGS", 1) = One(m, "SETTINGS")
         /\ \A j \in DOMAIN toPeer' :
              /\ j + 1 \in DOMAIN toPeer /\ toPeer'[j] = toPeer[j + 1]
              /\ CountTo(toPeer, "SETTINGS", j + 1) \in Nat
              /\ CountTo(toPeer', "SETTINGS", j) = CountTo(toPeer, "SETTINGS", j + 1) - One(m, "SETTINGS")
<1>1. toPeer \in Seq(Msg) BY TypesFacts
<1>2. /\ m \in Msg /\ m = toPeer[1] /\ toPeer' \in Seq(Msg) /\ Len(toPeer) \in Nat \ {0}
      /\ DOMAIN toPeer = 1..Len(toPeer) /\ DOMAIN toPeer' = 1..Len(toPeer) - 1
      /\ \A j \in 1..Len(toPeer) - 1 : toPeer'[j] = toPeer[j + 1] /\ j + 1 \in DOMAIN toPeer
  BY <1>1, HeadAndTail
<1>3. \A i \in Ids : /\ Updates(toPeer', i) = Updates(toPeer, i) - IncFor(m, i)
                     /\ Updates(toPeer, i) \in Nat /\ Updates(toPeer', i) \in Nat /\ IncFor(m, i) \in Nat
  <2> TAKE i \in Ids
  <2>1. Updates(Tail(toPeer), i) = Updates(toPeer, i) - IncFor(Head(toPeer), i) /\ Updates(toPeer, i) \in Nat
    BY <1>1, UpdatesStep
  <2>2. Updates(toPeer', i) \in Nat BY <1>2, UpdatesStep
  <2>3. IncFor(m, i) \in Nat BY <1>2, Contributions
  <2> QED BY <2>1, <2>2, <2>3
<1>4. ASSUME NEW i \in Ids, Untouched(i), UNCHANGED <<srv, iframe, held>> PROVE Untouched(i)' /\ IncFor(m, i) = 0
  <2>1. Updates(toPeer, i) = 0 BY <1>4 DEF Untouched
  <2>2. Updates(toPeer', i) = 0 /\ IncFor(m, i) = 0 BY <1>3, <2>1
  <2> QED BY <1>4, <2>2 DEF Untouched
<1>5. /\ Count(toPeer, "SETTINGS") \in Nat
      /\ Count(toPeer', "SETTINGS") = Count(toPeer, "SETTINGS") - One(m, "SETTINGS")
  BY <1>1, CountStep
<1>6. CountTo(toPeer, "SETTINGS", 1) = One(m, "SETTINGS")
  <2>1. CountTo(toPeer, "SETTINGS", 0) = 0 BY <1>1, CountToStep
  <2>2. \A i \in 1..Len(toPeer) : CountTo(toPeer, "SETTINGS", i) = CountTo(toPeer, "SETTINGS", i - 1) + One(toPeer[i], "SETTINGS")
    BY <1>1, CountToStep
  <2>3. 1 \in 1..Len(toPeer) /\ 1 - 1 = 0 BY <1>2
  <2>4. CountTo(toPeer, "SETTINGS", 1) = 0 + One(toPeer[1], "SETTINGS") BY <2>1, <2>2, <2>3
  <2> QED BY <1>2, <2>4 DEF One
<1>7. ASSUME NEW j \in DOMAIN toPeer'
      PROVE  /\ j + 1 \in DOMAIN toPeer /\ toPeer'[j] = toPeer[j + 1]
             /\ CountTo(toPeer, "SETTINGS", j + 1) \in Nat
             /\ CountTo(toPeer', "SETTINGS", j) = CountTo(toPeer, "SETTINGS", j + 1) - One(m, "SETTINGS")
  <2>1. j \in 1..Len(toPeer) - 1 /\ j \in 0..Len(toPeer) - 1 /\ j + 1 \in 0..Len(toPeer) BY <1>2
  <2>2. CountTo(Tail(toPeer), "SETTINGS", j) = CountTo(toPeer, "SETTINGS", j + 1) - One(Head(toPeer), "SETTINGS")
    BY <1>1, <2>1, CountToTail
  <2>3. CountTo(toPeer, "SETTINGS", j + 1) \in Nat
    <3>1. \A i \in 0..Len(toPeer) : CountTo(toPeer, "SETTINGS", i) \in 0..Count(toPeer, "SETTINGS") BY <1>1, CountToStep
    <3> QED BY <2>1, <3>1
  <2> QED BY <1>2, <2>1, <2>2, <2>3
<1> QED BY <1>2, <1>3, <1>4, <1>5, <1>6, <1>7

\* Whatever else the peer reads, its credit only grows, and by what the update was for.
LEMMA CreditRead ==
  ASSUME LedgerInv, toPeer # <<>>, toPeer' = Tail(toPeer), NEW m, m = Head(toPeer), m.type # "SETTINGS",
         UNCHANGED <<use, srv, iframe, held, frames, calls, fromPeer>>,
         peer' \in [credit : [Ids -> Int], initial : 0..MaxWindow, opened : SUBSET StreamIds, ended : SUBSET StreamIds],
         peer'.initial = peer.initial, peer'.opened = peer.opened, peer.ended \subseteq peer'.ended,
         \A i \in Ids : peer'.credit[i] = peer.credit[i] + IncFor(m, i)
  PROVE  LedgerInv'
<1>0. Types /\ Unopened /\ Opening /\ Ending /\ AckLedger /\ Afforded BY DEF LedgerInv
<1>1. /\ m \in Msg /\ toPeer' \in Seq(Msg)
      /\ \A i \in Ids : /\ Updates(toPeer', i) = Updates(toPeer, i) - IncFor(m, i)
                        /\ Updates(toPeer, i) \in Nat /\ Updates(toPeer', i) \in Nat /\ IncFor(m, i) \in Nat
  BY <1>0, ItemRead
<1>2. \A i \in Ids : Untouched(i) => Untouched(i)' /\ IncFor(m, i) = 0 BY <1>0, ItemRead
<1>3. Unopened' BY <1>0, <1>2, IdsAre DEF Unopened
<1>4. \A i \in Ids : peer.credit[i] \in Int /\ peer'.credit[i] \in Int BY <1>0, TypesFacts
<1>5. Opening'
  <2> SUFFICES ASSUME NEW i \in DOMAIN fromPeer, fromPeer[i].type = "HEADERS", NEW s, s = fromPeer[i].id
               PROVE  /\ s \in peer'.opened /\ Untouched(s)' /\ peer'.credit[s] + Bytes(fromPeer', s) = peer'.initial
                      /\ \A j \in DOMAIN fromPeer :
                           (AboutStream(fromPeer[j], s) /\ i # j) => i < j /\ fromPeer[j].type = "DATA"
    BY DEF Opening
  <2>1. s \in Ids BY <1>0, OpenedKnown
  <2>2. /\ s \in peer.opened /\ Untouched(s) /\ peer.credit[s] + Bytes(fromPeer, s) = peer.initial
        /\ \A j \in DOMAIN fromPeer : (AboutStream(fromPeer[j], s) /\ i # j) => i < j /\ fromPeer[j].type = "DATA"
    BY <1>0 DEF Opening
  <2>3. peer'.credit[s] = peer.credit[s] BY <1>2, <1>4, <2>1, <2>2
  <2> QED BY <1>2, <2>1, <2>2, <2>3
<1>6. Ending' BY <1>0 DEF Ending, NoDataOf
<1>7. AckLedger'
  <2>1. One(m, "SETTINGS") = 0 BY DEF One
  <2>2. Count(toPeer', "SETTINGS") = Count(toPeer, "SETTINGS") BY <1>0, <2>1, ItemRead
  <2>3. Acknowledged' = Acknowledged BY DEF Acknowledged
  <2>4. ASSUME NEW j \in DOMAIN toPeer', toPeer'[j].type = "SETTINGS"
        PROVE  toPeer'[j].inc = srv.inflight[Acknowledged + CountTo(toPeer', "SETTINGS", j)]
    <3>1. /\ j + 1 \in DOMAIN toPeer /\ toPeer'[j] = toPeer[j + 1] /\ CountTo(toPeer, "SETTINGS", j + 1) \in Nat
          /\ CountTo(toPeer', "SETTINGS", j) = CountTo(toPeer, "SETTINGS", j + 1) - One(m, "SETTINGS")
      BY <1>0, ItemRead
    <3>2. CountTo(toPeer', "SETTINGS", j) = CountTo(toPeer, "SETTINGS", j + 1) BY <2>1, <3>1
    <3> QED BY <1>0, <2>4, <3>1, <3>2 DEF AckLedger
  <2>5. peer'.initial = InitialAt(Len(fromPeer))' BY <1>0 DEF AckLedger, InitialAt
  <2> QED BY <1>0, <2>2, <2>3, <2>4, <2>5 DEF AckLedger
<1>8. Afforded'
  <2> SUFFICES ASSUME use.honest
               PROVE  /\ peer'.credit[0] >= 0
                      /\ \A i \in DOMAIN fromPeer : fromPeer[i].type = "DATA" =>
                           peer'.credit[fromPeer[i].id] + BytesAfter(fromPeer, i, fromPeer[i].id)
                             >= peer.initial - InitialAt(i)
                      /\ iframe # NoFrame =>
                           peer'.credit[iframe.id] + Bytes(fromPeer, iframe.id) >= peer.initial - srv.initial
    <3>1. \A i : InitialAt(i)' = InitialAt(i) BY DEF InitialAt
    <3> QED BY <3>1 DEF Afforded
  <2>1. peer.credit[0] >= 0 /\ peer'.credit[0] = peer.credit[0] + IncFor(m, 0) BY <1>0, IdsAre DEF Afforded
  <2>2. peer'.credit[0] >= 0 BY <1>1, <1>4, <2>1, IdsAre
  <2>3. ASSUME NEW i \in DOMAIN fromPeer, fromPeer[i].type = "DATA"
        PROVE  peer'.credit[fromPeer[i].id] + BytesAfter(fromPeer, i, fromPeer[i].id) >= peer.initial - InitialAt(i)
    <3> DEFINE id == fromPeer[i].id
               k == peer.credit[id]
               kk == peer'.credit[id]
               b == BytesAfter(fromPeer, i, id)
               d == peer.initial - InitialAt(i)
    <3>1. id \in Ids BY <1>0, <2>3, OpenedKnown
    <3>2. k + b >= d BY <1>0, <2>3 DEF Afforded
    <3>3. kk = k + IncFor(m, id) /\ IncFor(m, id) \in Nat /\ k \in Int BY <1>1, <1>4, <3>1
    <3>4. b \in Int
      <4>1. i \in 1..Len(fromPeer) /\ fromPeer \in Seq(In) BY <1>0, TypesFacts
      <4> QED BY <3>1, <4>1, AfterStep
    <3>5. d \in Int BY <1>0, <2>3, InitialAtType
    <3> HIDE DEF k, kk, b, d
    <3>6. kk + b >= d BY <3>2, <3>3, <3>4, <3>5
    <3> QED BY <3>6 DEF k, kk, b, d
  <2>4. ASSUME iframe # NoFrame
        PROVE  peer'.credit[iframe.id] + Bytes(fromPeer, iframe.id) >= peer.initial - srv.initial
    <3> DEFINE id == iframe.id
               k == peer.credit[id]
               kk == peer'.credit[id]
               b == Bytes(fromPeer, id)
               d == peer.initial - srv.initial
    <3>1. id \in Ids BY <1>0, <2>4, OpenedKnown
    <3>2. k + b >= d BY <1>0, <2>4 DEF Afforded
    <3>3. kk = k + IncFor(m, id) /\ IncFor(m, id) \in Nat /\ k \in Int BY <1>1, <1>4, <3>1
    <3>4. b \in Int /\ d \in Int
      <4>1. b \in Int BY <1>0, <3>1, SlackType
      <4>2. peer.initial \in Int /\ srv.initial \in Int BY <1>0, TypesFacts
      <4> QED BY <4>1, <4>2
    <3> HIDE DEF k, kk, b, d
    <3>5. kk + b >= d BY <3>2, <3>3, <3>4
    <3> QED BY <3>5 DEF k, kk, b, d
  <2> QED BY <2>2, <2>3, <2>4
<1>9. ASSUME NEW i \in Ids PROVE Slack(i)' = Slack(i)
  <2> DEFINE g == SettingsGap(i)
             u == Updates(toPeer, i)
             uu == Updates(toPeer', i)
             k == peer.credit[i]
             kk == peer'.credit[i]
             b == Bytes(fromPeer, i)
             c == IncFor(m, i)
  <2>1. SettingsGap(i)' = g BY DEF SettingsGap
  <2>2. g \in Int /\ b \in Int BY <1>0, SlackType
  <2>3. uu = u - c /\ u \in Int /\ uu \in Int /\ c \in Int /\ kk = k + c /\ k \in Int /\ kk \in Int BY <1>1, <1>4
  <2>4. Bytes(fromPeer', i) = b OBVIOUS
  <2>5. g - uu - kk - b = g - u - k - b
    <3> HIDE DEF g, u, uu, k, kk, b, c
    <3> QED BY <2>2, <2>3
  <2> QED BY <1>0, <2>1, <2>2, <2>3, <2>4, <2>5, SlackPeer
<1>10. /\ frames' \in Nat /\ fromPeer' \in Seq(In)
       /\ \A i \in DOMAIN fromPeer' : fromPeer'[i].type = "DATA" => fromPeer'[i].pad = NoPad \/ fromPeer'[i].len > 0
  BY <1>0, TypesFacts DEF Types
<1> QED BY <1>1, <1>3, <1>5, <1>6, <1>7, <1>8, <1>9, <1>10, PeerKeeps

\* The peer applies a new initial window, to the streams it has opened, and says so.
LEMMA SettingsRead ==
  ASSUME LedgerInv, toPeer # <<>>, toPeer' = Tail(toPeer), NEW m, m = Head(toPeer), m.type = "SETTINGS",
         UNCHANGED <<use, srv, iframe, held, frames, calls>>,
         peer' = [peer EXCEPT !.initial = m.inc,
                              !.credit = [id \in Ids |-> IF id \in peer.opened
                                                         THEN @[id] + m.inc - peer.initial ELSE @[id]]],
         fromPeer' = Append(fromPeer, [type |-> "SETTINGS_ACK"])
  PROVE  LedgerInv'
<1> DEFINE f == [type |-> "SETTINGS_ACK"]
           move == m.inc - peer.initial
           ack == Acknowledged
           sent == Count(toPeer, "SETTINGS")
<1> SUFFICES ASSUME NEW n, n = Len(fromPeer) PROVE LedgerInv' OBVIOUS
<1>0. Types /\ Unopened /\ Opening /\ Ending /\ AckLedger /\ Afforded BY DEF LedgerInv
<1>1. f \in In /\ f.type = "SETTINGS_ACK" /\ fromPeer' = Append(fromPeer, f) BY DEF In
<1>2. /\ m \in Msg /\ m = toPeer[1] /\ 1 \in DOMAIN toPeer /\ toPeer' \in Seq(Msg)
      /\ \A i \in Ids : /\ Updates(toPeer', i) = Updates(toPeer, i) - IncFor(m, i)
                        /\ Updates(toPeer, i) \in Nat /\ Updates(toPeer', i) \in Nat
  BY <1>0, ItemRead
<1>3. \A i \in Ids : IncFor(m, i) = 0 BY DEF IncFor, Fits
<1>4. \A i \in Ids : Updates(toPeer', i) = Updates(toPeer, i) /\ Updates(toPeer, i) \in Nat BY <1>2, <1>3
<1>5. m.inc \in 0..MaxWindow /\ m.inc \in Int
  <2>1. m \in Announcement BY <1>2 DEF Msg, Out
  <2>2. m.inc \in 0..MaxWindow BY <2>1, MsgFields
  <2> QED BY <2>2
<1> HIDE DEF f
<1>6. /\ n \in Nat /\ DOMAIN fromPeer = 1..n /\ DOMAIN fromPeer' = 1..n + 1
      /\ fromPeer' \in Seq(In) /\ Len(fromPeer') = n + 1 /\ fromPeer'[n + 1] = f
      /\ \A i \in 1..n : fromPeer'[i] = fromPeer[i]
  BY <1>0, <1>1, FrameSent
<1>7. \A i \in 0..n : InitialAt(i)' = InitialAt(i) BY <1>0, <1>1, FrameSent
<1>8. \A i \in Ids : DataFor(f, i) = 0 BY <1>1 DEF DataFor
<1>9. \A i \in Ids : /\ Bytes(fromPeer', i) = Bytes(fromPeer, i) /\ Bytes(fromPeer, i) \in Nat
                     /\ \A j \in 1..n : /\ BytesAfter(fromPeer', j, i) = BytesAfter(fromPeer, j, i)
                                        /\ BytesAfter(fromPeer, j, i) \in Int
  <2> SUFFICES ASSUME NEW i \in Ids
               PROVE  /\ Bytes(fromPeer', i) = Bytes(fromPeer, i) /\ Bytes(fromPeer, i) \in Nat
                      /\ \A j \in 1..n : /\ BytesAfter(fromPeer', j, i) = BytesAfter(fromPeer, j, i)
                                         /\ BytesAfter(fromPeer, j, i) \in Int
    OBVIOUS
  <2>1. /\ Bytes(fromPeer', i) = Bytes(fromPeer, i) + DataFor(f, i) /\ Bytes(fromPeer, i) \in Nat
        /\ \A j \in 1..n : /\ BytesAfter(fromPeer, j, i) \in Int
                           /\ BytesAfter(fromPeer', j, i) = BytesAfter(fromPeer, j, i) + DataFor(f, i)
    BY <1>0, <1>1, FrameSent
  <2> QED BY <1>8, <2>1
<1>10. /\ peer.credit \in [Ids -> Int] /\ peer.initial \in Int /\ peer.opened \in SUBSET StreamIds
       /\ peer \in [credit : [Ids -> Int], initial : 0..MaxWindow, opened : SUBSET StreamIds, ended : SUBSET StreamIds]
  BY <1>0, TypesFacts DEF Types
<1>11. /\ peer'.initial = m.inc /\ peer'.opened = peer.opened /\ peer'.ended = peer.ended
       /\ peer'.credit = [id \in Ids |-> IF id \in peer.opened
                                         THEN peer.credit[id] + m.inc - peer.initial ELSE peer.credit[id]]
  BY <1>10
<1>12. /\ move \in Int /\ peer'.initial = peer.initial + move
       /\ \A i \in Ids : /\ peer.credit[i] \in Int /\ peer'.credit[i] \in Int
                         /\ i \in peer.opened => peer'.credit[i] = peer.credit[i] + move
                         /\ i \notin peer.opened => peer'.credit[i] = peer.credit[i]
  <2>1. \A i \in Ids : peer.credit[i] \in Int BY <1>10
  <2>2. \A i \in Ids : peer'.credit[i] = IF i \in peer.opened
                                         THEN peer.credit[i] + m.inc - peer.initial ELSE peer.credit[i]
    BY <1>11
  <2> QED BY <1>5, <1>10, <1>11, <2>1, <2>2
<1>13. peer' \in [credit : [Ids -> Int], initial : 0..MaxWindow, opened : SUBSET StreamIds, ended : SUBSET StreamIds]
  <2>1. peer'.credit \in [Ids -> Int] BY <1>11, <1>12
  <2>2. peer' = [credit |-> peer'.credit, initial |-> m.inc, opened |-> peer.opened, ended |-> peer.ended]
    BY <1>10, <1>11
  <2>3. peer.ended \in SUBSET StreamIds BY <1>0, TypesFacts
  <2>4. peer.opened \in SUBSET StreamIds /\ m.inc \in 0..MaxWindow BY <1>5, <1>10
  <2> QED BY ONLY <2>1, <2>2, <2>3, <2>4
<1> HIDE DEF move
<1>14. \A i \in Ids : Untouched(i) => Untouched(i)' BY <1>0, ItemRead
<1>15. \A j \in DOMAIN fromPeer' : fromPeer'[j].type # "SETTINGS_ACK" =>
         j \in 1..n /\ j \in 0..n /\ j \in DOMAIN fromPeer /\ fromPeer'[j] = fromPeer[j]
  <2> TAKE j \in DOMAIN fromPeer'
  <2>1. CASE j = n + 1 BY <1>1, <1>6, <2>1
  <2>2. CASE j \in 1..n BY <1>6, <2>2
  <2> QED BY <1>6, <2>1, <2>2
<1>16. Unopened'
  <2> SUFFICES ASSUME NEW i \in StreamIds, i \notin peer.opened
               PROVE  Untouched(i)' /\ \A j \in DOMAIN fromPeer' : ~AboutStream(fromPeer'[j], i)
    BY <1>11 DEF Unopened
  <2>1. Untouched(i) /\ \A j \in DOMAIN fromPeer : ~AboutStream(fromPeer[j], i) BY <1>0 DEF Unopened
  <2>2. \A j \in DOMAIN fromPeer' : ~AboutStream(fromPeer'[j], i)
    <3> SUFFICES ASSUME NEW j \in DOMAIN fromPeer', AboutStream(fromPeer'[j], i) PROVE FALSE OBVIOUS
    <3>1. fromPeer'[j].type # "SETTINGS_ACK" BY DEF AboutStream
    <3> QED BY <1>15, <2>1, <3>1
  <2> QED BY <1>14, <2>1, <2>2, IdsAre
<1>17. Opening'
  <2> SUFFICES ASSUME NEW i \in DOMAIN fromPeer', fromPeer'[i].type = "HEADERS", NEW s, s = fromPeer'[i].id
               PROVE  /\ s \in peer'.opened /\ Untouched(s)' /\ peer'.credit[s] + Bytes(fromPeer', s) = peer'.initial
                      /\ \A j \in DOMAIN fromPeer' :
                           (AboutStream(fromPeer'[j], s) /\ i # j) => i < j /\ fromPeer'[j].type = "DATA"
    BY DEF Opening
  <2>1. i \in DOMAIN fromPeer /\ fromPeer'[i] = fromPeer[i] BY <1>15
  <2>2. /\ s \in peer.opened /\ Untouched(s) /\ peer.credit[s] + Bytes(fromPeer, s) = peer.initial
        /\ \A j \in DOMAIN fromPeer : (AboutStream(fromPeer[j], s) /\ i # j) => i < j /\ fromPeer[j].type = "DATA"
    BY <1>0, <2>1 DEF Opening
  <2>3. s \in Ids BY <1>10, <2>2, IdsAre
  <2>4. peer'.credit[s] + Bytes(fromPeer', s) = peer'.initial BY <1>9, <1>10, <1>12, <2>2, <2>3
  <2>5. ASSUME NEW j \in DOMAIN fromPeer', AboutStream(fromPeer'[j], s), i # j
        PROVE  i < j /\ fromPeer'[j].type = "DATA"
    <3>1. fromPeer'[j].type # "SETTINGS_ACK" BY <2>5 DEF AboutStream
    <3> QED BY <1>15, <2>2, <2>5, <3>1
  <2> QED BY <1>11, <1>14, <2>2, <2>3, <2>4, <2>5
<1>18. Ending'
  <2>1. \A i : NoDataOf(i) => NoDataOf(i)' BY <1>15 DEF NoDataOf
  <2>2. iframe # NoFrame /\ iframe.end => iframe.id \in peer.ended /\ NoDataOf(iframe.id)' BY <1>0, <2>1 DEF Ending
  <2>3. \A i \in srv.shutRd : i \in peer.ended /\ NoDataOf(i)' /\ (iframe # NoFrame => iframe.id # i)
    BY <1>0, <2>1 DEF Ending
  <2> QED BY <1>0, <1>11, <1>15, <2>2, <2>3 DEF Ending
<1>19. ack \in Nat /\ ack' = ack + 1 /\ sent \in Nat /\ sent' = sent - 1 /\ One(m, "SETTINGS") = 1
  <2>1. Count(Append(fromPeer, f), "SETTINGS_ACK") = Count(fromPeer, "SETTINGS_ACK") + One(f, "SETTINGS_ACK")
    BY <1>0, <1>1, CountStep, TypesFacts
  <2>2. Count(fromPeer, "SETTINGS_ACK") \in Nat BY <1>0, CountStep, TypesFacts
  <2>3. One(f, "SETTINGS_ACK") = 1 /\ One(m, "SETTINGS") = 1 BY <1>1 DEF One
  <2>4. sent \in Nat /\ sent' = sent - One(m, "SETTINGS") BY <1>0, ItemRead
  <2> QED BY <1>1, <2>1, <2>2, <2>3, <2>4 DEF Acknowledged
<1> HIDE DEF ack, sent
<1>20. m.inc = srv.inflight[ack + 1]
  <2>1. CountTo(toPeer, "SETTINGS", 1) = 1 BY <1>0, <1>19, ItemRead
  <2>2. toPeer[1].inc = srv.inflight[Acknowledged + CountTo(toPeer, "SETTINGS", 1)] BY <1>0, <1>2 DEF AckLedger
  <2> QED BY <1>2, <2>1, <2>2 DEF ack
<1>21. AckLedger'
  <2>1. Len(srv.inflight) = ack' + sent' + Len(srv.urgent)
    <3>1. Len(srv.urgent) \in Nat BY <1>0, TypesFacts, SrvFields
    <3>2. Len(srv.inflight) = ack + sent + Len(srv.urgent) BY <1>0 DEF AckLedger, ack, sent
    <3> QED BY <1>19, <3>1, <3>2
  <2>2. m.inc = InitialAt(Len(fromPeer))'
    <3>1. CountTo(fromPeer', "SETTINGS_ACK", Len(fromPeer')) = Count(fromPeer', "SETTINGS_ACK") BY <1>6, CountToStep
    <3>2. CountTo(fromPeer', "SETTINGS_ACK", Len(fromPeer')) = ack + 1 BY <1>19, <3>1 DEF ack, Acknowledged
    <3>3. ack + 1 # 0 BY <1>19
    <3> QED BY <1>20, <3>2, <3>3 DEF InitialAt
  <2>3. ASSUME NEW j \in DOMAIN toPeer', toPeer'[j].type = "SETTINGS"
        PROVE  toPeer'[j].inc = srv.inflight[ack' + CountTo(toPeer', "SETTINGS", j)]
    <3>1. /\ j + 1 \in DOMAIN toPeer /\ toPeer'[j] = toPeer[j + 1] /\ CountTo(toPeer, "SETTINGS", j + 1) \in Nat
          /\ CountTo(toPeer', "SETTINGS", j) = CountTo(toPeer, "SETTINGS", j + 1) - One(m, "SETTINGS")
      BY <1>0, ItemRead
    <3>2. toPeer[j + 1].inc = srv.inflight[ack + CountTo(toPeer, "SETTINGS", j + 1)]
      BY <1>0, <2>3, <3>1 DEF AckLedger, ack
    <3>3. ack' + CountTo(toPeer', "SETTINGS", j) = ack + CountTo(toPeer, "SETTINGS", j + 1) BY <1>19, <3>1
    <3> QED BY <3>1, <3>2, <3>3
  <2>4. ASSUME NEW j \in DOMAIN srv.urgent PROVE srv.urgent[j].inc = srv.inflight[ack' + sent' + j]
    <3>1. srv.urgent[j].inc = srv.inflight[ack + sent + j] BY <1>0 DEF AckLedger, ack, sent
    <3>2. ack' + sent' + j = ack + sent + j
      <4>1. j \in Nat
        <5>1. srv.urgent \in Seq(Announcement) BY <1>0, TypesFacts, SrvFields
        <5> QED BY <5>1
      <4> QED BY <1>19, <4>1
    <3> QED BY <3>1, <3>2
  <2> QED BY <1>11, <2>1, <2>2, <2>3, <2>4 DEF AckLedger, ack, sent
<1>22. Afforded'
  <2> SUFFICES ASSUME use.honest
               PROVE  /\ peer'.credit[0] >= 0
                      /\ \A i \in DOMAIN fromPeer' : fromPeer'[i].type = "DATA" =>
                           peer'.credit[fromPeer'[i].id] + BytesAfter(fromPeer', i, fromPeer'[i].id)
                             >= peer'.initial - InitialAt(i)'
                      /\ iframe # NoFrame =>
                           peer'.credit[iframe.id] + Bytes(fromPeer', iframe.id) >= peer'.initial - srv.initial
    BY DEF Afforded
  <2>1. peer'.credit[0] >= 0 BY <1>0, <1>10, <1>12, IdsAre DEF Afforded
  <2>2. ASSUME NEW i \in DOMAIN fromPeer', fromPeer'[i].type = "DATA"
        PROVE  peer'.credit[fromPeer'[i].id] + BytesAfter(fromPeer', i, fromPeer'[i].id) >= peer'.initial - InitialAt(i)'
    <3> DEFINE id == fromPeer[i].id
               k == peer.credit[id]
               kk == peer'.credit[id]
               b == BytesAfter(fromPeer, i, id)
               w == InitialAt(i)
    <3>1. i \in 1..n /\ i \in 0..n /\ i \in DOMAIN fromPeer /\ fromPeer'[i] = fromPeer[i] BY <1>15, <2>2
    <3>2. id \in peer.opened /\ id \in Ids BY <1>0, <2>2, <3>1, OpenedKnown
    <3>3. k + b >= peer.initial - w BY <1>0, <2>2, <3>1 DEF Afforded
    <3>4. kk = k + move /\ k \in Int /\ kk \in Int /\ b \in Int /\ BytesAfter(fromPeer', i, id) = b
      BY <1>9, <1>12, <3>1, <3>2
    <3>5. w \in Int /\ InitialAt(i)' = w BY <1>0, <1>7, <3>1, InitialAtType
    <3> HIDE DEF k, kk, b, w
    <3>6. kk + b >= peer'.initial - w BY <1>10, <1>12, <3>3, <3>4, <3>5
    <3> QED BY <3>1, <3>4, <3>5, <3>6 DEF kk
  <2>3. ASSUME iframe # NoFrame
        PROVE  peer'.credit[iframe.id] + Bytes(fromPeer', iframe.id) >= peer'.initial - srv.initial
    <3> DEFINE id == iframe.id
               k == peer.credit[id]
               kk == peer'.credit[id]
               b == Bytes(fromPeer, id)
               w == srv.initial
    <3>1. id \in peer.opened /\ id \in Ids BY <1>0, <2>3, OpenedKnown
    <3>2. k + b >= peer.initial - w BY <1>0, <2>3 DEF Afforded
    <3>3. kk = k + move /\ k \in Int /\ kk \in Int /\ b \in Int /\ Bytes(fromPeer', id) = b BY <1>9, <1>12, <3>1
    <3>4. w \in Int BY <1>0, TypesFacts
    <3> HIDE DEF k, kk, b, w
    <3>5. kk + b >= peer'.initial - w BY <1>10, <1>12, <3>2, <3>3, <3>4
    <3> QED BY <3>3, <3>5 DEF kk, w
  <2> QED BY <2>1, <2>2, <2>3
<1>23. ASSUME NEW i \in Ids PROVE Slack(i)' = Slack(i) \/ (i # 0 /\ srv.stream[i] = "idle")
  <2>1. CASE i # 0 /\ i \notin peer.opened BY <1>0, <2>1, OpenedKnown, IdsAre
  <2>2. CASE i = 0 \/ i \in peer.opened
    <3> DEFINE g == SettingsGap(i)
               gg == SettingsGap(i)'
               u == Updates(toPeer, i)
               k == peer.credit[i]
               kk == peer'.credit[i]
               b == Bytes(fromPeer, i)
    <3>1. (i = 0 /\ gg = g /\ kk = k) \/ (gg = g + move /\ kk = k + move)
      <4>1. CASE i = 0
        <5>1. i \notin peer.opened BY <1>10, <4>1, IdsAre
        <5> QED BY <1>12, <4>1, <5>1 DEF SettingsGap
      <4>2. CASE i # 0
        <5>1. g = peer.initial - srv.initial /\ gg = peer'.initial - srv.initial BY <4>2 DEF SettingsGap
        <5>2. srv.initial \in Int BY <1>0, TypesFacts
        <5> QED BY <1>10, <1>12, <2>2, <4>2, <5>1, <5>2
      <4> QED BY <4>1, <4>2
    <3>2. g \in Int /\ b \in Int /\ u \in Int /\ k \in Int /\ kk \in Int /\ gg \in Int
      <4>1. g \in Int /\ b \in Int /\ u \in Int BY <1>0, SlackType
      <4>2. k \in Int /\ kk \in Int BY <1>12
      <4> HIDE DEF g, gg, k, kk
      <4>3. gg \in Int BY <1>12, <3>1, <4>1
      <4> QED BY <4>1, <4>2, <4>3
    <3>3. Updates(toPeer', i) = u /\ Bytes(fromPeer', i) = b BY <1>4, <1>9
    <3>4. gg - u - kk - b = g - u - k - b
      <4>1. move \in Int BY <1>12
      <4> HIDE DEF g, gg, u, k, kk, b
      <4> QED BY ONLY <3>1, <3>2, <4>1
    <3> QED BY <1>0, <3>2, <3>3, <3>4, SlackPeer
  <2> QED BY <2>1, <2>2
<1>24. \A i \in DOMAIN fromPeer' : fromPeer'[i].type = "DATA" => fromPeer'[i].pad = NoPad \/ fromPeer'[i].len > 0
  BY <1>0, <1>15 DEF Types
<1>25. /\ frames' \in Nat /\ fromPeer' \in Seq(In) /\ toPeer' \in Seq(Msg)
       /\ UNCHANGED <<srv, iframe, held, use, calls>>
  BY <1>0, <1>2, <1>6 DEF Types
<1>26. \A i \in Ids : Slack(i)' = Slack(i) \/ (i # 0 /\ srv.stream[i] = "idle") BY <1>23
<1>27. LedgerInv OBVIOUS
<1> QED BY ONLY <1>13, <1>16, <1>17, <1>18, <1>21, <1>22, <1>24, <1>25, <1>26, <1>27, PeerKeeps

LEMMA PeerReadKeeps == ASSUME LedgerInv, PeerRead PROVE LedgerInv'
<1> SUFFICES ASSUME NEW m, m = Head(toPeer) PROVE LedgerInv' OBVIOUS
<1>0. Types BY DEF LedgerInv
<1>1. toPeer # <<>> /\ toPeer' = Tail(toPeer) /\ UNCHANGED <<use, srv, iframe, held, frames, calls>> BY DEF PeerRead
<1>2. m \in Msg /\ \A i \in Ids : IncFor(m, i) \in Nat
  <2>1. toPeer' \in Seq(Msg) /\ m \in Msg BY <1>0, <1>1, ItemRead
  <2> QED BY <2>1, Contributions
<1>3. /\ peer.credit \in [Ids -> Int] /\ peer.ended \in SUBSET StreamIds
      /\ peer \in [credit : [Ids -> Int], initial : 0..MaxWindow, opened : SUBSET StreamIds, ended : SUBSET StreamIds]
  BY <1>0, TypesFacts DEF Types
<1>4. CASE m.type = "WINDOW_UPDATE" /\ peer' = [peer EXCEPT !.credit[m.id] = @ + m.inc] /\ UNCHANGED fromPeer
  <2>1. m.id \in Ids /\ m.inc \in Nat BY <1>2, MsgFields
  <2>2. peer' \in [credit : [Ids -> Int], initial : 0..MaxWindow, opened : SUBSET StreamIds, ended : SUBSET StreamIds]
    BY <1>3, <1>4, <2>1
  <2>3. /\ peer'.initial = peer.initial /\ peer'.opened = peer.opened /\ peer'.ended = peer.ended
        /\ peer'.credit = [peer.credit EXCEPT ![m.id] = @ + m.inc]
    BY <1>3, <1>4
  <2>4. \A i \in Ids : IncFor(m, i) = IF i = m.id THEN m.inc ELSE 0 BY <1>4 DEF IncFor, Fits
  <2>5. \A i \in Ids : peer'.credit[i] = peer.credit[i] + IncFor(m, i)
    <3> TAKE i \in Ids
    <3>1. peer.credit[i] \in Int BY <1>3
    <3>2. CASE i = m.id BY <1>3, <2>1, <2>3, <2>4, <3>2
    <3>3. CASE i # m.id BY <1>3, <2>1, <2>3, <2>4, <3>1, <3>3
    <3> QED BY <3>2, <3>3
  <2> QED BY <1>1, <1>4, <2>2, <2>3, <2>5, CreditRead
<1>5. CASE m.type = "SETTINGS" /\ UNCHANGED <<use, srv, iframe, held, frames, calls>>
           /\ peer' = [peer EXCEPT !.initial = m.inc,
                                   !.credit = [id \in Ids |-> IF id \in peer.opened
                                                              THEN @[id] + m.inc - peer.initial ELSE @[id]]]
           /\ fromPeer' = Append(fromPeer, [type |-> "SETTINGS_ACK"])
  BY <1>1, <1>5, SettingsRead, Zenon
<1>6. ASSUME NEW e, e \in SUBSET StreamIds, peer.ended \subseteq e, m.type \in {"RST_STREAM", "GOAWAY"},
             peer' = [peer EXCEPT !.ended = e], UNCHANGED fromPeer
      PROVE  LedgerInv'
  <2>1. peer' \in [credit : [Ids -> Int], initial : 0..MaxWindow, opened : SUBSET StreamIds, ended : SUBSET StreamIds]
    BY <1>3, <1>6
  <2>2. peer'.initial = peer.initial /\ peer'.opened = peer.opened /\ peer'.ended = e /\ peer'.credit = peer.credit
    BY <1>3, <1>6
  <2>3. \A i \in Ids : peer'.credit[i] = peer.credit[i] + IncFor(m, i)
    <3>1. \A i \in Ids : IncFor(m, i) = 0 BY <1>6 DEF IncFor, Fits
    <3>2. \A i \in Ids : peer.credit[i] \in Int BY <1>3
    <3> QED BY <2>2, <3>1, <3>2
  <2> QED BY <1>1, <1>6, <2>1, <2>2, <2>3, CreditRead
<1>7. CASE m.type = "RST_STREAM" /\ peer' = [peer EXCEPT !.ended = @ \cup {m.id}] /\ UNCHANGED fromPeer
  <2>1. m.id \in StreamIds
    <3>1. m \in Out BY <1>2, <1>7, MsgFields DEF Msg
    <3> QED BY <1>7, <3>1, MsgFields
  <2>2. peer' = [peer EXCEPT !.ended = peer.ended \cup {m.id}] BY <1>7
  <2>3. peer.ended \cup {m.id} \in SUBSET StreamIds BY <1>3, <2>1
  <2> QED BY <1>6, <1>7, <2>2, <2>3
<1>8. CASE m.type = "GOAWAY" /\ peer' = [peer EXCEPT !.ended = StreamIds] /\ UNCHANGED fromPeer
  BY <1>3, <1>6, <1>8
<1>9. \/ m.type = "WINDOW_UPDATE" /\ peer' = [peer EXCEPT !.credit[m.id] = @ + m.inc] /\ UNCHANGED fromPeer
      \/ m.type = "SETTINGS"
         /\ peer' = [peer EXCEPT !.initial = m.inc,
                                 !.credit = [id \in Ids |-> IF id \in peer.opened
                                                            THEN @[id] + m.inc - peer.initial ELSE @[id]]]
         /\ fromPeer' = Append(fromPeer, [type |-> "SETTINGS_ACK"])
      \/ m.type = "RST_STREAM" /\ peer' = [peer EXCEPT !.ended = @ \cup {m.id}] /\ UNCHANGED fromPeer
      \/ m.type = "GOAWAY" /\ peer' = [peer EXCEPT !.ended = StreamIds] /\ UNCHANGED fromPeer
  BY Zenon DEF PeerRead
<1> QED BY <1>1, <1>4, <1>5, <1>7, <1>8, <1>9

-----------------------------------------------------------------------------
(* The invariant.                                                           *)

LEMMA InitLedger == ASSUME Init PROVE LedgerInv
<1>0. MaxWindow \in Nat /\ InitialWindow \in 0..MaxWindow /\ ConnectionWindow \in 0..MaxWindow
  BY SizesAssumption
<1>1. /\ srv.win = [id \in Ids |-> Window(IF id = 0 THEN ConnectionWindow ELSE InitialWindow)]
      /\ srv.stream = [s \in StreamIds |-> "idle"] /\ srv.shutRd = {} /\ srv.urgent = <<>> /\ srv.ob = <<>>
      /\ srv.goaway = "none" /\ srv.initial = InitialWindow /\ srv.inflight = <<>> /\ srv.overrun = {}
  BY DEF Init
<1>2. /\ iframe = NoFrame /\ fromPeer = <<>> /\ toPeer = <<>> /\ held = [s \in StreamIds |-> 0]
      /\ frames = 0 /\ calls = 0 /\ use \in Uses
      /\ peer.credit = [id \in Ids |-> IF id = 0 THEN ConnectionWindow ELSE 0]
      /\ peer.initial = InitialWindow /\ peer.opened = {} /\ peer.ended = {}
  BY DEF Init
<1>3. \A i \in Ids : /\ srv.win[i].local = (IF i = 0 THEN ConnectionWindow ELSE InitialWindow)
                     /\ srv.win[i].recv = 0 /\ srv.win[i].consumed = 0 /\ srv.win[i].reduction = 0
                     /\ srv.win[i].queued = FALSE /\ srv.win[i] \in Win
  BY <1>0, <1>1 DEF Window, Win
<1>4. DOMAIN <<>> = {} /\ \A S : <<>> \in Seq(S) OBVIOUS
<1>5. Types
  <2>1. srv \in Srv
    <3>1. srv.win \in [Ids -> Win] BY <1>1, <1>3
    <3>2. srv.stream \in [StreamIds -> {"idle", "opened", "closing", "closed"}] BY <1>1
    <3>3. srv = [win |-> srv.win, stream |-> srv.stream, shutRd |-> srv.shutRd, urgent |-> srv.urgent, ob |-> srv.ob,
                 goaway |-> srv.goaway, initial |-> srv.initial, inflight |-> srv.inflight, overrun |-> srv.overrun]
      BY DEF Init
    <3>4. srv.inflight \in Seq(0..MaxWindow) BY <1>1, <1>4
    <3> QED BY <1>0, <1>1, <1>4, <3>1, <3>2, <3>3, <3>4 DEF Srv
  <2>2. peer \in [credit : [Ids -> Int], initial : 0..MaxWindow, opened : SUBSET StreamIds, ended : SUBSET StreamIds]
    BY <1>0 DEF Init
  <2> QED BY <1>2, <1>4, <2>1, <2>2 DEF Types
<1>6. InRange(srv) BY <1>0, <1>1, <1>3, <1>4 DEF InRange
<1>7. \A i \in Ids : Updates(srv.ob, i) = 0 /\ Updates(toPeer, i) = 0 /\ Bytes(fromPeer, i) = 0
  BY <1>1, <1>2, NothingSent
<1>8. Slack(0) = 0
  <2>1. 0 \in Ids BY IdsAre
  <2>2. Claim(srv, 0) = ConnectionWindow BY <1>0, <1>3, <1>7, <2>1 DEF Claim
  <2>3. InFlight(0) = 0 /\ SettingsGap(0) = 0 /\ peer.credit[0] = ConnectionWindow
    BY <1>2, <1>7, <2>1 DEF InFlight, SettingsGap
  <2> QED BY <1>0, <1>7, <2>1, <2>2, <2>3 DEF Slack
<1>9. \A i \in Ids : i # 0 => ~Counted(i) /\ ~Live(srv, i) BY <1>1, IdsAre DEF Counted, Live
<1>10. Balanced BY <1>8, <1>9 DEF Balanced
<1>11. Roomy BY <1>8, <1>9 DEF Roomy
<1>12. Unopened BY <1>1, <1>2, <1>4, <1>7, IdsAre DEF Unopened, Untouched
<1>13. Opening BY <1>2, <1>4 DEF Opening
<1>14. Ending BY <1>1, <1>2, <1>4 DEF Ending
<1>15. Touched BY <1>1, <1>4 DEF Touched, ResetKnown
<1>16. Ignored BY <1>2 DEF Ignored
<1>17. HeldRight
  <2>1. HeldBytes = 0
    <3>1. IsFiniteSet(StreamIds) BY SizesAssumption
    <3>2. DOMAIN held = StreamIds /\ \A s \in StreamIds : held[s] = 0 BY <1>2
    <3> QED BY <3>1, <3>2, SumZeros DEF HeldBytes, SumFunction
  <2>2. Kept(srv, 0) = 0 BY <1>3, IdsAre DEF Kept
  <2> QED BY <1>9, <2>1, <2>2, IdsAre DEF HeldRight
<1>18. Within BY <1>0, <1>1, <1>3 DEF Within, Fitting
<1>19. AckLedger
  <2>1. \A type : Count(<<>>, type) = 0 BY <1>4, SumEmpty DEF Count, OfType
  <2>2. CountTo(<<>>, "SETTINGS_ACK", 0) = 0 BY SumToNone DEF CountTo
  <2>3. Len(<<>>) = 0 OBVIOUS
  <2>4. peer.initial = InitialAt(Len(fromPeer)) BY <1>1, <1>2, <2>2, <2>3 DEF InitialAt
  <2> QED BY <1>1, <1>2, <1>4, <2>1, <2>3, <2>4 DEF AckLedger, Acknowledged
<1>20. Afforded BY <1>0, <1>2, <1>4, IdsAre DEF Afforded
<1>21. LocalInitial BY <1>1 DEF LocalInitial
<1>22. NoneAccused BY <1>1 DEF NoneAccused
<1> QED BY <1>5, <1>6, <1>10, <1>11, <1>12, <1>13, <1>14, <1>15, <1>16, <1>17, <1>18, <1>19, <1>20, <1>21, <1>22 DEF LedgerInv

LEMMA NextLedger == ASSUME LedgerInv, Next PROVE LedgerInv'
<1>1. CASE Reading BY <1>1, RecvHeadKeeps, RecvPadLengthKeeps, RecvDataKeeps, IgnoreDataKeeps DEF Reading
<1> QED BY <1>1, SendKeeps, ApplicationKeeps, PeerSendsKeeps, PeerReadKeeps DEF Next

\* A step that changes nothing keeps the invariant.
LEMMA StutterLedger == ASSUME LedgerInv, UNCHANGED vars PROVE LedgerInv'
<1>1. UNCHANGED <<srv, iframe, fromPeer, toPeer, peer, held, frames, calls, use>> BY DEF vars
<1>2. \A i : Slack(i)' = Slack(i)
  BY <1>1 DEF Slack, Claim, SettingsGap, InFlight
<1>3. \A i : InitialAt(i)' = InitialAt(i) BY <1>1 DEF InitialAt
<1>4. \A i : Untouched(i)' <=> Untouched(i) BY <1>1 DEF Untouched
<1>5. /\ Types /\ Unopened /\ Opening /\ Ending /\ AckLedger /\ Afforded BY DEF LedgerInv
<1>6. AckLedger'
  <2>1. peer'.initial = InitialAt(Len(fromPeer))' BY <1>1, <1>5 DEF AckLedger, InitialAt
  <2> QED BY <1>1, <1>5, <2>1 DEF AckLedger, Acknowledged
<1>7. Afforded' BY <1>1, <1>3, <1>5 DEF Afforded
<1>8. Unopened' /\ Opening' /\ Ending' BY <1>1, <1>4, <1>5 DEF Unopened, Opening, Ending, NoDataOf
<1>9. /\ frames' \in Nat /\ fromPeer' \in Seq(In) /\ toPeer' \in Seq(Msg)
      /\ \A i \in DOMAIN fromPeer' : fromPeer'[i].type = "DATA" => fromPeer'[i].pad = NoPad \/ fromPeer'[i].len > 0
      /\ peer' \in [credit : [Ids -> Int], initial : 0..MaxWindow, opened : SUBSET StreamIds, ended : SUBSET StreamIds]
  BY <1>1, <1>5 DEF Types, Msg
<1> QED BY <1>1, <1>2, <1>6, <1>7, <1>8, <1>9, PeerKeeps

LEMMA LedgerInvariance == Spec => []LedgerInv
<1>1. Init => LedgerInv BY InitLedger
<1>2. LedgerInv /\ [Next]_vars => LedgerInv' BY NextLedger, StutterLedger
<1> QED BY <1>1, <1>2, PTL DEF Spec

-----------------------------------------------------------------------------
(* What the ledgers show.                                                   *)

\* What the invariant says of the counts of both sides
LEMMA LedgerAgrees == ASSUME LedgerInv PROVE LedgersAgree
<1>0. /\ Types /\ InRange(srv) /\ Balanced /\ HeldRight /\ Within BY DEF LedgerInv
<1>1. TypeOK
  <2>1. \A i \in Ids : srv.win[i].queued \in BOOLEAN BY <1>0, TypesFacts, SrvFields
  <2>2. \A i \in DOMAIN srv.ob : srv.ob[i].type = "WINDOW_UPDATE" =>
          srv.ob[i].inc > 0 /\ (Apart => srv.ob[i].inc <= MaxWindow)
    <3> SUFFICES ASSUME NEW i \in DOMAIN srv.ob, srv.ob[i].type = "WINDOW_UPDATE"
                 PROVE  srv.ob[i].inc > 0 /\ (Apart => srv.ob[i].inc <= MaxWindow)
      OBVIOUS
    <3>1. srv.ob[i] \in Out
      <4>1. srv.ob \in Seq(Out) BY <1>0, TypesFacts, SrvFields
      <4> QED BY <4>1
    <3> QED BY <1>0, <3>1, MsgFields DEF InRange
  <2>3. /\ srv.stream \in [StreamIds -> {"idle", "opened", "closing", "closed"}]
        /\ srv.shutRd \subseteq StreamIds /\ srv.goaway \in {"none", "queued", "sent"}
    BY <1>0, TypesFacts, SrvFields
  <2> QED BY <1>0, <2>1, <2>2, <2>3, TypesFacts DEF TypeOK, InRange
<1>2. CreditAgrees
  <2> SUFFICES ASSUME NEW i \in Ids, Counted(i)
               PROVE  srv.win[i].local - srv.win[i].recv + SettingsGap(i) = peer.credit[i] + InFlight(i) + Announced(i)
    BY DEF CreditAgrees
  <2>1. Slack(i) = 0 BY <1>0 DEF Balanced
  <2> DEFINE local == srv.win[i].local
             recv == srv.win[i].recv
             u == Updates(srv.ob, i)
             uu == Updates(toPeer, i)
             g == SettingsGap(i)
             k == peer.credit[i]
             b == InFlight(i)
  <2>2. g \in Int /\ uu \in Int /\ k \in Int /\ b \in Int BY <1>0, SlackType
  <2>3. local \in Int /\ recv \in Int /\ u \in Int BY <1>0, TypesFacts, SrvFields
  <2>4. local - recv - u + g - uu - k - b = 0 BY <2>1 DEF Slack, Claim
  <2>5. Announced(i) = u + uu BY DEF Announced
  <2> HIDE DEF local, recv, u, uu, g, k, b
  <2>6. local - recv + g = k + b + (u + uu) BY <2>2, <2>3, <2>4
  <2> QED BY <2>5, <2>6 DEF local, recv, g, k, b
<1>3. HeldIsCounted
  <2> SUFFICES ASSUME ~use.auto, use.increments = {}, use.sizes = {}
               PROVE  /\ ~IsClosing(srv) => srv.win[0].recv - srv.win[0].consumed = HeldBytes
                      /\ \A s \in StreamIds : Counted(s) =>
                           /\ srv.win[s].recv - srv.win[s].consumed = held[s]
                           /\ use.initials = {} => held[s] <= srv.win[s].local
    BY DEF HeldIsCounted
  <2>1. /\ ~IsClosing(srv) => srv.win[0].recv - srv.win[0].consumed = HeldBytes
        /\ \A s \in StreamIds : Counted(s) => srv.win[s].recv - srv.win[s].consumed = held[s]
    BY <1>0 DEF HeldRight, Kept
  <2>2. ASSUME NEW s \in StreamIds, Counted(s), use.initials = {} PROVE held[s] <= srv.win[s].local
    <3>1. s \in Ids BY IdsAre
    <3>2. srv.win[s].recv \in Int /\ srv.win[s].local \in Int /\ srv.win[s].consumed \in Nat
      <4>1. srv.win[s].consumed \in 0..MaxWindow BY <1>0, <3>1 DEF InRange
      <4> QED BY <1>0, <3>1, <4>1, TypesFacts, SrvFields
    <3>3. srv.win[s].recv <= srv.win[s].local BY <1>0, <2>2, <3>1 DEF Within, Fitting
    <3>4. srv.win[s].recv - srv.win[s].consumed = held[s] BY <2>1, <2>2
    <3> QED BY <3>2, <3>3, <3>4
  <2> QED BY <2>1, <2>2
<1> QED BY <1>1, <1>2, <1>3 DEF LedgersAgree

\* The two sides agree on every window, whatever pieces DATA is read in and however windows
\* were resized, and what the application holds is what the windows count (session.c:4929,
\* 6260-6330, helper.c:155-251): for any number of streams, any windows and any bounds.
THEOREM LedgersAlwaysAgree == Spec => []LedgersAgree
<1>1. LedgerInv => LedgersAgree BY LedgerAgrees
<1> QED BY <1>1, LedgerInvariance, PTL

\* A peer that keeps within its windows is never accused, and one that does not gets no
\* further by it (session.c:4915, 4923, 4952).
THEOREM OnlyOverrunsAreAccused == Spec => []AccusedRightly
<1>1. LedgerInv => AccusedRightly
  BY DEF LedgerInv, AccusedRightly, NoFalseAlarm, NoneAccused, OverrunContained, Touched, Within, Fitting
<1> QED BY <1>1, LedgerInvariance, PTL
=============================================================================
