---------------------------- MODULE HdRingbufProofs ----------------------------
(***************************************************************************)
(* The array of a header table behaves as a list, for every range of the   *)
(* front, every size it begins with and however many entries: HdRingbuf    *)
(* implements Deque.                                                       *)
(***************************************************************************)
EXTENDS HdRingbuf, WellFoundedInduction, TLAPS

\* Where the entry i places behind the front is, in an array of size places
Place(f, i, size) == ((f + i) % Word) % size

-----------------------------------------------------------------------------
(* Arithmetic of the front. *)

\* A set of numbers has a least.
LEMMA LeastNumber ==
  ASSUME NEW S \in SUBSET Nat, S # {}
  PROVE  \E n \in S : \A m \in S : n <= m
<1> DEFINE R == OpToRel(<, Nat)
<1>1. \A x, y \in Nat : <<x, y>> \in R <=> x < y
  BY DEF OpToRel
<1>2. IsWellFoundedOn(R, Nat)
  BY NatLessThanWellFounded
<1> HIDE DEF R
<1>3. PICK n \in S : \A m \in S : ~(<<m, n>> \in R)
  BY <1>2, WFMin
<1>4. \A m \in S : ~(m < n)
  BY <1>1, <1>3
<1> QED BY <1>4

\* The remainder of what is written as a multiple and a rest.
LEMMA Remainder ==
  ASSUME NEW d \in Nat \ {0}, NEW k \in Int, NEW a \in 0 .. d - 1
  PROVE  (k * d + a) % d = a
OBVIOUS

\* Every number the front is computed from is a multiple and a rest.
LEMMA Quotient ==
  ASSUME NEW d \in Nat \ {0}, NEW x \in Nat \cup {-1}
  PROVE  \E k \in Int : \E a \in 0 .. d - 1 : x = k * d + a /\ x % d = a
<1> DEFINE B == {n \in Nat : ~(\E k \in Int : \E a \in 0 .. d - 1 : n = k * d + a)}
<1>1. ASSUME B # {} PROVE FALSE
  <2>1. B \subseteq Nat
    OBVIOUS
  <2> HIDE DEF B
  <2>2. PICK n \in B : \A m \in B : n <= m
    BY <1>1, <2>1, LeastNumber
  <2>3. n \in Nat
    BY <2>1
  <2>4. CASE n < d
    <3>1. n = 0 * d + n /\ n \in 0 .. d - 1
      BY <2>3, <2>4
    <3> QED BY <2>2, <3>1 DEF B
  <2>5. CASE n >= d
    <3> DEFINE m == n - d
    <3>1. m \in Nat /\ m < n
      BY <2>3, <2>5
    <3>2. m \notin B
      BY <2>2, <2>3, <3>1
    <3> HIDE DEF m
    <3>3. PICK k \in Int, a \in 0 .. d - 1 : m = k * d + a
      BY <3>1, <3>2 DEF B
    <3>4. n = m + d
      BY <2>3 DEF m
    <3>5. n = (k + 1) * d + a /\ k + 1 \in Int
      BY <3>3, <3>4
    <3> QED BY <2>2, <3>5 DEF B
  <2> QED BY <2>3, <2>4, <2>5
<1>2. PICK k \in Int, a \in 0 .. d - 1 : x = k * d + a
  <2>1. CASE x \in Nat
    BY <1>1, <2>1
  <2>2. CASE x = -1
    <3>1. x = (-1) * d + (d - 1) /\ d - 1 \in 0 .. d - 1 /\ -1 \in Int
      BY <2>2
    <3> QED BY <3>1
  <2> QED BY <2>1, <2>2
<1>3. x % d = a
  BY <1>2, Remainder
<1> QED BY <1>2, <1>3

\* A multiple of d more leaves the same remainder.
LEMMA Shifted ==
  ASSUME NEW d \in Nat \ {0}, NEW q \in Int, NEW x \in Nat \cup {-1}
  PROVE  (x + q * d) % d = x % d
<1>1. PICK k \in Int, a \in 0 .. d - 1 : x = k * d + a /\ x % d = a
  BY Quotient
<1>2. x + q * d = (k + q) * d + a /\ k + q \in Int
  BY <1>1
<1> DEFINE j == k + q
<1> HIDE DEF j
<1>3. x + q * d = j * d + a /\ j \in Int
  BY <1>2 DEF j
<1>4. (j * d + a) % d = a
  BY <1>1, <1>3, Remainder
<1> QED BY <1>1, <1>3, <1>4

\* Coming around at the end of the range of the front makes no difference to the place.
LEMMA Around ==
  ASSUME RingbufAssumption, NEW d \in PowersOfTwo, NEW x \in Nat \cup {-1}
  PROVE  (x % Word) % d = x % d
<1>1. d \in Nat \ {0} /\ Word \in Nat \ {0} /\ Word % d = 0
  BY DEF RingbufAssumption, PowersOfTwo
<1>2. PICK q \in Int : Word = q * d + 0
  <2>1. Word \in Nat \cup {-1}
    BY <1>1
  <2>2. PICK q \in Int, a \in 0 .. d - 1 : Word = q * d + a /\ Word % d = a
    BY <1>1, <2>1, Quotient
  <2> QED BY <1>1, <2>2
<1>3. PICK k \in Int, r \in 0 .. Word - 1 : x = k * Word + r /\ x % Word = r
  BY <1>1, Quotient
<1>4. x = r + (k * q) * d
  BY <1>1, <1>2, <1>3
<1> DEFINE j == k * q
<1>5. j \in Int
  BY <1>2, <1>3
<1> HIDE DEF j
<1>6. x = r + j * d
  BY <1>4 DEF j
<1>7. (r + j * d) % d = r % d
  <2>1. r \in Nat \cup {-1}
    BY <1>1
  <2> QED BY <1>1, <1>5, <2>1, Shifted
<1> QED BY <1>3, <1>6, <1>7

\* Where the entries are: one after another, and around at the end of the array.
LEMMA PlaceIs ==
  ASSUME RingbufAssumption, NEW d \in PowersOfTwo, NEW f \in Nat, NEW i \in -1 .. d - 1
  PROVE  LET a == f % d
         IN  /\ a \in 0 .. d - 1
             /\ Place(f, i, d) = IF a + i < 0 THEN a + i + d ELSE IF a + i < d THEN a + i ELSE a + i - d
<1>1. d \in Nat \ {0}
  BY DEF PowersOfTwo
<1>2. PICK k \in Int, a \in 0 .. d - 1 : f = k * d + a /\ f % d = a
  BY <1>1, Quotient
<1> DEFINE b == IF a + i < 0 THEN a + i + d ELSE IF a + i < d THEN a + i ELSE a + i - d
           q == IF a + i < 0 THEN k - 1 ELSE IF a + i < d THEN k ELSE k + 1
<1>3. Place(f, i, d) = (f + i) % d
  <2>1. f + i \in Nat \cup {-1}
    BY <1>1
  <2> QED BY <2>1, Around DEF Place
<1>4. b \in 0 .. d - 1 /\ q \in Int
  BY <1>1, <1>2
<1>5. f + i = q * d + b
  <2>1. (k - 1) * d = k * d - d /\ (k + 1) * d = k * d + d
    BY <1>1, <1>2
  <2> DEFINE m == k * d
             lo == (k - 1) * d
             hi == (k + 1) * d
  <2>2. m \in Int /\ lo = m - d /\ hi = m + d /\ f = m + a
    BY <1>1, <1>2, <2>1
  <2>3. q * d = IF a + i < 0 THEN lo ELSE IF a + i < d THEN m ELSE hi
    OBVIOUS
  <2> HIDE DEF m, lo, hi, q
  <2> QED BY <1>1, <1>2, <2>2, <2>3
<1> HIDE DEF b, q
<1>6. (q * d + b) % d = b
  BY <1>1, <1>4, Remainder
<1>7. Place(f, i, d) = b
  BY <1>3, <1>5, <1>6
<1> QED BY <1>2, <1>7 DEF b

\* Two entries have two places, and there is one before the first while the array is not full.
LEMMA PlacesDiffer ==
  ASSUME RingbufAssumption, NEW d \in PowersOfTwo, NEW f \in Nat,
         NEW i \in -1 .. d - 1, NEW j \in -1 .. d - 1, i < j, j - i < d
  PROVE  Place(f, i, d) # Place(f, j, d) /\ Place(f, i, d) \in 0 .. d - 1
<1>1. d \in Nat \ {0}
  BY DEF PowersOfTwo
<1> DEFINE a == f % d
           p == Place(f, i, d)
           q == Place(f, j, d)
<1>2. a \in 0 .. d - 1 /\ p = IF a + i < 0 THEN a + i + d ELSE IF a + i < d THEN a + i ELSE a + i - d
  BY PlaceIs
<1>3. q = IF a + j < 0 THEN a + j + d ELSE IF a + j < d THEN a + j ELSE a + j - d
  BY PlaceIs
<1> HIDE DEF a, p, q
<1>4. p # q /\ p \in 0 .. d - 1
  BY <1>1, <1>2, <1>3
<1> QED BY <1>4 DEF p, q

\* The front one place lower: where it points, and where what was behind the old one is.
LEMMA FrontLower ==
  ASSUME RingbufAssumption, NEW d \in PowersOfTwo, NEW f \in 0 .. Word - 1
  PROVE  /\ Before(f) \in 0 .. Word - 1 /\ Masked(Before(f), d - 1) = Place(f, -1, d)
         /\ \A i \in -1 .. d - 2 : Place(Before(f), i + 1, d) = Place(f, i, d)
<1>1. d \in Nat \ {0} /\ Word \in Nat \ {0}
  BY DEF PowersOfTwo, RingbufAssumption
<1>2. /\ Before(f) \in 0 .. Word - 1
      /\ Before(f) = f - 1 \/ (f = 0 /\ Before(f) = Word - 1)
  <2>1. CASE f = 0
    <3>1. (-1) * Word + (Word - 1) = -1 /\ Word - 1 \in 0 .. Word - 1
      BY <1>1
    <3>2. ((-1) * Word + (Word - 1)) % Word = Word - 1
      BY <1>1, <3>1, Remainder
    <3> QED BY <1>1, <2>1, <3>1, <3>2 DEF Before
  <2>2. CASE f # 0
    <3>1. 0 * Word + (f - 1) = f - 1 /\ f - 1 \in 0 .. Word - 1
      BY <1>1, <2>2
    <3>2. (0 * Word + (f - 1)) % Word = f - 1
      BY <1>1, <3>1, Remainder
    <3> QED BY <3>1, <3>2 DEF Before
  <2> QED BY <2>1, <2>2
<1>3. Masked(Before(f), d - 1) = Place(f, -1, d)
  <2>1. f + -1 = f - 1 /\ (d - 1) + 1 = d
    BY <1>1
  <2> QED BY <2>1 DEF Masked, Before, Place
<1>4. ASSUME NEW i \in -1 .. d - 2 PROVE Place(Before(f), i + 1, d) = Place(f, i, d)
  <2>1. CASE Before(f) = f - 1
    <3>1. Before(f) + (i + 1) = f + i
      BY <1>1, <2>1
    <3> QED BY <3>1 DEF Place
  <2>2. CASE f = 0 /\ Before(f) = Word - 1
    <3>1. Before(f) + (i + 1) = i + 1 * Word /\ f + i = i /\ i \in Nat \cup {-1} /\ 1 \in Int
      BY <1>1, <2>2
    <3>2. (i + 1 * Word) % Word = i % Word
      BY <1>1, <3>1, Shifted
    <3> QED BY <3>1, <3>2 DEF Place
  <2> QED BY <1>2, <2>1, <2>2
<1> QED BY <1>2, <1>3, <1>4

-----------------------------------------------------------------------------
(* The array. *)

\* There is a least power of two that is not less than n.
LEMMA SizeIs ==
  ASSUME RingbufAssumption, NEW n \in 0 .. Word
  PROVE  SizeFor(n) \in PowersOfTwo /\ SizeFor(n) >= n
<1> DEFINE S == {d \in PowersOfTwo : d >= n}
<1>1. Word \in Nat \ {0}
  BY DEF RingbufAssumption
<1>2. Word \in S
  <2>1. (1 * Word + 0) % Word = 0 /\ 1 * Word + 0 = Word
    BY <1>1, Remainder
  <2> QED BY <1>1, <2>1 DEF PowersOfTwo
<1>3. S \in SUBSET Nat
  BY DEF PowersOfTwo
<1>4. PICK d \in S : \A m \in S : d <= m
  BY <1>2, <1>3, LeastNumber
<1>5. d \in PowersOfTwo /\ d >= n /\ \A t \in PowersOfTwo : t >= n => d <= t
  BY <1>4
<1> QED BY <1>5 DEF SizeFor

\* Where Get looks.
LEMMA GetIs ==
  ASSUME NEW i
  PROVE  mask \in Nat => Get(i) = buffer[Place(first, i, mask + 1)]
BY DEF Get, Masked, Place

\* The array is ready for one more: the same entries in the same order.
LEMMA ReservedIs ==
  ASSUME RingbufAssumption, TypeOK, len < MaxLen
  PROVE  LET r == Reserved
             d == r.mask + 1
         IN  /\ d \in PowersOfTwo /\ r.mask \in Nat /\ DOMAIN r.buffer = 0 .. r.mask
             /\ r.first \in 0 .. Word - 1 /\ len + 1 <= d
             /\ \A i \in 0 .. len - 1 : r.buffer[Place(r.first, i, d)] = Get(i)
<1>1. /\ Word \in Nat \ {0} /\ len \in Nat /\ len + 1 \in 0 .. Word
      /\ mask \in Nat /\ mask + 1 \in PowersOfTwo /\ DOMAIN buffer = 0 .. mask /\ first \in 0 .. Word - 1
  BY DEF RingbufAssumption, TypeOK
<1>2. CASE mask + 1 >= len + 1
  <2>1. Reserved = [buffer |-> buffer, mask |-> mask, first |-> first]
    BY <1>2 DEF Reserved
  <2> QED BY <1>1, <1>2, <2>1, GetIs
<1>3. CASE ~(mask + 1 >= len + 1)
  <2> DEFINE size == SizeFor(len + 1)
             b == [i \in 0 .. size - 1 |-> IF i < len THEN Get(i) ELSE Garbage]
  <2>1. size \in PowersOfTwo /\ size >= len + 1
    BY <1>1, SizeIs
  <2>2. size \in Nat \ {0} /\ size - 1 \in Nat /\ (size - 1) + 1 = size
    BY <2>1 DEF PowersOfTwo
  <2>3. Reserved = [buffer |-> b, mask |-> size - 1, first |-> 0]
    BY <1>3 DEF Reserved
  <2> HIDE DEF size
  <2>4. \A i \in 0 .. len - 1 : Place(0, i, size) = i /\ b[i] = Get(i)
    <3> SUFFICES ASSUME NEW i \in 0 .. len - 1 PROVE Place(0, i, size) = i /\ b[i] = Get(i)
      OBVIOUS
    <3>1. i \in -1 .. size - 1 /\ i \in 0 .. size - 1 /\ i < len /\ 0 \in Nat
      BY <1>1, <2>1, <2>2
    <3> DEFINE a == 0 % size
    <3>2. a \in 0 .. size - 1 /\ Place(0, i, size) = IF a + i < 0 THEN a + i + size ELSE IF a + i < size THEN a + i ELSE a + i - size
      BY <2>1, <3>1, PlaceIs
    <3>3. a = 0
      <4>1. (0 * size + 0) % size = 0 /\ 0 * size + 0 = 0
        BY <2>2, Remainder
      <4> QED BY <4>1
    <3> HIDE DEF a
    <3> QED BY <2>2, <3>1, <3>2, <3>3
  <2>5. DOMAIN b = 0 .. size - 1
    OBVIOUS
  <2> HIDE DEF b
  <2>6. 0 \in 0 .. Word - 1
    BY <1>1
  <2> QED BY <1>1, <2>1, <2>2, <2>3, <2>4, <2>5, <2>6
<1> QED BY <1>2, <1>3

\* An entry is put in front of the others.
LEMMA Pushed ==
  ASSUME RingbufAssumption, TypeOK, NEW e \in Entries, PushFront(e)
  PROVE  /\ TypeOK' /\ len' = len + 1
         /\ Get(0)' = e /\ \A i \in 0 .. len - 1 : Get(i + 1)' = Get(i)
<1> DEFINE r == Reserved
           d == r.mask + 1
           f == Before(r.first)
           p == Masked(f, r.mask)
<1>1. /\ d \in PowersOfTwo /\ r.mask \in Nat /\ DOMAIN r.buffer = 0 .. r.mask
      /\ r.first \in 0 .. Word - 1 /\ len + 1 <= d
      /\ \A i \in 0 .. len - 1 : r.buffer[Place(r.first, i, d)] = Get(i)
  BY ReservedIs DEF PushFront
<1>2. /\ mask' = r.mask /\ first' = f /\ buffer' = [r.buffer EXCEPT ![p] = e] /\ len' = len + 1
      /\ len \in Nat
  BY DEF PushFront, TypeOK
<1>3. d \in Nat \ {0} /\ r.mask = d - 1
  BY <1>1 DEF PowersOfTwo
<1> HIDE DEF r
<1>4. /\ f \in 0 .. Word - 1 /\ p = Place(r.first, -1, d)
      /\ \A i \in -1 .. d - 2 : Place(f, i + 1, d) = Place(r.first, i, d)
  BY <1>1, <1>3, FrontLower
<1> HIDE DEF f, p
<1>5. p \in 0 .. d - 1 /\ \A i \in 0 .. len - 1 : Place(r.first, i, d) # p /\ Place(r.first, i, d) \in 0 .. d - 1
  <2>1. CASE d = 1
    <3>1. -1 \in -1 .. d - 1 /\ r.first \in Nat
      BY <1>1, <2>1
    <3> DEFINE a == r.first % d
    <3>2. a \in 0 .. d - 1 /\ p = IF a + -1 < 0 THEN a + -1 + d ELSE IF a + -1 < d THEN a + -1 ELSE a + -1 - d
      BY <1>1, <1>4, <3>1, PlaceIs
    <3> HIDE DEF a
    <3>3. p \in 0 .. d - 1
      BY <2>1, <3>2
    <3>4. 0 .. len - 1 = {}
      BY <1>1, <1>2, <2>1
    <3> QED BY <3>3, <3>4
  <2>2. CASE d > 1
    <3>1. r.first \in Nat /\ -1 \in -1 .. d - 1 /\ 0 \in -1 .. d - 1 /\ -1 < 0 /\ 0 - -1 < d
      BY <1>1, <1>3, <2>2
    <3>2. p \in 0 .. d - 1
      BY <1>1, <1>4, <3>1, PlacesDiffer
    <3>3. ASSUME NEW i \in 0 .. len - 1 PROVE Place(r.first, i, d) # p /\ Place(r.first, i, d) \in 0 .. d - 1
      <4>1. i \in -1 .. d - 1 /\ -1 < i /\ i - -1 < d
        BY <1>1, <1>2, <1>3
      <4>2. Place(r.first, i, d) # p
        BY <1>1, <1>4, <3>1, <4>1, PlacesDiffer
      <4> DEFINE a == r.first % d
      <4>3. /\ a \in 0 .. d - 1
            /\ Place(r.first, i, d) = IF a + i < 0 THEN a + i + d ELSE IF a + i < d THEN a + i ELSE a + i - d
        BY <1>1, <3>1, <4>1, PlaceIs
      <4> HIDE DEF a
      <4>4. Place(r.first, i, d) \in 0 .. d - 1
        BY <1>3, <4>1, <4>3
      <4> QED BY <4>2, <4>4
    <3> QED BY <3>2, <3>3
  <2> QED BY <1>3, <2>1, <2>2
<1>6. mask' + 1 = d /\ \A i : Get(i)' = buffer'[Place(f, i, d)]
  BY <1>1, <1>2 DEF Get, Masked, Place
<1>7. Get(0)' = e
  <2>1. Place(f, 0, d) = p
    <3>1. -1 \in -1 .. d - 2 /\ -1 + 1 = 0
      BY <1>3
    <3>2. Place(f, -1 + 1, d) = Place(r.first, -1, d)
      BY <1>4, <3>1
    <3> QED BY <1>4, <3>1, <3>2
  <2>2. buffer'[p] = e
    BY <1>1, <1>2, <1>3, <1>5
  <2> QED BY <1>6, <2>1, <2>2
<1>8. ASSUME NEW i \in 0 .. len - 1 PROVE Get(i + 1)' = Get(i)
  <2>1. i \in -1 .. d - 2
    BY <1>1, <1>2, <1>3
  <2>2. Place(f, i + 1, d) = Place(r.first, i, d)
    BY <1>4, <2>1
  <2> DEFINE q == Place(r.first, i, d)
  <2>3. q # p /\ q \in 0 .. d - 1 /\ r.buffer[q] = Get(i)
    BY <1>1, <1>5
  <2> HIDE DEF q
  <2>4. buffer'[q] = r.buffer[q]
    BY <1>1, <1>2, <1>3, <2>3
  <2> DEFINE j == i + 1
  <2>5. Place(f, j, d) = q
    BY <2>2 DEF q
  <2> HIDE DEF j
  <2>6. Get(j)' = buffer'[Place(f, j, d)]
    BY <1>6
  <2> QED BY <2>3, <2>4, <2>5, <2>6 DEF j
<1>9. TypeOK'
  <2>1. ASSUME NEW i \in 0 .. len' - 1 PROVE Get(i)' \in Entries
    <3>1. CASE i = 0
      BY <1>7, <3>1
    <3>2. CASE i # 0
      <4> DEFINE j == i - 1
      <4>1. j \in 0 .. len - 1 /\ i = j + 1
        BY <1>2, <3>2
      <4> HIDE DEF j
      <4>2. Get(i)' = Get(j)
        BY <1>8, <4>1
      <4> QED BY <4>1, <4>2 DEF TypeOK
    <3> QED BY <3>1, <3>2
  <2>2. DOMAIN buffer' = 0 .. mask'
    BY <1>1, <1>2
  <2>3. len' \in 0 .. mask' + 1
    BY <1>1, <1>2, <1>3
  <2> QED BY <1>1, <1>2, <1>4, <1>6, <2>1, <2>2, <2>3 DEF TypeOK
<1> QED BY <1>2, <1>7, <1>8, <1>9

\* The last entry goes.
LEMMA Popped ==
  ASSUME RingbufAssumption, TypeOK, PopBack
  PROVE  /\ TypeOK' /\ len > 0 /\ len' = len - 1 /\ \A i : Get(i)' = Get(i)
<1>1. len > 0 /\ len' = len - 1 /\ buffer' = buffer /\ mask' = mask /\ first' = first /\ len \in Nat
  BY DEF PopBack, TypeOK
<1>2. \A i : Get(i)' = Get(i)
  BY <1>1 DEF Get, Masked
<1>3. mask + 1 \in Nat
  BY DEF TypeOK, PowersOfTwo
<1>4. TypeOK'
  <2>1. len' \in 0 .. mask' + 1
    BY <1>1, <1>3 DEF TypeOK
  <2>2. \A i \in 0 .. len' - 1 : i \in 0 .. len - 1
    BY <1>1
  <2> QED BY <1>1, <1>2, <2>1, <2>2 DEF TypeOK
<1> QED BY <1>1, <1>2, <1>4

\* The array fits its entries, and what masking finds is one of them, in every state.
LEMMA RingInvariance ==
  ASSUME RingbufAssumption
  PROVE  Spec => []TypeOK
<1>1. Init => TypeOK
  <2> SUFFICES ASSUME Init PROVE TypeOK
    OBVIOUS
  <2> DEFINE d == SizeFor(InitSize)
  <2>1. d \in PowersOfTwo
    <3>1. InitSize \in 0 .. Word
      BY DEF RingbufAssumption
    <3> QED BY <3>1, SizeIs
  <2>2. mask = d - 1 /\ buffer = [i \in 0 .. mask |-> Garbage] /\ first = 0 /\ len = 0
    BY DEF Init
  <2> HIDE DEF d
  <2>3. d \in Nat \ {0} /\ Word \in Nat \ {0} /\ mask \in Nat /\ mask + 1 = d
    BY <2>1, <2>2 DEF PowersOfTwo, RingbufAssumption
  <2>4. 0 .. len - 1 = {}
    BY <2>2
  <2> QED BY <2>1, <2>2, <2>3, <2>4 DEF TypeOK
<1>2. TypeOK /\ [Next]_vars => TypeOK'
  <2>1. TypeOK /\ UNCHANGED vars => TypeOK'
    BY DEF TypeOK, vars, Get, Masked
  <2> QED BY <2>1, Pushed, Popped DEF Next
<1> QED BY <1>1, <1>2, PTL DEF Spec

\* Every push and pop does to the entries what it would to a list, also when the front wraps around
\* at the end of its range and when the array is replaced while it does not begin at zero, for
\* every range of the front that is a power of two, every size and every number of entries
\* (nghttp2_hd.c:594, 600, 638, 655).
THEOREM RingIsDeque ==
  ASSUME RingbufAssumption
  PROVE  Spec => ImplementsDeque
<1>1. Init => D!Init
  <2> SUFFICES ASSUME Init PROVE [i \in 1 .. len |-> Get(i - 1)] = << >>
    BY DEF D!Init, List
  <2>1. len = 0
    BY DEF Init
  <2> QED BY <2>1
<1>2. TypeOK /\ [Next]_vars => [D!Next]_List
  <2> SUFFICES ASSUME TypeOK, [Next]_vars PROVE D!Next \/ List' = List
    OBVIOUS
  <2>1. len \in Nat /\ \A i \in 1 .. len : i - 1 \in 0 .. len - 1 /\ List[i] = Get(i - 1)
    BY DEF TypeOK, List, PowersOfTwo
  <2>2. List \in Seq(Entries) /\ Len(List) = len
    <3>1. \A i \in 1 .. len : Get(i - 1) \in Entries
      BY <2>1 DEF TypeOK
    <3> QED BY <2>1, <3>1 DEF List
  <2>3. List' = [i \in 1 .. len' |-> Get(i - 1)']
    BY DEF List
  <2>4. ASSUME NEW e \in Entries, PushFront(e) PROVE List' = <<e>> \o List
    <3>1. /\ len' = len + 1 /\ Get(0)' = e /\ \A i \in 0 .. len - 1 : Get(i + 1)' = Get(i)
      BY <2>4, Pushed
    <3> DEFINE L == List
    <3>2. L \in Seq(Entries) /\ Len(L) = len /\ \A i \in 1 .. len : L[i] = Get(i - 1)
      BY <2>1, <2>2
    <3>3. ASSUME NEW i \in 1 .. len + 1 PROVE Get(i - 1)' = IF i = 1 THEN e ELSE L[i - 1]
      <4>1. CASE i = 1
        <5>1. i - 1 = 0
          BY <4>1
        <5> QED BY <3>1, <4>1, <5>1
      <4>2. CASE i # 1
        <5> DEFINE j == i - 2
                   k == i - 1
        <5>1. j \in 0 .. len - 1 /\ k = j + 1 /\ k \in 1 .. len /\ k - 1 = j
          BY <2>1, <4>2
        <5> HIDE DEF j, k
        <5>2. Get(k)' = Get(j) /\ L[k] = Get(j)
          BY <3>1, <3>2, <5>1
        <5> QED BY <4>2, <5>2 DEF k
      <4> QED BY <4>1, <4>2
    <3>4. <<e>> \o L = [i \in 1 .. len + 1 |-> IF i = 1 THEN e ELSE L[i - 1]]
      <4> HIDE DEF L
      <4> QED BY ONLY <2>1, <3>2
    <3>5. List' = [i \in 1 .. len + 1 |-> IF i = 1 THEN e ELSE L[i - 1]]
      BY <2>3, <3>1, <3>3
    <3> QED BY <3>4, <3>5
  <2>5. ASSUME PopBack PROVE List # << >> /\ List' = SubSeq(List, 1, Len(List) - 1)
    <3>1. /\ len > 0 /\ len' = len - 1 /\ \A i : Get(i)' = Get(i)
      BY <2>5, Popped
    <3> DEFINE L == List
    <3>2. L \in Seq(Entries) /\ Len(L) = len /\ \A i \in 1 .. len : L[i] = Get(i - 1)
      BY <2>1, <2>2
    <3> HIDE DEF L
    <3>3. L # << >> /\ SubSeq(L, 1, len - 1) = [i \in 1 .. len - 1 |-> L[i]]
      BY ONLY <2>1, <3>1, <3>2
    <3>4. List' = [i \in 1 .. len - 1 |-> L[i]]
      BY <2>1, <2>3, <3>1, <3>2
    <3> QED BY <3>2, <3>3, <3>4 DEF L
  <2>6. CASE UNCHANGED vars
    BY <2>6 DEF vars, List, Get, Masked
  <2> QED BY <2>4, <2>5, <2>6 DEF Next, D!Next, D!PushFront, D!PopBack
<1> QED BY <1>1, <1>2, RingInvariance, PTL DEF Spec, ImplementsDeque, D!Spec
=============================================================================
