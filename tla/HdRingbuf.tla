------------------------------ MODULE HdRingbuf ------------------------------
(***************************************************************************)
(* hd_ringbuf: the entries of a header table in an array whose size is a    *)
(* power of two.  The front moves down through the array, wrapping around   *)
(* at zero by unsigned arithmetic, and the array is replaced by a larger    *)
(* one when it is full.                                                     *)
(***************************************************************************)
EXTENDS Integers, Sequences

CONSTANTS
  Entries,
  Garbage,   \* what is in an array that nothing has been written to
  Word,      \* size_t is taken modulo this, a power of two (2^64 in the code)
  InitSize,  \* bufsize of hd_ringbuf_init
  MaxLen     \* bound: entries in the buffer

RingbufAssumption ==
  /\ Garbage \notin Entries /\ Word \in Nat \ {0} /\ \E k \in 0..64 : Word = 2^k
  /\ InitSize \in 1..Word /\ MaxLen \in 0..Word

VARIABLES buffer, mask, first, len

vars == <<buffer, mask, first, len>>

\* The powers of two up to Word, which is one: its divisors.
PowersOfTwo == {d \in 1..Word : Word % d = 0}

\* The least power of two that is not less than n.
SizeFor(n) == CHOOSE s \in PowersOfTwo : s >= n /\ \A t \in PowersOfTwo : t >= n => s <= t

\* x & mask, as the mask is a power of two less one.
Masked(x, m) == x % (m + 1)

Get(idx) == buffer[Masked((first + idx) % Word, mask)]

Init ==
  /\ mask = SizeFor(InitSize) - 1 /\ buffer = [i \in 0..mask |-> Garbage]
  /\ first = 0 /\ len = 0

\* The array, mask and front once there is place for another entry.
\* Mutant: the front stays where it was in the old array.
ReservedAt ==
  IF mask + 1 >= len + 1 THEN [buffer |-> buffer, mask |-> mask, first |-> first]
  ELSE LET size == SizeFor(len + 1)
       IN [buffer |-> [i \in 0..size - 1 |-> IF i < len THEN Get(i) ELSE Garbage],
           mask |-> size - 1, first |-> first]
Reserved ==
  IF mask + 1 >= len + 1 THEN [buffer |-> buffer, mask |-> mask, first |-> first]
  ELSE LET size == SizeFor(len + 1)
       IN [buffer |-> [i \in 0..size - 1 |-> IF i < len THEN Get(i) ELSE Garbage],
           mask |-> size - 1, first |-> 0]

\* Mutant: the front is not unsigned.
BeforeOrZero(f) == IF f = 0 THEN 0 ELSE f - 1
Before(f) == (f - 1) % Word

PushFront(e) ==
  /\ len < MaxLen
  /\ LET r == Reserved
     IN /\ mask' = r.mask /\ first' = Before(r.first)
        /\ buffer' = [r.buffer EXCEPT ![Masked(Before(r.first), r.mask)] = e]
  /\ len' = len + 1

PopBack == len > 0 /\ len' = len - 1 /\ UNCHANGED <<buffer, mask, first>>

Next == (\E e \in Entries : PushFront(e)) \/ PopBack

Spec == Init /\ [][Next]_vars

-----------------------------------------------------------------------------
(* Properties.                                                              *)

\* The entries fit in an array whose size divides the range of the front: masking what
\* wrapped around at the end of that range is then still right.
TypeOK ==
  /\ mask \in Nat /\ mask + 1 \in PowersOfTwo /\ DOMAIN buffer = 0..mask
  /\ first \in 0..Word - 1 /\ len \in 0..mask + 1
  /\ \A i \in 0..len - 1 : Get(i) \in Entries

List == [i \in 1..len |-> Get(i - 1)]
D == INSTANCE Deque WITH list <- List

\* Every push and pop does to the entries what it would to a list, also when the front
\* wraps around and when the array is replaced while it does not begin at zero.
ImplementsDeque == D!Spec
=============================================================================
