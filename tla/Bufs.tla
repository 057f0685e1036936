-------------------------------- MODULE Bufs --------------------------------
(***************************************************************************)
(* nghttp2_bufs: a chain of chunks that frames and header blocks are        *)
(* written into.  A chunk is a record of what was written, and of the octet *)
(* under its end, which the _hold operations change without moving the end. *)
(* An operation that finds no room leaves the error that it returns in the  *)
(* record, and its caller does nothing more with it.                        *)
(***************************************************************************)
EXTENDS Integers, Sequences, SequencesExt

\* What is in memory that nothing has been written to.
Garbage == -1
NewChunk == [data |-> <<>>, under |-> Garbage]

\* A chain whose chunks hold length octets after the first offset of each.
NewBufs(length, offset, max, keep) ==
  [chain |-> <<NewChunk>>, cur |-> 1, room |-> length - offset, max |-> max, keep |-> keep,
   error |-> FALSE]

Avail(bufs) == bufs.room - Len(bufs.chain[bufs.cur].data)
BufsLen(bufs) == FoldLeft(LAMBDA n, chunk : n + Len(chunk.data), 0, bufs.chain)
Contents(bufs) == FlattenSeq([i \in DOMAIN bufs.chain |-> bufs.chain[i].data])

\* A chunk that is already there is used again before another is made.
AllocChain(bufs) ==
  IF bufs.cur < Len(bufs.chain) THEN [bufs EXCEPT !.cur = @ + 1]
  ELSE IF Len(bufs.chain) = bufs.max THEN [bufs EXCEPT !.error = TRUE]
  ELSE [bufs EXCEPT !.chain = Append(@, NewChunk), !.cur = @ + 1]

EnsureAddb(bufs) == IF Avail(bufs) > 0 THEN bufs ELSE AllocChain(bufs)

\* Bits that are set in either octet.
Or(x, y) ==
  IF Garbage \in {x, y} THEN Garbage
  ELSE FoldLeft(LAMBDA v, i : 2 * v + (IF 1 \in {(x \div i) % 2, (y \div i) % 2} THEN 1 ELSE 0),
                0, <<128, 64, 32, 16, 8, 4, 2, 1>>)

\* The fast operations, which the caller has made sure there is room for.
FastAddb(bufs, b) ==
  [bufs EXCEPT !.chain[bufs.cur] = [data |-> Append(@.data, b), under |-> Garbage]]
FastAddbHold(bufs, b) == [bufs EXCEPT !.chain[bufs.cur].under = b]
FastOrb(bufs, b) ==
  [bufs EXCEPT !.chain[bufs.cur] = [data |-> Append(@.data, Or(@.under, b)), under |-> Garbage]]
FastOrbHold(bufs, b) == [bufs EXCEPT !.chain[bufs.cur].under = Or(@, b)]

\* Nothing is written once there was no room.
Unless(e, Write(_)) == IF e.error THEN e ELSE Write(e)

Addb(bufs, b) == Unless(EnsureAddb(bufs), LAMBDA e : FastAddb(e, b))
AddbHold(bufs, b) == Unless(EnsureAddb(bufs), LAMBDA e : FastAddbHold(e, b))

\* Octet after octet, over as many chunks as they take; those that fit stay when the rest
\* do not.
BufsAdd(bufs, octets) == FoldLeft(Addb, bufs, octets)

\* The first keep chunks are emptied and kept, the others given back.
BufsReset(bufs) ==
  LET n == IF Len(bufs.chain) < bufs.keep THEN Len(bufs.chain) ELSE bufs.keep
  IN [bufs EXCEPT !.chain = [i \in 1..n |-> NewChunk], !.cur = 1, !.error = FALSE]

NextPresent(bufs) == bufs.cur < Len(bufs.chain) /\ bufs.chain[bufs.cur + 1].data # <<>>
=============================================================================
