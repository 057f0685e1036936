---------------------------- MODULE RecvStallProofs ----------------------------
(***************************************************************************)
(* NoStall: where windows only grow, a peer that faces an open window can   *)
(* send.  Since the two sides agree on the windows (RecvWindowProofs), what *)
(* is left to show is that the server does not sit on a used window: as     *)
(* soon as no update is queued, what could be handed back is little, which  *)
(* every place that counts, consumes, resizes or sends has to see to.       *)
(***************************************************************************)
EXTENDS RecvWindowProofs

CountedIn(s, id) == ~IsClosing(s) /\ id \notin s.overrun /\ (id # 0 => s.stream[id] = "opened")

\* A window that is marked has an update queued.
Announcing(s, id) == s.win[id].queued => Updates(s.ob, id) > 0

\* Of a window without a mark, little could be handed back: what was received, or all of that but
\* the h bytes the application holds.  (One byte more, for a Pad Length is consumed first.)
Little(w, h) ==
  IF use.auto THEN ~ShouldSendWindowUpdate(w.local, w.recv)
  ELSE w.recv - h <= 1 \/ w.recv - h <= w.local \div 2

\* All that the application does not hold any more was consumed.
Handed(w, h) == ~use.auto => w.recv - h <= w.consumed

Ready(s, id, h) ==
  CountedIn(s, id) => /\ Announcing(s, id) /\ Handed(s.win[id], h)
                      /\ ~s.win[id].queued => Little(s.win[id], h)

Level(s) == \A id \in Ids : s.win[id].reduction = 0
Taken(id) == IF id = 0 THEN HeldBytes ELSE held[id]

\* Of a window the peer is done with nothing need be handed back.
Prompt == Level(srv) /\ \A id \in Ids \ peer.ended : Ready(srv, id, Taken(id))
StallInv == Growing => Prompt

-----------------------------------------------------------------------------
(* The helpers of the library.                                              *)

\* What happens elsewhere leaves a window as it is.
LEMMA SameReady ==
  ASSUME NEW s, NEW t, NEW i \in Ids, NEW h, Same(s, t, i), IsClosing(s) => IsClosing(t), Ready(s, i, h)
  PROVE  Ready(t, i, h)
BY DEF Ready, Same, CountedIn, Announcing

\* Where the session ends, or a stream, nothing is counted.
LEMMA ClosingReady ==
  ASSUME NEW t, NEW i, NEW h, IsClosing(t) \/ (i # 0 /\ t.stream[i] # "opened")
  PROVE  Ready(t, i, h)
BY DEF Ready, CountedIn

LEMMA LevelSame ==
  ASSUME NEW s, NEW t, NEW id \in Ids, Level(s), \A i \in Ids : i # id => Same(s, t, i),
         t.win[id].reduction = s.win[id].reduction
  PROVE  Level(t)
<1> SUFFICES ASSUME NEW i \in Ids PROVE t.win[i].reduction = 0 BY DEF Level
<1>1. CASE i = id BY <1>1 DEF Level
<1>2. CASE i # id BY <1>2 DEF Level, Same
<1> QED BY <1>1, <1>2

\* An update marks the window, of a stream as long as it lives.
LEMMA UpdateMarks ==
  ASSUME NEW s \in Srv, NEW id \in Ids, NEW n
  PROVE  LET t == AddWindowUpdate(s, id, n)
         IN t.win[id].queued = (s.win[id].queued \/ id = 0 \/ Live(s, id))
<1> DEFINE q == s.win[id].queued \/ id = 0 \/ Live(s, id)
           w == [s.win[id] EXCEPT !.queued = q]
           t == AddWindowUpdate(s, id, n)
<1>1. s.win \in [Ids -> Win] /\ s.win[id] \in Win BY SrvFields
<1>2. w.queued = q
  <2> HIDE DEF q
  <2> QED BY <1>1 DEF Win
<1>3. t.win = [s.win EXCEPT ![id] = w] BY DEF AddWindowUpdate, Srv
<1> HIDE DEF w, q
<1>4. t.win[id] = w BY <1>1, <1>3
<1> QED BY <1>2, <1>4 DEF q

\* What is marked, and has an update queued, is ready.
LEMMA MarkedReady ==
  ASSUME NEW s \in Srv, NEW id \in Ids, NEW n \in Nat \ {0}, InRange(s) /\ Apart => n <= MaxWindow,
         NEW t, Moves(AddWindowUpdate(s, id, n), t, id), t.ob = AddWindowUpdate(s, id, n).ob,
         t.win[id].queued = AddWindowUpdate(s, id, n).win[id].queued, NEW h,
         CountedIn(s, id) => Handed(t.win[id], h)
  PROVE  Ready(t, id, h)
<1> DEFINE u == AddWindowUpdate(s, id, n)
<1>1. Moves(s, u, id) /\ Updates(u.ob, id) = Updates(s.ob, id) + n BY AddWindowUpdateIs
<1>2. u.win[id].queued = (s.win[id].queued \/ id = 0 \/ Live(s, id)) BY UpdateMarks
<1>3. t.ob = u.ob /\ t.win[id].queued = u.win[id].queued /\ Moves(u, t, id) OBVIOUS
<1>4. Updates(s.ob, id) \in Nat BY SrvFields
<1> HIDE DEF u
<1>5. Moves(s, t, id) BY <1>1, <1>3, MovesTwice
<1>6. CountedIn(t, id) => CountedIn(s, id) BY <1>5 DEF Moves, Onward, CountedIn, IsClosing
<1>7. CountedIn(s, id) => id = 0 \/ Live(s, id) BY IdsAre DEF CountedIn, Live
<1>8. Updates(t.ob, id) > 0 BY <1>1, <1>3, <1>4
<1> QED BY <1>2, <1>3, <1>6, <1>7, <1>8 DEF Ready, Announcing

\* Where updates are automatic, a window is ready after Replenish.
LEMMA ReplenishReady ==
  ASSUME NEW s \in Srv, NEW id \in Ids, use.auto, NEW h
  PROVE  LET t == Replenish(s, id)
         IN /\ (CountedIn(s, id) => Announcing(s, id)) => Ready(t, id, h)
            /\ t.win[id].reduction = s.win[id].reduction
<1> DEFINE t == Replenish(s, id)
           due == /\ use.auto /\ ~s.win[id].queued
                  /\ ShouldSendWindowUpdate(s.win[id].local, s.win[id].recv)
           n == s.win[id].recv
           u == AddWindowUpdate(s, id, n)
           w == [u.win[id] EXCEPT !.recv = 0]
<1>1. CASE ~due
  <2>1. t = s BY <1>1 DEF Replenish
  <2>2. ~s.win[id].queued => ~ShouldSendWindowUpdate(s.win[id].local, s.win[id].recv) BY <1>1
  <2> QED BY <2>1, <2>2 DEF Ready, Handed, Little
<1>2. CASE due
  <2>1. n \in Nat \ {0} /\ (InRange(s) /\ Apart => n <= MaxWindow) BY <1>2, SrvFields DEF ShouldSendWindowUpdate, InRange
  <2>2. /\ Moves(s, u, id) /\ u \in Srv /\ u.win[id].local = s.win[id].local /\ u.win[id].recv = n
        /\ u.win[id].reduction = s.win[id].reduction /\ u.win[id] \in Win
    BY <2>1, AddWindowUpdateIs
  <2>3. t = [u EXCEPT !.win[id] = w] BY <1>2, <2>2 DEF Replenish, Srv
  <2>4. /\ w \in Win /\ w.local = u.win[id].local /\ w.recv = 0 /\ w.reduction = u.win[id].reduction
        /\ w.consumed = u.win[id].consumed /\ w.queued = u.win[id].queued
    BY <2>2 DEF Win
  <2>5. u = AddWindowUpdate(s, id, n) OBVIOUS
  <2> HIDE DEF u, w
  <2>6. Moves(u, t, id) /\ t.win[id] = w /\ t.ob = u.ob
    BY <2>1, <2>2, <2>3, <2>4, IdsAre, WindowCounts
  <2> HIDE DEF t, n
  <2>7. Handed(t.win[id], h) BY DEF Handed
  <2>8. Ready(t, id, h) BY <2>1, <2>4, <2>5, <2>6, <2>7, MarkedReady
  <2> QED BY <2>2, <2>4, <2>6, <2>8 DEF t
<1> QED BY <1>1, <1>2

\* The application does not matter where updates are automatic.
LEMMA AutoReady ==
  ASSUME use.auto, NEW s, NEW id, NEW h, NEW g, Ready(s, id, h)
  PROVE  Ready(s, id, g)
BY DEF Ready, Handed, Little

\* Bytes that are counted are held.
LEMMA CountedReady ==
  ASSUME NEW s \in Srv, NEW id \in Ids, NEW n \in Nat, NEW h \in Int, ~Overruns(s.win[id], n)
  PROVE  LET t == [s EXCEPT !.win[id].recv = @ + n]
         IN /\ Moves(s, t, id) /\ t \in Srv /\ t.win[id].reduction = s.win[id].reduction
            /\ Ready(s, id, h) => /\ CountedIn(t, id) => Announcing(t, id)
                                  /\ ~use.auto => Ready(t, id, h + n)
<1> DEFINE w == [s.win[id] EXCEPT !.recv = @ + n]
           t == [s EXCEPT !.win[id].recv = @ + n]
<1>1. Moves(s, t, id) /\ t \in Srv BY CountedIs
<1>2. s.win[id] \in Win /\ s.win[id].recv \in Int BY SrvFields
<1>3. /\ w \in Win /\ w.local = s.win[id].local /\ w.recv = s.win[id].recv + n /\ w.queued = s.win[id].queued
      /\ w.reduction = s.win[id].reduction /\ w.consumed = s.win[id].consumed
  BY <1>2 DEF Win
<1>4. t = Resized(s, id, w) BY DEF Resized, Srv
<1> HIDE DEF t, w
<1>5. t.win[id] = w /\ t.ob = s.ob BY <1>3, <1>4, ResizedIs
<1>6. CountedIn(t, id) => CountedIn(s, id) BY <1>1 DEF Moves, Onward, CountedIn, IsClosing
<1>7. Ready(s, id, h) => (CountedIn(t, id) => Announcing(t, id)) BY <1>3, <1>5, <1>6 DEF Ready, Announcing
<1>8. w.recv - (h + n) = s.win[id].recv - h BY <1>2, <1>3
<1>9. Ready(s, id, h) => (~use.auto => Ready(t, id, h + n))
  BY <1>3, <1>5, <1>6, <1>7, <1>8 DEF Ready, Handed, Little
<1> QED BY <1>1, <1>3, <1>5, <1>7, <1>9 DEF t

LEMMA RecvOnConnectionReady ==
  ASSUME NEW s \in Srv, NEW n \in Nat, NEW h \in Int, Ready(s, 0, h)
  PROVE  LET t == RecvOnConnection(s, n)
         IN Ready(t, 0, h + n) /\ (Level(s) => Level(t))
<1> DEFINE t == RecvOnConnection(s, n)
<1>0. 0 \in Ids BY IdsAre
<1>1. Onward(s, t) /\ (\A i \in Ids : i # 0 => Same(s, t, i)) /\ Took(s, t, 0, n) BY RecvOnConnectionIs
<1>2. CASE Overruns(s.win[0], n)
  <2> DEFINE r == Terminate(s)
  <2>1. t = [r EXCEPT !.overrun = @ \cup {0}] BY <1>2 DEF RecvOnConnection
  <2>2. r \in Srv /\ Same(s, r, 0) /\ IsClosing(r) BY <1>0, TerminateIs DEF Onward
  <2> HIDE DEF r
  <2>3. t.win = r.win /\ t.goaway = r.goaway BY <2>1, <2>2 DEF Srv
  <2> HIDE DEF t
  <2>4. Ready(t, 0, h + n) BY <2>2, <2>3, ClosingReady DEF IsClosing
  <2>5. Level(s) => Level(t) BY <1>0, <1>1, <2>2, <2>3, LevelSame DEF Same
  <2> QED BY <2>4, <2>5 DEF t
<1>3. CASE ~Overruns(s.win[0], n)
  <2> DEFINE r == [s EXCEPT !.win[0].recv = @ + n]
  <2>1. t = Replenish(r, 0) BY <1>3 DEF RecvOnConnection
  <2>5. /\ r \in Srv /\ r.win[0].reduction = s.win[0].reduction
        /\ Ready(s, 0, h) => /\ CountedIn(r, 0) => Announcing(r, 0)
                             /\ ~use.auto => Ready(r, 0, h + n)
    BY <1>0, <1>3, CountedReady
  <2>2. /\ r \in Srv /\ (CountedIn(r, 0) => Announcing(r, 0)) /\ (~use.auto => Ready(r, 0, h + n))
        /\ r.win[0].reduction = s.win[0].reduction
    <3> HIDE DEF r
    <3> QED BY <2>5
  <2> HIDE DEF r
  <2>3. Ready(t, 0, h + n) /\ t.win[0].reduction = r.win[0].reduction
    <3>1. CASE use.auto BY <1>0, <2>1, <2>2, <3>1, ReplenishReady
    <3>2. CASE ~use.auto
      <4>1. t = r BY <1>0, <2>1, <2>2, <3>2, ReplenishIs
      <4> QED BY <2>2, <3>2, <4>1
    <3> QED BY <3>1, <3>2
  <2> HIDE DEF t
  <2>4. Level(s) => Level(t) BY <1>0, <1>1, <2>2, <2>3, LevelSame
  <2> QED BY <2>3, <2>4 DEF t
<1> QED BY <1>2, <1>3

\* The last bytes of a message need no update of their own.
LEMMA RecvOnStreamReady ==
  ASSUME NEW s \in Srv, NEW id \in StreamIds, s.stream[id] # "idle", NEW n \in Nat, NEW mayUpdate \in BOOLEAN,
         NEW h \in Int
  PROVE  LET t == RecvOnStream(s, id, n, mayUpdate)
         IN (Ready(s, id, h) /\ (mayUpdate \/ ~use.auto) => Ready(t, id, h + n)) /\ (Level(s) => Level(t))
<1> DEFINE t == RecvOnStream(s, id, n, mayUpdate)
<1>0. id \in Ids /\ id # 0 BY IdsAre
<1>1. \A i \in Ids : i # id => Same(s, t, i) BY RecvOnStreamIs
<1>2. CASE Overruns(s.win[id], n)
  <2> DEFINE r == AddRst(s, id)
  <2>1. t = [r EXCEPT !.overrun = @ \cup {id}] BY <1>2 DEF RecvOnStream
  <2>2. r \in Srv /\ r.stream[id] # "opened" /\ r.win = s.win BY AddRstIs DEF Onward
  <2> HIDE DEF r
  <2>3. t.win = r.win /\ t.stream = r.stream BY <2>1, <2>2 DEF Srv
  <2> HIDE DEF t
  <2>4. Ready(t, id, h + n) BY <1>0, <2>2, <2>3, ClosingReady
  <2>5. Level(s) => Level(t) BY <2>2, <2>3 DEF Level
  <2> QED BY <2>4, <2>5 DEF t
<1>3. CASE ~Overruns(s.win[id], n)
  <2> DEFINE r == [s EXCEPT !.win[id].recv = @ + n]
  <2>1. t = IF mayUpdate THEN Replenish(r, id) ELSE r BY <1>3 DEF RecvOnStream
  <2>2. /\ r \in Srv /\ r.win[id].reduction = s.win[id].reduction
        /\ Ready(s, id, h) => /\ CountedIn(r, id) => Announcing(r, id)
                              /\ ~use.auto => Ready(r, id, h + n)
    BY <1>0, <1>3, CountedReady
  <2> HIDE DEF r
  <2>3. /\ Ready(s, id, h) /\ (mayUpdate \/ ~use.auto) => Ready(t, id, h + n)
        /\ t.win[id].reduction = r.win[id].reduction
    <3>1. CASE use.auto /\ mayUpdate
      <4>1. t = Replenish(r, id) BY <2>1, <3>1
      <4> HIDE DEF t
      <4>2. /\ (CountedIn(r, id) => Announcing(r, id)) => Ready(t, id, h + n)
            /\ t.win[id].reduction = r.win[id].reduction
        BY <1>0, <2>2, <3>1, <4>1, ReplenishReady
      <4> QED BY <2>2, <4>2
    <3>2. CASE ~use.auto
      <4>1. t = r BY <1>0, <2>1, <2>2, <3>2, ReplenishIs
      <4> HIDE DEF t
      <4> QED BY <2>2, <3>2, <4>1
    <3>3. CASE use.auto /\ ~mayUpdate BY <2>1, <3>3
    <3> QED BY <3>1, <3>2, <3>3
  <2> HIDE DEF t
  <2>4. Level(s) => Level(t) BY <1>0, <1>1, <2>2, <2>3, LevelSame
  <2> QED BY <2>3, <2>4 DEF t
<1> QED BY <1>2, <1>3

\* Of what is consumed, as much is handed back as was received.
LEMMA LeastConsumed ==
  ASSUME NEW recv \in Int, NEW consumed \in Int, NEW n \in Nat, NEW h \in Nat, n <= h \/ n <= 1,
         recv - h <= consumed, NEW local \in Int, ~ShouldSendWindowUpdate(local, Least(consumed + n, recv))
  PROVE  recv - (h - n) <= 1 \/ recv - (h - n) <= local \div 2
<1> DEFINE half == local \div 2
           size == Least(consumed + n, recv)
<1>1. half \in Int OBVIOUS
<1>2. size \in Int /\ (size = consumed + n \/ size = recv) BY DEF Least
<1>3. size <= 0 \/ size < half BY <1>1, <1>2 DEF ShouldSendWindowUpdate
<1> HIDE DEF half, size
<1>4. size >= recv - (h - n) - 1 BY <1>2
<1> QED BY <1>1, <1>2, <1>3, <1>4 DEF half

\* Bytes that are consumed are no longer held.
LEMMA UpdateConsumedReady ==
  ASSUME NEW s \in Srv, NEW id \in Ids, NEW n \in Nat, ~use.auto, NEW h \in Nat, n <= h \/ n <= 1
  PROVE  LET t == UpdateConsumed(s, id, n)
         IN /\ (CountedIn(s, id) => Announcing(s, id) /\ Handed(s.win[id], h)) => Ready(t, id, h - n)
            /\ t.win[id].reduction = s.win[id].reduction
<1> DEFINE t == UpdateConsumed(s, id, n)
           w == s.win[id]
           size == Least(w.consumed + n, w.recv)
           v == [w EXCEPT !.consumed = @ + n]
           u == AddWindowUpdate(s, id, size)
           x == [u.win[id] EXCEPT !.recv = @ - size, !.consumed = @ + n - size]
           before == CountedIn(s, id) => Announcing(s, id) /\ Handed(s.win[id], h)
<1>0. w \in Win /\ w.consumed \in Int /\ w.recv \in Int /\ w.local \in Int /\ MaxWindow \in Nat BY SrvFields, IdsAre
<1>1. CASE w.consumed > MaxWindow - n
  <2>1. t = Terminate(s) BY <1>1 DEF UpdateConsumed
  <2>2. IsClosing(t) /\ Same(s, t, id) BY <2>1, TerminateIs
  <2> HIDE DEF t
  <2> QED BY <2>2, ClosingReady DEF t, Same
<1>2. CASE ~(w.consumed > MaxWindow - n) /\ ~(~w.queued /\ ShouldSendWindowUpdate(w.local, size))
  <2>1. t = Resized(s, id, v) BY <1>2 DEF UpdateConsumed, Resized, Srv
  <2>2. /\ v \in Win /\ v.local = w.local /\ v.recv = w.recv /\ v.reduction = w.reduction
        /\ v.consumed = w.consumed + n /\ v.queued = w.queued
    BY <1>0 DEF Win
  <2> HIDE DEF v
  <2>3. t.win[id] = v /\ t.ob = s.ob /\ t.stream = s.stream /\ t.goaway = s.goaway /\ t.overrun = s.overrun
    BY <2>1, <2>2, ResizedIs
  <2> HIDE DEF t
  <2>4. CountedIn(t, id) => CountedIn(s, id) BY <2>3 DEF CountedIn, IsClosing
  <2>5. ASSUME before, CountedIn(s, id) PROVE Announcing(t, id) /\ Handed(v, h - n)
    <3>1. w.recv - h <= w.consumed BY <2>5 DEF Handed
    <3>2. v.recv - (h - n) <= v.consumed BY <1>0, <2>2, <3>1
    <3>3. Announcing(s, id) BY <2>5
    <3> QED BY <2>2, <2>3, <3>2, <3>3 DEF Announcing, Handed
  <2>6. ASSUME before, CountedIn(s, id), ~v.queued PROVE Little(v, h - n)
    <3>1. ~ShouldSendWindowUpdate(w.local, size) BY <1>2, <2>2, <2>6
    <3>2. w.recv - h <= w.consumed BY <2>6 DEF Handed
    <3>3. w.recv - (h - n) <= 1 \/ w.recv - (h - n) <= w.local \div 2
      <4> HIDE DEF w
      <4> QED BY <1>0, <3>1, <3>2, LeastConsumed
    <3> QED BY <2>2, <3>3 DEF Little
  <2>7. before => Ready(t, id, h - n) BY <2>3, <2>4, <2>5, <2>6 DEF Ready
  <2> QED BY <2>2, <2>3, <2>7 DEF t
<1>3. CASE ~(w.consumed > MaxWindow - n) /\ ~w.queued /\ ShouldSendWindowUpdate(w.local, size)
  <2>0. t = [u EXCEPT !.win[id].recv = @ - size, !.win[id].consumed = @ + n - size]
    BY <1>3 DEF UpdateConsumed
  <2>1. size \in Nat \ {0} /\ size <= w.consumed + n /\ size <= w.recv
    BY <1>0, <1>3 DEF ShouldSendWindowUpdate, Least
  <2>2. InRange(s) /\ Apart => size <= MaxWindow BY <1>0, <2>1 DEF InRange
  <2> HIDE DEF size
  <2>3. /\ Moves(s, u, id) /\ u \in Srv /\ u.win[id].local = w.local /\ u.win[id].recv = w.recv
        /\ u.win[id].consumed = w.consumed /\ u.win[id].reduction = w.reduction /\ u.win[id] \in Win
    BY <2>1, <2>2, AddWindowUpdateIs
  <2>4. t = [u EXCEPT !.win[id] = x] BY <2>0, <2>3 DEF Srv
  <2>5. /\ x \in Win /\ x.local = w.local /\ x.recv = w.recv - size /\ x.reduction = w.reduction
        /\ x.consumed = w.consumed + n - size /\ x.queued = u.win[id].queued
    <3> DEFINE y == u.win[id]
    <3>1. x = [y EXCEPT !.recv = y.recv - size, !.consumed = y.consumed + n - size] OBVIOUS
    <3>2. /\ y \in Win /\ y.local = w.local /\ y.recv = w.recv /\ y.consumed = w.consumed
          /\ y.reduction = w.reduction
      BY <2>3
    <3>3. y.recv - size \in Int /\ y.consumed + n - size \in Int BY <1>0, <2>1, <3>2
    <3>4. u.win[id].queued = y.queued OBVIOUS
    <3> HIDE DEF y, x
    <3> QED BY <3>1, <3>2, <3>3, <3>4 DEF Win
  <2>6. u = AddWindowUpdate(s, id, size) OBVIOUS
  <2>7. x.recv <= w.recv /\ (w.consumed \in 0..MaxWindow => x.consumed \in 0..MaxWindow)
    BY <1>0, <1>3, <2>1, <2>5
  <2> HIDE DEF u, x
  <2>8. Moves(u, t, id) /\ t.win[id] = x /\ t.ob = u.ob
    <3>1. x.recv \in Int /\ w.recv \in Int /\ w.local \in Int BY <1>0, <2>5 DEF Win
    <3>2. u.win[id].recv <= MaxWindow => x.recv <= MaxWindow BY <1>0, <2>3, <2>7, <3>1
    <3>3. (u.win[id].recv <= x.local /\ x.local >= 0) => x.recv <= x.local BY <2>3, <2>5, <2>7, <3>1
    <3> QED BY <2>3, <2>4, <2>5, <2>7, <3>2, <3>3, WindowCounts
  <2> HIDE DEF t
  <2>9. before => (CountedIn(s, id) => Handed(x, h - n))
    <3> SUFFICES ASSUME before, CountedIn(s, id) PROVE x.recv - (h - n) <= x.consumed BY DEF Handed
    <3>1. w.recv - h <= w.consumed BY DEF Handed
    <3> HIDE DEF w
    <3> QED BY <1>0, <2>1, <2>5, <3>1
  <2>10. before => Ready(t, id, h - n) BY <2>1, <2>2, <2>5, <2>6, <2>8, <2>9, MarkedReady
  <2> QED BY <2>5, <2>8, <2>10 DEF t
<1> QED BY <1>1, <1>2, <1>3

LEMMA ConsumeConnectionReady ==
  ASSUME NEW s \in Srv, NEW n \in Nat, NEW h \in Nat, n <= h \/ n <= 1, Ready(s, 0, h)
  PROVE  LET t == ConsumeConnection(s, n)
         IN Ready(t, 0, h - n) /\ (Level(s) => Level(t))
<1> DEFINE t == ConsumeConnection(s, n)
<1>0. 0 \in Ids BY IdsAre
<1>1. CASE use.auto
  <2>1. t = s BY <1>1 DEF ConsumeConnection
  <2>2. Ready(s, 0, h - n) BY <1>1, AutoReady
  <2> QED BY <2>1, <2>2
<1>2. CASE ~use.auto
  <2>1. t = UpdateConsumed(s, 0, n) BY <1>2 DEF ConsumeConnection
  <2>2. CountedIn(s, 0) => Announcing(s, 0) /\ Handed(s.win[0], h) BY DEF Ready
  <2>3. Ready(t, 0, h - n) /\ t.win[0].reduction = s.win[0].reduction
    BY <1>0, <1>2, <2>1, <2>2, UpdateConsumedReady
  <2>4. \A i \in Ids : i # 0 => Same(s, t, i) BY ConsumeConnectionIs DEF Moves
  <2> HIDE DEF t
  <2>5. Level(s) => Level(t) BY <1>0, <2>3, <2>4, LevelSame
  <2> QED BY <2>3, <2>5 DEF t
<1> QED BY <1>1, <1>2

LEMMA ConsumeReady ==
  ASSUME NEW s \in Srv, NEW id \in StreamIds, NEW n \in Nat, NEW h0 \in Nat, n <= h0 \/ n <= 1, Ready(s, 0, h0),
         NEW h \in Nat, n <= h \/ n <= 1
  PROVE  LET t == Consume(s, id, n)
         IN Ready(t, 0, h0 - n) /\ (Ready(s, id, h) => Ready(t, id, h - n)) /\ (Level(s) => Level(t))
<1> DEFINE t == Consume(s, id, n)
           r == UpdateConsumed(s, 0, n)
<1>0. 0 \in Ids /\ id \in Ids /\ id # 0 BY IdsAre
<1>1. CASE use.auto
  <2>1. t = s BY <1>1 DEF Consume
  <2>2. Ready(s, 0, h0 - n) BY <1>1, AutoReady
  <2>3. Ready(s, id, h) => Ready(s, id, h - n) BY <1>1, AutoReady
  <2> QED BY <2>1, <2>2, <2>3
<1>2. CASE ~use.auto
  <2>1. Moves(s, r, 0) /\ r \in Srv BY <1>0, UpdateConsumedIs
  <2>2. CountedIn(s, 0) => Announcing(s, 0) /\ Handed(s.win[0], h0) BY DEF Ready
  <2>3. Ready(r, 0, h0 - n) /\ r.win[0].reduction = s.win[0].reduction
    BY <1>0, <1>2, <2>2, UpdateConsumedReady
  <2>4. t = IF Live(r, id) THEN UpdateConsumed(r, id, n) ELSE r BY <1>2 DEF Consume
  <2> HIDE DEF r
  <2>5. /\ Same(s, r, id) /\ (\A i \in Ids : i # 0 => Same(s, r, i))
        /\ IsClosing(s) => IsClosing(r)
    BY <1>0, <2>1 DEF Moves, Onward, IsClosing
  <2>6. Level(s) => Level(r) BY <1>0, <2>3, <2>5, LevelSame
  <2>7. Ready(s, id, h) => Ready(r, id, h) BY <1>0, <2>5, SameReady
  <2>8. CASE ~Live(r, id)
    <3>1. t = r BY <2>4, <2>8
    <3>2. Ready(r, id, h - n) BY <1>0, <2>8, ClosingReady DEF Live
    <3> QED BY <2>3, <2>6, <3>1, <3>2
  <2>9. CASE Live(r, id)
    <3>1. t = UpdateConsumed(r, id, n) BY <2>4, <2>9
    <3> HIDE DEF t
    <3>2. Moves(r, t, id) BY <1>0, <2>1, <3>1, UpdateConsumedIs
    <3>3. Ready(r, id, h) => Ready(t, id, h - n)
      <4> SUFFICES ASSUME Ready(r, id, h) PROVE Ready(t, id, h - n) OBVIOUS
      <4>1. CountedIn(r, id) => Announcing(r, id) /\ Handed(r.win[id], h) BY DEF Ready
      <4> QED BY <1>0, <1>2, <2>1, <3>1, <4>1, UpdateConsumedReady
    <3>4. t.win[id].reduction = r.win[id].reduction BY <1>0, <1>2, <2>1, <3>1, UpdateConsumedReady
    <3>5. Same(r, t, 0) /\ (IsClosing(r) => IsClosing(t)) /\ \A i \in Ids : i # id => Same(r, t, i)
      BY <1>0, <3>2 DEF Moves, Onward, IsClosing
    <3>6. Ready(t, 0, h0 - n) BY <1>0, <2>3, <3>5, SameReady
    <3>7. Level(r) => Level(t) BY <1>0, <3>4, <3>5, LevelSame
    <3> QED BY <2>6, <2>7, <3>3, <3>6, <3>7 DEF t
  <2> QED BY <2>8, <2>9
<1> QED BY <1>1, <1>2

\* An update that is out leaves its window ready, unless the stream was read to its end.
LEMMA AfterWindowUpdateReady ==
  ASSUME NEW s \in Srv, NEW id \in Ids, NEW h \in Nat, CountedIn(s, id) => Handed(s.win[id], h)
  PROVE  LET t == AfterWindowUpdate(s, id)
         IN (id \notin s.shutRd => Ready(t, id, h)) /\ (Level(s) => Level(t))
<1> DEFINE w == [s.win[id] EXCEPT !.queued = FALSE]
           r == Resized(s, id, w)
           t == AfterWindowUpdate(s, id)
<1>1. s.win[id] \in Win BY SrvFields
<1>2. /\ w \in Win /\ w.local = s.win[id].local /\ w.recv = s.win[id].recv /\ w.queued = FALSE
      /\ w.reduction = s.win[id].reduction /\ w.consumed = s.win[id].consumed
  BY <1>1 DEF Win
<1>3. t = IF id \in s.shutRd THEN r ELSE IF use.auto THEN Replenish(r, id) ELSE UpdateConsumed(r, id, 0)
  BY DEF AfterWindowUpdate, Resized, Srv
<1> HIDE DEF w
<1>4. /\ r \in Srv /\ r.win[id] = w /\ r.ob = s.ob /\ r.stream = s.stream /\ r.goaway = s.goaway
      /\ r.overrun = s.overrun /\ \A i \in Ids : i # id => r.win[i] = s.win[i]
  BY <1>2, ResizedIs
<1> HIDE DEF r
<1>5. CountedIn(r, id) => Announcing(r, id) /\ Handed(r.win[id], h)
  <2>1. Announcing(r, id) BY <1>2, <1>4 DEF Announcing
  <2>2. CountedIn(r, id) => CountedIn(s, id) BY <1>4 DEF CountedIn, IsClosing
  <2>3. CountedIn(s, id) => Handed(r.win[id], h) BY <1>2, <1>4 DEF Handed
  <2> QED BY <2>1, <2>2, <2>3
<1>6. Level(s) => Level(r)
  <2> SUFFICES ASSUME Level(s), NEW i \in Ids PROVE r.win[i].reduction = 0 BY DEF Level
  <2>1. CASE i = id BY <1>2, <1>4, <2>1 DEF Level
  <2>2. CASE i # id BY <1>4, <2>2 DEF Level
  <2> QED BY <2>1, <2>2
<1>7. CASE id \in s.shutRd
  <2>1. t = r BY <1>3, <1>7
  <2> QED BY <1>6, <1>7, <2>1
<1>8. CASE id \notin s.shutRd /\ use.auto
  <2>1. t = Replenish(r, id) BY <1>3, <1>8
  <2> HIDE DEF t
  <2>2. \A i \in Ids : i # id => Same(r, t, i) BY <1>4, <2>1, ReplenishIs DEF Moves
  <2>3. Ready(t, id, h) /\ t.win[id].reduction = r.win[id].reduction BY <1>4, <1>5, <1>8, <2>1, ReplenishReady
  <2>4. Level(r) => Level(t) BY <2>2, <2>3, LevelSame
  <2> QED BY <1>6, <2>3, <2>4 DEF t
<1>9. CASE id \notin s.shutRd /\ ~use.auto
  <2>1. t = UpdateConsumed(r, id, 0) BY <1>3, <1>9
  <2> HIDE DEF t
  <2>2. \A i \in Ids : i # id => Same(r, t, i) BY <1>4, <2>1, UpdateConsumedIs DEF Moves
  <2>3. Ready(t, id, h - 0) /\ t.win[id].reduction = r.win[id].reduction
    BY <1>4, <1>5, <1>9, <2>1, UpdateConsumedReady
  <2>4. Level(r) => Level(t) BY <2>2, <2>3, LevelSame
  <2>5. h - 0 = h OBVIOUS
  <2> QED BY <1>6, <2>3, <2>4, <2>5 DEF t
<1> QED BY <1>7, <1>8, <1>9

-----------------------------------------------------------------------------
(* Reading DATA.                                                            *)

LEMMA TakenIs ==
  ASSUME Types
  PROVE  HeldBytes \in Nat /\ \A i \in Ids : Taken(i) \in Nat
<1>1. held \in [StreamIds -> Nat] /\ IsFiniteSet(StreamIds) BY TypesFacts, SizesAssumption
<1>2. DOMAIN held = StreamIds /\ (\A x \in StreamIds : held[x] \in Int) /\ (\A x \in StreamIds : held[x] >= 0) BY <1>1
<1>3. SumFunction(held) \in Int /\ SumFunction(held) >= 0 BY <1>1, <1>2, SumType DEF SumFunction
<1>4. HeldBytes \in Nat BY <1>3 DEF HeldBytes
<1>5. \A i \in Ids : Taken(i) \in Nat BY <1>1, <1>4, IdsAre DEF Taken
<1> QED BY <1>4, <1>5

\* What the server keeps as it is stays prompt.
LEMMA PromptKept ==
  ASSUME Prompt, peer.ended \subseteq peer'.ended, Level(srv) => Level(srv'),
         \A i \in Ids \ peer'.ended : Ready(srv, i, Taken(i)) => Ready(srv, i, Taken(i))',
         use' = use
  PROVE  Prompt'
<1>1. Level(srv)' BY DEF Prompt, Level
<1> QED BY <1>1 DEF Prompt

\* The application takes k bytes.
LEMMA PromptRead ==
  ASSUME Types, Prompt, NEW id \in StreamIds, NEW k \in Nat, NEW t,
         Onward(srv, t), \A i \in Ids : i \notin {0, id} => Same(srv, t, i), Level(t),
         Ready(t, 0, HeldBytes + k), id \notin peer.ended => Ready(t, id, held[id] + k),
         srv'.win = t.win, srv'.stream = t.stream, srv'.ob = t.ob, srv'.goaway = t.goaway, srv'.overrun = t.overrun,
         UNCHANGED <<use, peer>>, held' = IF use.auto THEN held ELSE [held EXCEPT ![id] = @ + k]
  PROVE  Prompt'
<1>1. held \in [StreamIds -> Nat] /\ HeldBytes \in Nat BY TypesFacts, TakenIs
<1>2. held' \in [StreamIds -> Nat] BY <1>1
<1>3. ~use.auto => /\ held'[id] = held[id] + k /\ HeldBytes' = HeldBytes + k
                   /\ \A i \in StreamIds : i # id => held'[i] = held[i]
  <2> SUFFICES ASSUME ~use.auto
               PROVE  /\ held'[id] = held[id] + k /\ HeldBytes' = HeldBytes + k
                      /\ \A i \in StreamIds : i # id => held'[i] = held[i]
    OBVIOUS
  <2>1. held' = [held EXCEPT ![id] = held[id] + k] OBVIOUS
  <2>2. held'[id] = held[id] + k /\ \A i \in StreamIds : i # id => held'[i] = held[i] BY <1>1, <2>1
  <2>3. HeldBytes' = HeldBytes - held[id] + held'[id]
    <3>1. held' \in [StreamIds -> Int] BY <1>2
    <3> QED BY <2>2, <3>1, HeldChange
  <2>4. held[id] \in Nat BY <1>1
  <2> QED BY <1>1, <2>2, <2>3, <2>4
<1>4. ASSUME NEW i, NEW h PROVE Ready(t, i, h) => Ready(srv', i, h)
  BY DEF Ready, CountedIn, Announcing, IsClosing
<1>5. ASSUME NEW i \in Ids \ peer.ended PROVE Ready(srv', i, Taken(i)')
  <2>1. CASE i = 0
    <3>1. Ready(srv', 0, HeldBytes + k) BY <1>4
    <3>2. CASE use.auto BY <2>1, <3>1, <3>2, AutoReady
    <3>3. CASE ~use.auto BY <1>3, <2>1, <3>1, <3>3 DEF Taken
    <3> QED BY <3>2, <3>3
  <2>2. CASE i = id
    <3>1. Ready(srv', id, held[id] + k) BY <1>4, <2>2
    <3>2. CASE use.auto BY <2>2, <3>1, <3>2, AutoReady
    <3>3. CASE ~use.auto BY <1>3, <2>2, <3>1, <3>3, IdsAre DEF Taken
    <3> QED BY <3>2, <3>3
  <2>3. CASE i \notin {0, id}
    <3>1. Ready(srv, i, Taken(i)) /\ Same(srv, t, i) /\ (IsClosing(srv) => IsClosing(t))
      BY <2>3 DEF Prompt, Onward, IsClosing
    <3>2. Ready(srv', i, Taken(i)) BY <1>4, <3>1, SameReady
    <3>3. CASE use.auto BY <3>2, <3>3, AutoReady
    <3>4. CASE ~use.auto
      <4>1. Taken(i)' = Taken(i) BY <1>3, <2>3, <3>4, IdsAre DEF Taken
      <4> QED BY <3>2, <4>1
    <3> QED BY <3>3, <3>4
  <2> QED BY <2>1, <2>2, <2>3
<1>6. Level(srv)' BY DEF Level
<1>7. \A i \in Ids \ peer'.ended : Ready(srv, i, Taken(i))'
  <2> TAKE i \in Ids \ peer'.ended
  <2>1. Ready(srv', i, Taken(i)') BY <1>5
  <2> QED BY <2>1 DEF Ready, CountedIn, Announcing, IsClosing, Handed, Little
<1> QED BY <1>6, <1>7 DEF Prompt

LEMMA PromptIs ==
  ASSUME Types, Prompt
  PROVE  /\ Level(srv) /\ HeldBytes \in Nat /\ Ready(srv, 0, HeldBytes)
         /\ \A i \in StreamIds : held[i] \in Nat /\ (i \notin peer.ended => Ready(srv, i, held[i]))
<1>1. 0 \in Ids \ peer.ended /\ StreamIds \subseteq Ids BY TypesFacts, IdsAre
<1>2. HeldBytes \in Nat /\ \A i \in StreamIds : held[i] \in Nat BY TakenIs, TypesFacts
<1>3. Taken(0) = HeldBytes /\ \A i \in StreamIds : Taken(i) = held[i] BY IdsAre DEF Taken
<1> QED BY <1>1, <1>2, <1>3 DEF Prompt

\* A piece of DATA, counted on the connection and on its stream
LEMMA ReadBothReady ==
  ASSUME Types, Prompt, NEW id \in StreamIds, Live(srv, id), NEW n \in Nat, NEW more \in BOOLEAN,
         id \notin peer.ended => more
  PROVE  LET t == RecvOnStream(RecvOnConnection(srv, n), id, n, more)
         IN Level(t) /\ Ready(t, 0, HeldBytes + n) /\ (id \notin peer.ended => Ready(t, id, held[id] + n))
<1> DEFINE r == RecvOnConnection(srv, n)
           t == RecvOnStream(r, id, n, more)
<1>1. srv \in Srv /\ id \in Ids /\ 0 \in Ids /\ id # 0 BY TypesFacts, IdsAre
<1>2. /\ Level(srv) /\ HeldBytes \in Int /\ Ready(srv, 0, HeldBytes) /\ held[id] \in Int
      /\ id \notin peer.ended => Ready(srv, id, held[id])
  BY PromptIs
<1>3. r \in Srv /\ Onward(srv, r) /\ r.stream = srv.stream /\ Same(srv, r, id) BY <1>1, RecvOnConnectionIs
<1>4. Ready(r, 0, HeldBytes + n) /\ Level(r) BY <1>1, <1>2, RecvOnConnectionReady
<1> HIDE DEF r
<1>5. id \notin peer.ended => Ready(r, id, held[id])
  <2>1. IsClosing(srv) => IsClosing(r) BY <1>3 DEF Onward, IsClosing
  <2> QED BY <1>1, <1>2, <1>3, <2>1, SameReady
<1>6. r.stream[id] # "idle" BY <1>3 DEF Live
<1>7. Same(r, t, 0) /\ (IsClosing(r) => IsClosing(t)) BY <1>1, <1>3, <1>6, RecvOnStreamIs DEF IsClosing
<1>8. ASSUME id \notin peer.ended PROVE Ready(t, id, held[id] + n) BY <1>2, <1>3, <1>5, <1>6, <1>8, RecvOnStreamReady
<1>9. Level(t) BY <1>2, <1>3, <1>4, <1>6, RecvOnStreamReady
<1> HIDE DEF t
<1>10. Ready(t, 0, HeldBytes + n) BY <1>1, <1>4, <1>7, SameReady
<1> QED BY <1>8, <1>9, <1>10 DEF t, r

LEMMA RecvDataPrompt == ASSUME LedgerInv, Prompt, NEW n \in 0..iframe.left, RecvData(n) PROVE Prompt'
<1> DEFINE id == iframe.id
           left == iframe.left - n
           more == MoreToCome(left)
           s == RecvOnStream(RecvOnConnection(srv, n), id, n, more)
           data == EffectiveReadLen(n, left)
           t == IF n = 0 THEN srv ELSE IF data < n THEN Consume(s, id, n - data) ELSE s
<1>0. Types /\ InRange(srv) /\ iframe # NoFrame /\ iframe.state = "READ_DATA" /\ Ending BY DEF LedgerInv, RecvData
<1>1. /\ srv \in Srv /\ iframe \in Reader /\ id \in StreamIds /\ iframe.left \in Nat /\ n \in Nat /\ left \in Nat
      /\ iframe.pad \in Nat /\ iframe.end \in BOOLEAN
  BY <1>0, TypesFacts DEF Reader
<1>2. UNCHANGED <<use, peer>> BY DEF RecvData
<1>3. /\ Level(srv) /\ HeldBytes \in Nat /\ Ready(srv, 0, HeldBytes) /\ held[id] \in Nat
      /\ id \notin peer.ended => Ready(srv, id, held[id])
  BY <1>0, <1>1, PromptIs
<1>4. CASE ~Live(srv, id)
  <2>1. UNCHANGED <<srv, held>> BY <1>4 DEF RecvData
  <2>2. UNCHANGED <<srv, held, use, peer>> BY <1>2, <2>1
  <2> HIDE DEF id
  <2> QED BY <2>2 DEF Prompt, Level, Ready, CountedIn, Announcing, IsClosing, Handed, Little, Taken, HeldBytes
<1>5. CASE Live(srv, id)
  <2>1. data \in 0..n /\ (n = 0 => data = 0) BY <1>1 DEF EffectiveReadLen, Greatest
  <2>2. \/ /\ srv' = IF left = 0 THEN EndData(t) ELSE t
           /\ held' = IF use.auto THEN held ELSE [held EXCEPT ![id] = @ + data]
        \/ srv' = AddRst(ConsumeConnection(t, data), id) /\ held' = held
    BY <1>5 DEF RecvData
  <2>3. more \in BOOLEAN /\ (id \notin peer.ended => more) BY <1>0 DEF MoreToCome, Ending
  <2>4. ReadPart(srv, s, id, n, n) BY <1>0, <1>1, <1>5, ReadBoth
  <2>5. Level(s) /\ Ready(s, 0, HeldBytes + n) /\ (id \notin peer.ended => Ready(s, id, held[id] + n))
    BY <1>0, <1>1, <1>5, <2>3, ReadBothReady
  <2>6. Kept(srv, 0) \in Int /\ Kept(srv, id) \in Int BY <1>0, <1>1, IdsAre, SlackType
  <2> HIDE DEF data, more, s
  <2>7. /\ Onward(srv, t) /\ \A i \in Ids : i \notin {0, id} => Same(srv, t, i)
        /\ Level(t) /\ Ready(t, 0, HeldBytes + data) /\ (id \notin peer.ended => Ready(t, id, held[id] + data))
    <3>1. CASE n = 0
      <4>1. t = srv /\ data = 0 BY <2>1, <3>1
      <4>2. HeldBytes + 0 = HeldBytes /\ held[id] + 0 = held[id] BY <1>3
      <4>3. Onward(srv, srv) /\ \A i \in Ids : Same(srv, srv, i) BY <1>1, OnwardSame DEF Same
      <4> HIDE DEF t, id
      <4> QED BY <1>3, <4>1, <4>2, <4>3
    <3>2. CASE n # 0 /\ data < n
      <4> DEFINE m == n - data
      <4>1. /\ m \in 0..n /\ n - m = data /\ m \in Nat /\ m <= HeldBytes + n /\ m <= held[id] + n
            /\ HeldBytes + n \in Nat /\ held[id] + n \in Nat
            /\ (HeldBytes + n) - m = HeldBytes + data /\ (held[id] + n) - m = held[id] + data
        BY <1>1, <1>3, <2>1, <3>2
      <4>2. t = Consume(s, id, m) BY <3>2
      <4> HIDE DEF m, id, t
      <4>3. ReadPart(srv, t, id, n, data) BY <1>1, <1>5, <2>4, <2>6, <4>1, <4>2, ReadConsumed
      <4>4. s \in Srv BY <2>4 DEF ReadPart, Onward
      <4>5. /\ Ready(t, 0, HeldBytes + data) /\ (Level(s) => Level(t))
            /\ Ready(s, id, held[id] + n) => Ready(t, id, held[id] + data)
        <5> DEFINE h0 == HeldBytes + n
                   h == held[id] + n
        <5>1. h0 \in Nat /\ h \in Nat /\ m \in Nat /\ m <= h0 /\ m <= h BY <4>1
        <5>2. Ready(s, 0, h0) BY <2>5
        <5> HIDE DEF h0, h
        <5>3. /\ Ready(t, 0, h0 - m) /\ (Level(s) => Level(t)) /\ (Ready(s, id, h) => Ready(t, id, h - m))
          BY <1>1, <4>2, <4>4, <5>1, <5>2, ConsumeReady
        <5>4. h0 - m = HeldBytes + data /\ h - m = held[id] + data BY <4>1 DEF h0, h
        <5>5. /\ Ready(t, 0, HeldBytes + data) /\ (Level(s) => Level(t))
              /\ Ready(s, id, h) => Ready(t, id, held[id] + data)
          BY <5>3, <5>4
        <5> QED BY <5>5 DEF h
      <4> QED BY <2>5, <4>1, <4>3, <4>5 DEF ReadPart
    <3>3. CASE n # 0 /\ data = n
      <4>1. t = s BY <2>1, <3>3
      <4> HIDE DEF t, id
      <4> QED BY <2>4, <2>5, <3>3, <4>1 DEF ReadPart
    <3> QED BY <1>1, <2>1, <3>1, <3>2, <3>3
  <2>8. t \in Srv /\ data \in Nat BY <1>1, <2>1, <2>7 DEF Onward
  <2> HIDE DEF t
  <2>9. CASE /\ srv' = IF left = 0 THEN EndData(t) ELSE t
             /\ held' = IF use.auto THEN held ELSE [held EXCEPT ![id] = @ + data]
    <3>1. /\ srv'.win = t.win /\ srv'.stream = t.stream /\ srv'.ob = t.ob /\ srv'.goaway = t.goaway
          /\ srv'.overrun = t.overrun
      BY <1>1, <2>8, <2>9, EndDataIs
    <3>2. held' = IF use.auto THEN held ELSE [held EXCEPT ![id] = @ + data] BY <2>9
    <3> HIDE DEF id
    <3> QED BY <1>0, <1>1, <1>2, <2>7, <2>8, <3>1, <3>2, PromptRead
  <2>10. CASE srv' = AddRst(ConsumeConnection(t, data), id) /\ held' = held
    <3> DEFINE c == ConsumeConnection(t, data)
               u == AddRst(c, id)
    <3>0. 0 \in Ids /\ id \in Ids /\ id # 0 BY <1>1, IdsAre
    <3>1. Moves(t, c, 0) /\ c \in Srv BY <2>8, ConsumeConnectionIs
    <3>2. HeldBytes + data \in Nat /\ data <= HeldBytes + data /\ HeldBytes + data - data = HeldBytes + 0
      BY <1>3, <2>8
    <3>3. Ready(c, 0, HeldBytes + 0) /\ Level(c)
      <4> DEFINE h == HeldBytes + data
      <4> HIDE DEF h
      <4>1. h \in Nat /\ data <= h /\ Ready(t, 0, h) BY <2>7, <3>2 DEF h
      <4>2. Ready(c, 0, h - data) /\ (Level(t) => Level(c)) BY <2>8, <4>1, ConsumeConnectionReady
      <4>3. h - data = HeldBytes + 0 BY <1>3, <2>8 DEF h
      <4>4. Level(t) BY <2>7
      <4> HIDE DEF c
      <4> QED BY <4>2, <4>3, <4>4
    <3> HIDE DEF c
    <3>4. c.stream[id] # "idle" BY <1>1, <1>5, <2>7, <3>1 DEF Live, Onward, Moves
    <3>5. /\ Onward(c, u) /\ u.stream[id] # "opened" /\ (\A i \in Ids : i # id => Same(c, u, i))
          /\ u.win = c.win /\ u.goaway = c.goaway
      BY <1>1, <3>1, <3>4, AddRstIs
    <3> HIDE DEF u
    <3>6. Onward(srv, u)
      <4>1. Onward(srv, c) BY <2>7, <3>1, OnwardTwice DEF Moves
      <4> QED BY <3>5, <4>1, OnwardTwice
    <3>7. \A i \in Ids : i \notin {0, id} => Same(srv, u, i)
      <4>1. \A i \in Ids : i # 0 => Same(t, c, i) BY <3>1 DEF Moves
      <4> QED BY <2>7, <3>5, <4>1 DEF Same
    <3>8. Level(u) BY <3>3, <3>5 DEF Level
    <3>9. Ready(u, 0, HeldBytes + 0)
      <4>1. Ready(c, 0, HeldBytes + 0) BY <3>3
      <4>2. Same(c, u, 0) /\ (IsClosing(c) => IsClosing(u)) BY <3>0, <3>5 DEF IsClosing
      <4> QED BY <3>0, <4>1, <4>2, SameReady
    <3>10. Ready(u, id, held[id] + 0) BY <3>0, <3>5, ClosingReady
    <3>11. srv' = u BY <2>10 DEF u, c
    <3>12. held' = IF use.auto THEN held ELSE [held EXCEPT ![id] = @ + 0]
      <4>1. held \in [StreamIds -> Nat] BY <1>0, TypesFacts
      <4>2. [held EXCEPT ![id] = held[id] + 0] = held BY <1>1, <1>3, <4>1
      <4> QED BY <2>10, <4>2
    <3>13. 0 \in Nat OBVIOUS
    <3> HIDE DEF id
    <3> QED BY <1>0, <1>1, <1>2, <3>6, <3>7, <3>8, <3>9, <3>10, <3>11, <3>12, <3>13, PromptRead
  <2> QED BY <2>2, <2>9, <2>10
<1> QED BY <1>4, <1>5

\* The Pad Length byte is consumed, before it is counted on the stream.
LEMMA RecvPadLengthPrompt == ASSUME LedgerInv, Prompt, RecvPadLength PROVE Prompt'
<1> DEFINE id == iframe.id
           left == iframe.left - 1
           more == MoreToCome(left)
           r == RecvOnConnection(srv, 1)
           counted == Consume(r, id, 1)
           s == IF Live(counted, id) THEN RecvOnStream(counted, id, 1, more) ELSE counted
           bad == iframe.padLength > left
           t == IF bad THEN Terminate(s) ELSE s
<1>0. Types /\ InRange(srv) /\ iframe # NoFrame /\ Ending BY DEF LedgerInv, RecvPadLength
<1>1. /\ srv \in Srv /\ id \in StreamIds /\ iframe.end \in BOOLEAN /\ id \in Ids /\ 0 \in Ids /\ id # 0 /\ 1 \in Nat
  BY <1>0, TypesFacts, IdsAre DEF Reader
<1>2. UNCHANGED <<use, peer, held>> /\ srv' = t BY DEF RecvPadLength
<1>3. /\ Level(srv) /\ HeldBytes \in Nat /\ Ready(srv, 0, HeldBytes) /\ held[id] \in Nat
      /\ id \notin peer.ended => Ready(srv, id, held[id])
  BY <1>0, <1>1, PromptIs
<1>4. more \in BOOLEAN /\ (id \notin peer.ended => more) BY <1>0 DEF MoreToCome, Ending
<1>5. ReadPart(srv, s, id, 1, 0) BY <1>0, <1>1, ReadPad
<1>6. /\ r \in Srv /\ Onward(srv, r) /\ Same(srv, r, id) BY <1>1, RecvOnConnectionIs
<1>7. Ready(r, 0, HeldBytes + 1) /\ Level(r) BY <1>1, <1>3, RecvOnConnectionReady
<1>8. id \notin peer.ended => Ready(r, id, held[id])
  <2>1. IsClosing(srv) => IsClosing(r) BY <1>6 DEF Onward, IsClosing
  <2> HIDE DEF r
  <2> QED BY <1>1, <1>3, <1>6, <2>1, SameReady
<1> HIDE DEF r, more, id
<1>9. counted \in Srv BY <1>1, <1>6, ConsumeIs
<1>10. /\ Ready(counted, 0, HeldBytes) /\ Level(counted)
       /\ id \notin peer.ended => Ready(counted, id, held[id] - 1)
  <2>1. HeldBytes + 1 \in Nat /\ 1 <= HeldBytes + 1 /\ HeldBytes + 1 - 1 = HeldBytes BY <1>3
  <2>2. /\ Ready(counted, 0, HeldBytes + 1 - 1) /\ (Level(r) => Level(counted))
        /\ Ready(r, id, held[id]) => Ready(counted, id, held[id] - 1)
    BY <1>1, <1>3, <1>6, <1>7, <2>1, ConsumeReady
  <2> HIDE DEF counted
  <2> QED BY <1>7, <1>8, <2>1, <2>2
<1> HIDE DEF counted
<1>11. Ready(s, 0, HeldBytes) /\ Level(s) /\ (id \notin peer.ended => Ready(s, id, held[id]))
  <2>1. CASE ~Live(counted, id)
    <3>1. s = counted /\ counted.stream[id] # "opened" BY <1>1, <2>1 DEF Live
    <3>2. Ready(counted, id, held[id]) BY <1>1, <3>1, ClosingReady
    <3> QED BY <1>10, <3>1, <3>2
  <2>2. CASE Live(counted, id)
    <3>1. s = RecvOnStream(counted, id, 1, more) /\ counted.stream[id] # "idle" BY <2>2 DEF Live
    <3> HIDE DEF s
    <3>2. Same(counted, s, 0) /\ (IsClosing(counted) => IsClosing(s))
      BY <1>1, <1>9, <3>1, RecvOnStreamIs DEF IsClosing
    <3>3. Ready(s, 0, HeldBytes) BY <1>1, <1>10, <3>2, SameReady
    <3>4. held[id] - 1 \in Int /\ held[id] - 1 + 1 = held[id] BY <1>3
    <3>5. /\ Ready(counted, id, held[id] - 1) /\ (more \/ ~use.auto) => Ready(s, id, held[id] - 1 + 1)
          /\ Level(counted) => Level(s)
      BY <1>1, <1>4, <1>9, <3>1, <3>4, RecvOnStreamReady
    <3> QED BY <1>4, <1>10, <3>3, <3>4, <3>5
  <2> QED BY <2>1, <2>2
<1> HIDE DEF s
<1>12. /\ ReadPart(srv, t, id, 1, 0) /\ Level(t) /\ Ready(t, 0, HeldBytes)
       /\ id \notin peer.ended => Ready(t, id, held[id])
  <2>1. CASE ~bad BY <1>5, <1>11, <2>1
  <2>2. CASE bad
    <3>1. t = Terminate(s) /\ s \in Srv BY <1>5, <2>2 DEF ReadPart, Onward
    <3> HIDE DEF t
    <3>2. IsClosing(t) /\ \A i \in Ids : Same(s, t, i) BY <3>1, TerminateIs
    <3>3. ReadPart(srv, t, id, 1, 0) BY <1>1, <1>5, <3>1, ReadTerminated
    <3>4. Level(t) BY <1>11, <3>2 DEF Level, Same
    <3> QED BY <3>2, <3>3, <3>4, ClosingReady
  <2> QED BY <2>1, <2>2
<1> HIDE DEF t
<1>13. HeldBytes + 0 = HeldBytes /\ held[id] + 0 = held[id] /\ 0 \in Nat BY <1>3
<1>14. held' = IF use.auto THEN held ELSE [held EXCEPT ![id] = @ + 0]
  <2>1. held \in [StreamIds -> Nat] BY <1>0, TypesFacts
  <2>2. [held EXCEPT ![id] = held[id] + 0] = held BY <1>1, <1>13, <2>1
  <2> QED BY <1>2, <2>2
<1>15. Onward(srv, t) /\ \A i \in Ids : i \notin {0, id} => Same(srv, t, i) BY <1>12 DEF ReadPart
<1> QED BY <1>0, <1>1, <1>2, <1>12, <1>13, <1>14, <1>15, PromptRead

\* DATA that is ignored is counted on the connection, and consumed there.
LEMMA IgnoreDataPrompt == ASSUME LedgerInv, Prompt, NEW n \in 0..iframe.left, IgnoreData(n) PROVE Prompt'
<1> DEFINE id == iframe.id
           r == RecvOnConnection(srv, n)
           c == ConsumeConnection(r, n)
           t == IF n = 0 THEN srv ELSE c
<1>0. Types /\ InRange(srv) /\ Ignored /\ iframe # NoFrame /\ iframe.state = "IGN_DATA" BY DEF LedgerInv, IgnoreData
<1>1. /\ srv \in Srv /\ id \in StreamIds /\ n \in Nat /\ id \in Ids /\ 0 \in Ids /\ id # 0
  BY <1>0, TypesFacts, IdsAre DEF Reader
<1>2. UNCHANGED <<use, peer, held>> /\ srv' = t BY DEF IgnoreData
<1>3. /\ Level(srv) /\ HeldBytes \in Nat /\ Ready(srv, 0, HeldBytes) /\ held[id] \in Nat
      /\ id \notin peer.ended => Ready(srv, id, held[id])
  BY <1>0, <1>1, PromptIs
<1>4. IsClosing(srv) \/ srv.stream[id] # "opened" BY <1>0 DEF Ignored
<1>5. /\ Onward(srv, t) /\ Level(t) /\ Ready(t, 0, HeldBytes) /\ (\A i \in Ids : i # 0 => Same(srv, t, i))
      /\ t.stream = srv.stream
  <2>1. CASE n = 0
    <3>1. t = srv BY <2>1
    <3>2. Onward(srv, srv) /\ \A i \in Ids : Same(srv, srv, i) BY <1>1, OnwardSame DEF Same
    <3> HIDE DEF t
    <3> QED BY <1>3, <3>1, <3>2
  <2>2. CASE n # 0
    <3>1. t = c BY <2>2
    <3>2. /\ Onward(srv, r) /\ r \in Srv /\ r.stream = srv.stream /\ (\A i \in Ids : i # 0 => Same(srv, r, i))
      BY <1>1, RecvOnConnectionIs
    <3> DEFINE h == HeldBytes + n
    <3>3. h \in Nat /\ n <= h /\ h - n = HeldBytes BY <1>1, <1>3
    <3>4. Ready(r, 0, h) /\ Level(r) BY <1>1, <1>3, RecvOnConnectionReady
    <3> HIDE DEF r, h, t
    <3>5. Moves(r, c, 0) BY <1>1, <3>2, ConsumeConnectionIs
    <3>6. Ready(c, 0, h - n) /\ (Level(r) => Level(c)) BY <1>1, <3>2, <3>3, <3>4, ConsumeConnectionReady
    <3> HIDE DEF c
    <3>7. Onward(srv, c) BY <3>2, <3>5, OnwardTwice DEF Moves
    <3>8. c.stream = srv.stream /\ \A i \in Ids : i # 0 => Same(srv, c, i) BY <3>2, <3>5 DEF Moves, Same
    <3> QED BY <3>1, <3>3, <3>4, <3>6, <3>7, <3>8
  <2> QED BY <2>1, <2>2
<1> HIDE DEF t
<1>6. Ready(t, id, held[id] + 0)
  <2>1. IsClosing(t) \/ t.stream[id] # "opened" BY <1>4, <1>5 DEF Onward, IsClosing
  <2> QED BY <1>1, <2>1, ClosingReady
<1>7. HeldBytes + 0 = HeldBytes /\ held[id] + 0 = held[id] /\ 0 \in Nat BY <1>3
<1>8. held' = IF use.auto THEN held ELSE [held EXCEPT ![id] = @ + 0]
  <2>1. held \in [StreamIds -> Nat] BY <1>0, TypesFacts
  <2>2. [held EXCEPT ![id] = held[id] + 0] = held BY <1>1, <1>7, <2>1
  <2> QED BY <1>2, <2>2
<1>9. Ready(t, 0, HeldBytes + 0) BY <1>5, <1>7
<1>10. \A i \in Ids : i \notin {0, id} => Same(srv, t, i) BY <1>5
<1> HIDE DEF id
<1> QED BY <1>0, <1>1, <1>2, <1>5, <1>6, <1>7, <1>8, <1>9, <1>10, PromptRead

-----------------------------------------------------------------------------
(* The other frames.                                                        *)

\* The server acts, and the application takes nothing.
LEMMA ServerPrompt ==
  ASSUME Types, Prompt, UNCHANGED <<use, peer, held>>, Level(srv'),
         \A i \in Ids \ peer.ended : Ready(srv, i, Taken(i)) => Ready(srv', i, Taken(i))
  PROVE  Prompt'
<1>1. \A i \in Ids \ peer.ended : Ready(srv', i, Taken(i)) BY DEF Prompt
<1>2. Level(srv)' BY DEF Level
<1>3. \A i \in Ids \ peer'.ended : Ready(srv, i, Taken(i))'
  <2> TAKE i \in Ids \ peer'.ended
  <2>1. Ready(srv', i, Taken(i)) BY <1>1
  <2>2. Taken(i)' = Taken(i) BY DEF Taken, HeldBytes
  <2> QED BY <2>1, <2>2 DEF Ready, CountedIn, Announcing, IsClosing, Handed, Little
<1> QED BY <1>2, <1>3 DEF Prompt

\* Nothing that matters here changes.
LEMMA IdlePrompt ==
  ASSUME Types, Prompt, UNCHANGED <<use, peer, held>>,
         srv'.win = srv.win, srv'.stream = srv.stream, srv'.ob = srv.ob, srv'.goaway = srv.goaway,
         srv'.overrun = srv.overrun
  PROVE  Prompt'
<1>1. Level(srv') BY DEF Prompt, Level
<1>2. \A i \in Ids \ peer.ended : Ready(srv, i, Taken(i)) => Ready(srv', i, Taken(i))
  BY DEF Ready, CountedIn, Announcing, IsClosing
<1> QED BY <1>1, <1>2, ServerPrompt

\* A new stream has received nothing.
LEMMA HeadHeadersPrompt ==
  ASSUME LedgerInv, Prompt, RecvHead, Head(fromPeer).type = "HEADERS", NEW id \in StreamIds, id = Head(fromPeer).id
  PROVE  Prompt'
<1>0. Types BY DEF LedgerInv
<1>1. /\ srv' = IF IsClosing(srv) THEN srv ELSE OpenStream(srv, id)
      /\ UNCHANGED <<use, peer, held>>
  BY DEF RecvHead
<1>2. srv \in Srv /\ id \in Ids /\ id # 0 /\ held[id] \in Nat BY <1>0, TypesFacts, IdsAre
<1>3. CASE IsClosing(srv) BY <1>0, <1>1, <1>3, IdlePrompt
<1>4. CASE ~IsClosing(srv)
  <2>1. srv' = OpenStream(srv, id) BY <1>1, <1>4
  <2>2. /\ srv'.win[id] = Window(srv.initial) /\ srv'.stream[id] = "opened"
        /\ \A i \in Ids : i # id => srv'.win[i] = srv.win[i]
        /\ \A i \in StreamIds : i # id => srv'.stream[i] = srv.stream[i]
        /\ srv'.ob = srv.ob /\ srv'.goaway = srv.goaway /\ srv'.overrun = srv.overrun
    BY <1>2, <2>1, OpenStreamIs
  <2>3. \A i \in Ids : i # id => Same(srv, srv', i) BY <2>2, IdsAre DEF Same
  <2>4. /\ srv'.win[id].recv = 0 /\ srv'.win[id].consumed = 0 /\ srv'.win[id].reduction = 0
        /\ srv'.win[id].queued = FALSE
    BY <2>2 DEF Window
  <2>5. Level(srv')
    <3> SUFFICES ASSUME NEW i \in Ids PROVE srv'.win[i].reduction = 0 BY DEF Level
    <3>1. CASE i = id BY <2>4, <3>1
    <3>2. CASE i # id BY <2>2, <3>2 DEF Prompt, Level
    <3> QED BY <3>1, <3>2
  <2>6. Ready(srv', id, held[id])
    <3>1. Handed(srv'.win[id], held[id]) BY <1>2, <2>4 DEF Handed
    <3>2. Little(srv'.win[id], held[id]) BY <1>2, <2>4 DEF Little, ShouldSendWindowUpdate
    <3> QED BY <2>4, <3>1, <3>2 DEF Ready, Announcing
  <2>7. ASSUME NEW i \in Ids \ peer.ended, Ready(srv, i, Taken(i)) PROVE Ready(srv', i, Taken(i))
    <3>1. CASE i = id BY <1>2, <2>6, <3>1 DEF Taken
    <3>2. CASE i # id
      <4>1. Same(srv, srv', i) /\ (IsClosing(srv) => IsClosing(srv')) BY <2>2, <2>3, <3>2 DEF IsClosing
      <4> QED BY <2>7, <4>1, SameReady
    <3> QED BY <3>1, <3>2
  <2> QED BY <1>0, <1>1, <2>5, <2>7, ServerPrompt
<1> QED BY <1>3, <1>4

\* What a new initial window does to windows that were ready, where updates are automatic.
Prompted(s, t, done) ==
  (Level(s) => Level(t)) /\ \A i \in done : Ready(s, i, 0) => Ready(t, i, 0)

LEMMA MovedByReady ==
  ASSUME use.auto, NEW s \in Srv, NEW id \in StreamIds, s.stream[id] # "idle", NEW new \in 0..MaxWindow
  PROVE  Prompted(s, MovedBy(id, s, new), {id})
<1> DEFINE t == MovedBy(id, s, new)
<1>0. id \in Ids /\ id # 0 /\ s.win[id] \in Win BY SrvFields, IdsAre
<1>1. CASE s.win[id].local + new - s.initial > MaxWindow
  <2>1. t = AddRst(s, id) BY <1>1 DEF MovedBy
  <2>2. t.stream[id] # "opened" /\ t.win = s.win BY <2>1, AddRstIs
  <2> HIDE DEF t
  <2>3. Ready(t, id, 0) BY <1>0, <2>2, ClosingReady
  <2>4. Level(s) => Level(t) BY <2>2 DEF Level
  <2> QED BY <2>3, <2>4 DEF Prompted, t
<1>2. CASE ~(s.win[id].local + new - s.initial > MaxWindow)
  <2> DEFINE w == [s.win[id] EXCEPT !.local = @ + new - s.initial]
             r == Resized(s, id, w)
  <2>1. t = Replenish(r, id) BY <1>2 DEF MovedBy, Resized, Srv
  <2>2. /\ w \in Win /\ w.queued = s.win[id].queued /\ w.reduction = s.win[id].reduction
    <3>1. s.win[id].local + new - s.initial \in Int BY <1>0, SrvFields
    <3> QED BY <1>0, <3>1 DEF Win
  <2> HIDE DEF w
  <2>3. /\ r \in Srv /\ r.win[id] = w /\ r.stream = s.stream /\ r.ob = s.ob /\ r.goaway = s.goaway
        /\ r.overrun = s.overrun /\ \A i \in Ids : i # id => r.win[i] = s.win[i]
    BY <1>0, <2>2, ResizedIs
  <2> HIDE DEF r, t
  <2>4. /\ (CountedIn(r, id) => Announcing(r, id)) => Ready(t, id, 0)
        /\ t.win[id].reduction = r.win[id].reduction
    BY <1>0, <2>1, <2>3, ReplenishReady
  <2>5. Ready(s, id, 0) => (CountedIn(r, id) => Announcing(r, id))
    BY <2>2, <2>3 DEF Ready, CountedIn, Announcing, IsClosing
  <2>6. \A i \in Ids : i # id => Same(r, t, i) BY <1>0, <2>1, <2>3, ReplenishIs DEF Moves
  <2>7. \A i \in Ids : i # id => Same(s, t, i) BY <2>3, <2>6 DEF Same
  <2>8. Level(s) => Level(t) BY <1>0, <2>2, <2>3, <2>4, <2>7, LevelSame
  <2> QED BY <2>4, <2>5, <2>8 DEF Prompted, t
<1> QED BY <1>1, <1>2

LEMMA StepsReady ==
  ASSUME use.auto, NEW base \in Srv, NEW new \in 0..MaxWindow, NEW S \in SUBSET StreamIds, \A i \in S : base.stream[i] # "idle"
  PROVE  Prompted(base, Steps(base, S, new)[S], S)
<1> DEFINE g == Steps(base, S, new)
           Done(s) == Shifted(base, g[s], s, new) /\ Prompted(base, g[s], s)
           T == {n \in Nat : \A s \in SUBSET S : Cardinality(s) = n => Done(s)}
<1>0. IsFiniteSet(S) BY SizesAssumption, FS_Subset
<1>1. \A s \in SUBSET S : IsFiniteSet(s) /\ Cardinality(s) \in Nat BY <1>0, FS_Subset, FS_CardinalityType
<1>2. \A s \in SUBSET S : g[s] = Step(g, s, base, new) BY <1>0, StepsExist
<1> HIDE DEF g
<1>3. 0 \in T
  <2> SUFFICES ASSUME NEW s \in SUBSET S, Cardinality(s) = 0 PROVE Done(s) OBVIOUS
  <2>1. s = {} BY <1>1, FS_EmptySet
  <2>2. g[s] = base BY <1>2, <2>1 DEF Step
  <2>3. Prompted(base, g[s], s) BY <2>1, <2>2 DEF Prompted
  <2> QED BY <2>1, <2>2, <2>3, ShiftedNone
<1>4. \A n \in T : n + 1 \in T
  <2> SUFFICES ASSUME NEW n \in T PROVE n + 1 \in T OBVIOUS
  <2>1. n \in Nat /\ \A s \in SUBSET S : Cardinality(s) = n => Done(s) OBVIOUS
  <2> SUFFICES ASSUME NEW s \in SUBSET S, Cardinality(s) = n + 1 PROVE Done(s)
    BY <2>1
  <2>2. IsFiniteSet(s) /\ s # {}
    <3>1. Cardinality({}) = 0 BY FS_EmptySet
    <3>2. Cardinality(s) # 0 BY <2>1
    <3> HIDE DEF T
    <3>3. s # {} BY <3>1, <3>2, Zenon
    <3> QED BY <1>1, <3>3
  <2> DEFINE x == Pick(s)
             r == s \ {x}
  <2>3. x \in s /\ Cardinality(r) = n
    <3> HIDE DEF T
    <3>1. x \in s BY <2>2, PickIn
    <3>2. Cardinality(r) = Cardinality(s) - 1 BY <2>2, OneLess
    <3> QED BY <2>1, <3>1, <3>2
  <2>4. g[s] = MovedBy(x, g[r], new) BY <1>2, <2>2 DEF Step
  <2>5. r \in SUBSET S /\ r \in SUBSET StreamIds /\ x \notin r /\ s = r \cup {x} /\ x \in StreamIds BY <2>3
  <2> HIDE DEF x, r, T
  <2>6. Done(r) BY <2>1, <2>3, <2>5
  <2>7. g[r] \in Srv /\ g[r].stream[x] # "idle"
    <3>1. g[r] \in Srv /\ \A i \in StreamIds : g[r].stream[i] = base.stream[i] \/ g[r].stream[i] = "closing"
      BY <2>6 DEF Shifted
    <3> QED BY <2>3, <2>5, <3>1
  <2>8. Shifted(g[r], g[s], {x}, new) BY <2>4, <2>5, <2>7, MovedByIs
  <2>9. g[s] \in Srv BY <2>8 DEF Shifted
  <2>10. Shifted(base, g[s], r \cup {x}, new) BY <2>5, <2>6, <2>7, <2>8, <2>9, ShiftedMore
  <2>11. Prompted(g[r], g[s], {x}) BY <2>4, <2>5, <2>7, MovedByReady
  <2>12. ASSUME NEW i \in s, Ready(base, i, 0) PROVE Ready(g[s], i, 0)
    <3>0. i \in Ids /\ x \in Ids /\ (IsClosing(base) => IsClosing(g[r])) /\ (IsClosing(g[r]) => IsClosing(g[s]))
      BY <2>5, <2>6, <2>8, IdsAre DEF Shifted, IsClosing
    <3>1. CASE i = x
      <4>1. Same(base, g[r], x) BY <2>5, <2>6, <3>0 DEF Shifted
      <4>2. Ready(g[r], x, 0) BY <2>12, <3>0, <3>1, <4>1, SameReady
      <4> QED BY <2>11, <3>1, <4>2 DEF Prompted
    <3>2. CASE i # x
      <4>1. Ready(g[r], i, 0) BY <2>5, <2>6, <2>12, <3>2 DEF Prompted
      <4>2. Same(g[r], g[s], i) BY <2>8, <3>0, <3>2 DEF Shifted
      <4> QED BY <3>0, <4>1, <4>2, SameReady
    <3> QED BY <3>1, <3>2
  <2>13. Prompted(base, g[s], s) BY <2>6, <2>11, <2>12 DEF Prompted
  <2> QED BY <2>5, <2>10, <2>13
<1>5. T = Nat
  <2>1. T \subseteq Nat OBVIOUS
  <2> HIDE DEF T
  <2> QED BY <1>3, <1>4, <2>1, NatSet
<1>6. Cardinality(S) \in T BY <1>1, <1>5
<1> QED BY <1>6 DEF g

LEMMA HeadAckPrompt ==
  ASSUME LedgerInv, Growing, Prompt, RecvHead, Head(fromPeer).type = "SETTINGS_ACK" PROVE Prompt'
<1> DEFINE f == Head(fromPeer)
           new == Head(srv.inflight)
           S == {id \in StreamIds : srv.stream[id] # "idle"}
           r == Steps(srv, S, new)[S]
           t == UpdateLocalInitial(srv, new)
<1>0. Types /\ Within /\ AckLedger BY DEF LedgerInv
<1>1. srv' = t /\ fromPeer # <<>> /\ UNCHANGED <<use, peer, held>> BY DEF RecvHead
<1>2. f \in In /\ srv \in Srv /\ srv.inflight \in Seq(0..MaxWindow)
  <2>1. fromPeer \in Seq(In) BY <1>0, TypesFacts
  <2> QED BY <1>0, <1>1, <2>1, HeadAndTail, TypesFacts, SrvFields
<1>3. srv.inflight # <<>>
  <2>1. fromPeer \in Seq(In) BY <1>0, TypesFacts
  <2>2. Count(Tail(fromPeer), "SETTINGS_ACK") = Acknowledged - One(f, "SETTINGS_ACK")
        /\ Acknowledged \in Nat
    BY <1>1, <2>1, CountStep DEF Acknowledged
  <2>3. Count(Tail(fromPeer), "SETTINGS_ACK") \in Nat
    <3>1. Tail(fromPeer) \in Seq(In) BY <1>1, <2>1
    <3> QED BY <3>1, CountStep
  <2>4. Acknowledged >= 1 BY <2>2, <2>3 DEF One
  <2>5. Count(toPeer, "SETTINGS") \in Nat /\ Len(srv.urgent) \in Nat
    <3>1. toPeer \in Seq(Msg) /\ srv.urgent \in Seq(Announcement) BY <1>0, <1>2, TypesFacts, SrvFields
    <3> QED BY <3>1, CountStep
  <2>6. Len(srv.inflight) = Acknowledged + Count(toPeer, "SETTINGS") + Len(srv.urgent) BY <1>0 DEF AckLedger
  <2>7. Len(srv.inflight) # 0 BY <2>2, <2>4, <2>5, <2>6
  <2> QED BY <2>7
<1>4. use.auto BY <1>0, <1>3 DEF Within, Growing
<1>5. new \in 0..MaxWindow
  <2> DEFINE V == 0..MaxWindow
  <2>1. srv.inflight \in Seq(V) BY <1>2
  <2> HIDE DEF V
  <2>2. Head(srv.inflight) \in V BY <1>3, <2>1, HeadAndTail
  <2> QED BY <2>2 DEF V
<1>6. t = [r EXCEPT !.initial = new, !.inflight = Tail(@)] BY UpdateIsSteps
<1> HIDE DEF f, new, t
<1>7. Shifted(srv, r, S, new) /\ Prompted(srv, r, S)
  <2>1. S \in SUBSET StreamIds /\ \A i \in S : srv.stream[i] # "idle" OBVIOUS
  <2> HIDE DEF S
  <2> QED BY <1>2, <1>4, <1>5, <2>1, StepsShift, StepsReady
<1> HIDE DEF r
<1>8. /\ srv'.win = r.win /\ srv'.stream = r.stream /\ srv'.ob = r.ob /\ srv'.goaway = r.goaway
      /\ srv'.overrun = r.overrun
  BY <1>1, <1>6, <1>7 DEF Shifted, Srv
<1>9. Level(srv') BY <1>7, <1>8 DEF Prompt, Prompted, Level
<1>10. ASSUME NEW i \in Ids \ peer.ended, Ready(srv, i, Taken(i)) PROVE Ready(srv', i, Taken(i))
  <2>1. Ready(r, i, 0)
    <3>1. Ready(srv, i, 0) BY <1>4, <1>10, AutoReady
    <3>2. CASE i \in S BY <1>7, <3>1, <3>2 DEF Prompted
    <3>3. CASE i \notin S
      <4>1. Same(srv, r, i) /\ (IsClosing(srv) => IsClosing(r)) BY <1>7, <3>3 DEF Shifted, IsClosing
      <4> QED BY <3>1, <4>1, SameReady
    <3> QED BY <3>2, <3>3
  <2>2. Ready(srv', i, 0) BY <1>8, <2>1 DEF Ready, CountedIn, Announcing, IsClosing
  <2> QED BY <1>4, <2>2, AutoReady
<1> QED BY <1>0, <1>1, <1>9, <1>10, ServerPrompt

LEMMA RecvHeadPrompt == ASSUME LedgerInv, Growing, Prompt, RecvHead PROVE Prompt'
<1>1. Types /\ fromPeer # <<>> BY DEF LedgerInv, RecvHead
<1>2. Head(fromPeer) \in In
  <2>1. fromPeer \in Seq(In) BY <1>1, TypesFacts
  <2> QED BY <1>1, <2>1, HeadAndTail
<1>3. Head(fromPeer).type \in {"HEADERS", "SETTINGS_ACK", "DATA"} BY <1>2, InFields
<1>4. CASE Head(fromPeer).type = "HEADERS"
  <2>1. Head(fromPeer).id \in StreamIds BY <1>2, <1>4, InFields
  <2> QED BY <1>4, <2>1, HeadHeadersPrompt
<1>5. CASE Head(fromPeer).type = "DATA"
  <2>1. srv' = srv /\ UNCHANGED <<use, peer, held>> BY <1>5 DEF RecvHead
  <2> QED BY <1>1, <2>1, IdlePrompt
<1> QED BY <1>3, <1>4, <1>5, HeadAckPrompt

-----------------------------------------------------------------------------
(* Sending, and the application.                                            *)

\* An update that is sent leaves its window ready; one that is dropped was of no use.
LEMMA UpdatePrompt ==
  ASSUME LedgerInv, Prompt, srv.ob # <<>>, NEW f, f = Head(srv.ob), f.type = "WINDOW_UPDATE",
         NEW s, s = Rest(srv), NEW id, id = f.id,
         srv' = IF WindowUpdateAllowed(s, id) THEN AfterWindowUpdate(s, id) ELSE s,
         UNCHANGED <<use, peer, held>>
  PROVE  Prompt'
<1>0. Types /\ Ending BY DEF LedgerInv
<1>1. srv \in Srv BY <1>0, TypesFacts
<1>2. /\ s \in Srv /\ s.win = srv.win /\ s.stream = srv.stream /\ s.shutRd = srv.shutRd
      /\ s.goaway = srv.goaway /\ s.overrun = srv.overrun /\ f \in Out
      /\ \A i \in Ids : Updates(s.ob, i) = Updates(srv.ob, i) - IncFor(f, i) /\ IncFor(f, i) \in Nat
  BY ONLY <1>1, srv.ob # <<>>, f = Head(srv.ob), s = Rest(srv), ItemOut
<1>3. id \in Ids BY <1>2, MsgFields DEF Msg
<1>4. Level(s) BY <1>2 DEF Prompt, Level
<1>5. \A i \in Ids : i # id => Same(srv, s, i)
  <2> SUFFICES ASSUME NEW i \in Ids, i # id PROVE Same(srv, s, i) OBVIOUS
  <2>1. IncFor(f, i) = 0 BY DEF IncFor, Fits
  <2>2. Updates(srv.ob, i) \in Nat BY <1>1, SrvFields
  <2>3. Updates(s.ob, i) = Updates(srv.ob, i) BY <1>2, <2>1, <2>2
  <2> QED BY <1>2, <2>3 DEF Same
<1>6. ASSUME NEW i \in Ids \ peer.ended, i # id, Ready(srv, i, Taken(i)) PROVE Ready(s, i, Taken(i))
  BY <1>2, <1>5, <1>6, SameReady DEF IsClosing
<1>7. CASE ~WindowUpdateAllowed(s, id)
  <2>1. srv' = s BY <1>7
  <2>2. Ready(s, id, Taken(id)) BY <1>2, <1>7 DEF Ready, CountedIn, WindowUpdateAllowed
  <2> QED BY <1>0, <1>4, <1>6, <2>1, <2>2, ServerPrompt
<1>8. CASE WindowUpdateAllowed(s, id)
  <2>1. srv' = AfterWindowUpdate(s, id) BY <1>8
  <2>2. Moves(s, srv', id) BY <1>2, <1>3, <2>1, AfterWindowUpdateIs
  <2>3. IsClosing(s) => IsClosing(srv') BY <2>2 DEF Moves, Onward, IsClosing
  <2>4. \A i \in Ids : i # id => Same(s, srv', i) BY <2>2 DEF Moves
  <2>5. Taken(id) \in Nat BY <1>0, <1>3, TakenIs
  <2>6. ASSUME id \notin peer.ended PROVE Ready(srv', id, Taken(id))
    <3>1. Ready(srv, id, Taken(id)) BY <1>3, <2>6 DEF Prompt
    <3>2. CountedIn(s, id) => Handed(s.win[id], Taken(id)) BY <1>2, <3>1 DEF Ready, CountedIn, IsClosing
    <3>3. id \notin s.shutRd BY <1>0, <1>2, <2>6 DEF Ending
    <3> QED BY <1>2, <1>3, <1>4, <2>1, <2>5, <3>2, <3>3, AfterWindowUpdateReady
  <2>7. Level(srv')
    <3> DEFINE h == Greatest(0, s.win[id].recv - s.win[id].consumed)
    <3>1. s.win[id].recv \in Int /\ s.win[id].consumed \in Int BY <1>2, <1>3, SrvFields
    <3>2. h \in Nat /\ Handed(s.win[id], h) BY <3>1 DEF Greatest, Handed
    <3> HIDE DEF h
    <3> QED BY <1>2, <1>3, <1>4, <2>1, <3>2, AfterWindowUpdateReady
  <2>8. ASSUME NEW i \in Ids \ peer.ended, Ready(srv, i, Taken(i)) PROVE Ready(srv', i, Taken(i))
    <3>1. CASE i = id BY <2>6, <2>8, <3>1
    <3>2. CASE i # id
      <4>1. Ready(s, i, Taken(i)) BY <1>6, <2>8, <3>2
      <4> QED BY <2>3, <2>4, <3>2, <4>1, SameReady
    <3> QED BY <3>1, <3>2
  <2> QED BY <1>0, <2>7, <2>8, ServerPrompt
<1> QED BY <1>7, <1>8

\* A stream, or the session, ends.
LEMMA ClosesPrompt ==
  ASSUME Types, Prompt, UNCHANGED <<use, peer, held>>, NEW id \in StreamIds, srv'.win = srv.win,
         IsClosing(srv) => IsClosing(srv'),
         IsClosing(srv') \/ (srv'.stream[id] # "opened" /\ \A i \in Ids : i # id => Same(srv, srv', i))
  PROVE  Prompt'
<1>1. Level(srv') BY DEF Prompt, Level
<1>2. ASSUME NEW i \in Ids \ peer.ended, Ready(srv, i, Taken(i)) PROVE Ready(srv', i, Taken(i))
  <2>1. CASE IsClosing(srv') BY <2>1, ClosingReady
  <2>2. CASE ~IsClosing(srv') /\ i = id
    <3>1. i # 0 /\ srv'.stream[i] # "opened" BY <2>2, IdsAre
    <3> QED BY <3>1, ClosingReady
  <2>3. CASE ~IsClosing(srv') /\ i # id
    <3>1. Same(srv, srv', i) BY <2>3
    <3> QED BY <1>2, <3>1, SameReady
  <2> QED BY <2>1, <2>2, <2>3
<1> QED BY <1>1, <1>2, ServerPrompt

LEMMA SendPrompt == ASSUME LedgerInv, Prompt, Send PROVE Prompt'
<1>0. Types /\ Touched BY DEF LedgerInv
<1>1. /\ srv \in Srv /\ srv.urgent \in Seq(Announcement) /\ srv.ob \in Seq(Out)
      /\ srv.urgent \in Seq(Msg) /\ srv.ob \in Seq(Msg)
  BY <1>0, TypesFacts, SrvFields DEF Msg
<1>2. UNCHANGED <<use, peer, held>> BY DEF Send
<1>3. CASE srv.urgent # <<>>
  <2> DEFINE f == Head(srv.urgent)
  <2>1. Head(srv.urgent \o srv.ob) = f BY <1>1, <1>3, HeadOfBoth
  <2>2. f.type = "SETTINGS"
    <3>1. f \in Announcement BY <1>1, <1>3, HeadAndTail
    <3> QED BY <3>1 DEF Announcement
  <2>3. srv' = [srv EXCEPT !.urgent = Tail(@)] BY <1>3, <2>1, <2>2 DEF Send
  <2>4. /\ srv'.win = srv.win /\ srv'.stream = srv.stream /\ srv'.ob = srv.ob /\ srv'.goaway = srv.goaway
        /\ srv'.overrun = srv.overrun
    BY <1>1, <2>3 DEF Srv
  <2> QED BY <1>0, <1>2, <2>4, IdlePrompt
<1>4. CASE srv.urgent = <<>>
  <2> DEFINE f == Head(srv.ob)
             s == Rest(srv)
  <2>0. srv.ob # <<>> BY <1>4 DEF Send
  <2>1. Head(srv.urgent \o srv.ob) = f
    <3>1. srv.urgent \o srv.ob = srv.ob BY <1>1, <1>4
    <3> QED BY <3>1
  <2>2. \/ f.type = "WINDOW_UPDATE" /\ srv' = IF WindowUpdateAllowed(s, f.id) THEN AfterWindowUpdate(s, f.id) ELSE s
        \/ f.type = "RST_STREAM" /\ srv' = IF IsClosing(s) THEN s ELSE CloseStream(s, f.id)
        \/ f.type = "GOAWAY" /\ srv' = [s EXCEPT !.goaway = "sent"]
        \/ f.type = "SETTINGS"
    BY <1>4, <2>1 DEF Send, Rest
  <2>3. /\ s \in Srv /\ s.win = srv.win /\ s.stream = srv.stream /\ s.goaway = srv.goaway /\ s.overrun = srv.overrun
        /\ f \in Out /\ f = srv.ob[1] /\ 1 \in DOMAIN srv.ob
        /\ \A i \in Ids : Updates(s.ob, i) = Updates(srv.ob, i) - IncFor(f, i) /\ Updates(srv.ob, i) \in Nat
    <3>1. \A i \in Ids : Updates(srv.ob, i) \in Nat BY <1>1, SrvFields
    <3> QED BY <1>1, <2>0, <3>1, Dequeued DEF Rest
  <2>4. f.type # "SETTINGS" /\ (f.type = "RST_STREAM" => f.id \in StreamIds) BY <2>3, MsgFields
  <2>5. CASE f.type = "WINDOW_UPDATE"
    <3>1. srv' = IF WindowUpdateAllowed(s, f.id) THEN AfterWindowUpdate(s, f.id) ELSE s BY <2>2, <2>5
    <3> HIDE DEF f, s
    <3> QED BY <1>2, <2>0, <2>5, <3>1, UpdatePrompt DEF f, s
  <2> HIDE DEF s
  <2>8. CASE f.type = "RST_STREAM" /\ IsClosing(s)
    <3>1. srv' = s BY <2>2, <2>8
    <3>2. IsClosing(srv') BY <2>8, <3>1
    <3>3. Level(srv') BY <2>3, <3>1 DEF Prompt, Level
    <3> QED BY <1>0, <1>2, <3>2, <3>3, ClosingReady, ServerPrompt
  <2>6. CASE f.type = "RST_STREAM" /\ ~IsClosing(s)
    <3>1. srv' = CloseStream(s, f.id) BY <2>2, <2>6
    <3>2. s.stream[f.id] # "idle" /\ f.id \in StreamIds BY <1>0, <2>3, <2>4, <2>6 DEF Touched, ResetKnown
    <3> DEFINE id == f.id
    <3> HIDE DEF id
    <3>3. /\ srv'.win = s.win /\ srv'.ob = s.ob /\ srv'.goaway = s.goaway /\ srv'.overrun = s.overrun
          /\ srv'.stream[id] = "closed" /\ \A i \in StreamIds : i # id => srv'.stream[i] = s.stream[i]
      BY <2>3, <3>1, <3>2, CloseStreamIs DEF id
    <3>4. \A i \in Ids : Updates(s.ob, i) = Updates(srv.ob, i)
      <4> TAKE i \in Ids
      <4>1. IncFor(f, i) = 0 BY <2>6 DEF IncFor, Fits
      <4> QED BY <2>3, <4>1
    <3>5. \A i \in Ids : i # id => Same(srv, srv', i) BY <2>3, <3>3, <3>4, IdsAre DEF Same
    <3>6. IsClosing(srv) => IsClosing(srv') BY <2>3, <3>3 DEF IsClosing
    <3>7. id \in StreamIds BY <3>2 DEF id
    <3> QED BY <1>0, <1>2, <2>3, <3>3, <3>5, <3>6, <3>7, ClosesPrompt
  <2>7. CASE f.type = "GOAWAY"
    <3>1. srv' = [s EXCEPT !.goaway = "sent"] BY <2>2, <2>7
    <3>2. srv'.win = srv.win /\ srv'.goaway = "sent" BY <2>3, <3>1 DEF Srv
    <3>3. IsClosing(srv') BY <3>2 DEF IsClosing
    <3>4. Level(srv') BY <3>2 DEF Prompt, Level
    <3> QED BY <1>0, <1>2, <3>3, <3>4, ClosingReady, ServerPrompt
  <2> QED BY <2>2, <2>4, <2>5, <2>6, <2>7, <2>8
<1> QED BY <1>3, <1>4

LEMMA FinishStreamPrompt == ASSUME LedgerInv, Prompt, NEW id \in StreamIds, FinishStream(id) PROVE Prompt'
<1>0. Types BY DEF LedgerInv
<1>1. srv \in Srv /\ srv.stream[id] = "opened" /\ UNCHANGED <<use, peer, held>> BY <1>0, TypesFacts DEF FinishStream
<1>2. srv.stream[id] # "idle" BY <1>1
<1>3. CASE srv' = CloseStream(srv, id)
  <2>1. /\ srv'.win = srv.win /\ srv'.ob = srv.ob /\ srv'.goaway = srv.goaway /\ srv'.overrun = srv.overrun
        /\ srv'.stream[id] = "closed" /\ \A i \in StreamIds : i # id => srv'.stream[i] = srv.stream[i]
    BY <1>1, <1>2, <1>3, CloseStreamIs
  <2>2. \A i \in Ids : i # id => Same(srv, srv', i) BY <2>1, IdsAre DEF Same
  <2>3. IsClosing(srv) => IsClosing(srv') BY <2>1 DEF IsClosing
  <2> QED BY <1>0, <1>1, <2>1, <2>2, <2>3, ClosesPrompt
<1>4. CASE srv' = AddRst(srv, id)
  <2>1. /\ srv'.win = srv.win /\ srv'.goaway = srv.goaway /\ srv'.stream[id] # "opened"
        /\ \A i \in Ids : i # id => Same(srv, srv', i)
    BY <1>1, <1>2, <1>4, AddRstIs
  <2>2. IsClosing(srv) => IsClosing(srv') BY <2>1 DEF IsClosing
  <2> QED BY <1>0, <1>1, <2>1, <2>2, ClosesPrompt
<1> QED BY <1>3, <1>4 DEF FinishStream

\* What is consumed is no longer held.
LEMMA ConsumeHeldPrompt ==
  ASSUME LedgerInv, Prompt, NEW id \in StreamIds, NEW n \in 1..held[id], ConsumeHeld(id, n) PROVE Prompt'
<1>0. Types BY DEF LedgerInv
<1>1. /\ srv \in Srv /\ held \in [StreamIds -> Nat] /\ id \in Ids /\ id # 0 /\ 0 \in Ids
      /\ srv' = Consume(srv, id, n) /\ held' = [held EXCEPT ![id] = @ - n] /\ UNCHANGED <<use, peer>>
  BY <1>0, TypesFacts, IdsAre DEF ConsumeHeld
<1>2. held[id] \in Nat /\ n \in Nat /\ n <= held[id] /\ held[id] - n \in Nat BY <1>1
<1>3. held' \in [StreamIds -> Nat] /\ held'[id] = held[id] - n /\ \A i \in StreamIds \ {id} : held'[i] = held[i]
  BY <1>1, <1>2
<1>4. HeldBytes' = HeldBytes - n /\ HeldBytes \in Nat /\ n <= HeldBytes
  <2>1. HeldBytes \in Nat BY <1>0, TakenIs
  <2>2. held' \in [StreamIds -> Int] BY <1>3
  <2>3. HeldBytes' = HeldBytes - held[id] + held'[id] BY <1>0, <1>3, <2>2, HeldChange
  <2>4. SumFunction(held') >= 0 /\ SumFunction(held') \in Int
    <3>1. DOMAIN held' = StreamIds /\ (\A x \in StreamIds : held'[x] \in Int) /\ \A x \in StreamIds : held'[x] >= 0
      BY <1>3
    <3>2. IsFiniteSet(StreamIds) BY SizesAssumption
    <3> QED BY <3>1, <3>2, SumType DEF SumFunction
  <2>5. HeldBytes' >= 0 BY <2>4 DEF HeldBytes
  <2> QED BY <1>2, <1>3, <2>1, <2>3, <2>5
<1>5. /\ Level(srv) /\ Ready(srv, 0, HeldBytes) /\ (id \notin peer.ended => Ready(srv, id, held[id]))
  BY <1>0, PromptIs
<1>6. /\ Ready(srv', 0, HeldBytes - n) /\ Level(srv')
      /\ id \notin peer.ended => Ready(srv', id, held[id] - n)
  <2>1. /\ Ready(srv', 0, HeldBytes - n) /\ (Level(srv) => Level(srv'))
        /\ Ready(srv, id, held[id]) => Ready(srv', id, held[id] - n)
    BY <1>1, <1>2, <1>4, <1>5, ConsumeReady
  <2> QED BY <1>5, <2>1
<1>7. Onward(srv, srv') /\ \A i \in Ids : i \notin {0, id} => Same(srv, srv', i) BY <1>1, <1>2, ConsumeIs
<1>8. ASSUME NEW i \in Ids \ peer.ended PROVE Ready(srv', i, Taken(i)')
  <2>1. CASE i = 0
    <3>1. Taken(i)' = HeldBytes - n BY <1>4, <2>1 DEF Taken
    <3> QED BY <1>6, <2>1, <3>1
  <2>2. CASE i = id
    <3>1. Taken(i)' = held[id] - n BY <1>1, <1>3, <2>2 DEF Taken
    <3> QED BY <1>6, <2>2, <3>1
  <2>3. CASE i \notin {0, id}
    <3>1. Taken(i)' = Taken(i) BY <1>3, <2>3, IdsAre DEF Taken
    <3>2. Same(srv, srv', i) /\ (IsClosing(srv) => IsClosing(srv')) BY <1>7, <2>3 DEF Onward, IsClosing
    <3>3. Ready(srv, i, Taken(i)) BY DEF Prompt
    <3> QED BY <3>1, <3>2, <3>3, SameReady
  <2> QED BY <2>1, <2>2, <2>3
<1>9. \A i \in Ids \ peer'.ended : Ready(srv, i, Taken(i))'
  <2> TAKE i \in Ids \ peer'.ended
  <2>1. Ready(srv', i, Taken(i)') BY <1>1, <1>8
  <2> QED BY <1>1, <2>1 DEF Ready, CountedIn, Announcing, IsClosing, Handed, Little
<1>10. Level(srv)' BY <1>6 DEF Level
<1> QED BY <1>9, <1>10 DEF Prompt

-----------------------------------------------------------------------------
(* The application, and the peer.                                           *)

\* Without a debt, a window that grows by d has d announced, and less is counted as received.
LEMMA GrowthIs ==
  ASSUME NEW w \in Win, NEW d \in Nat \ {0}, w.reduction = 0, w.consumed \in Nat, NEW h \in Nat
  PROVE  LET a == Adjust(w, d)
         IN /\ a.inc = d /\ a.win.reduction = 0
            /\ w.recv - h <= w.consumed => a.win.recv - h <= Greatest(0, w.consumed - d)
<1> DEFINE a == Adjust(w, d)
           grow == d - Greatest(0, w.recv)
           paid == Least(w.reduction, grow)
           lessen == [w EXCEPT !.recv = -grow]
           widen == [w EXCEPT !.local = @ + grow, !.reduction = @ - paid, !.recv = IF @ < 0 THEN @ + paid ELSE paid]
           c == Greatest(0, w.consumed - d)
<1>1. w.local \in Int /\ w.recv \in Int /\ w.consumed \in Int /\ w.reduction \in Int BY DEF Win
<1>2. grow \in Int /\ (w.recv >= 0 => grow = d - w.recv) /\ (w.recv < 0 => grow = d) BY <1>1 DEF Greatest
<1>3. c \in Nat /\ c >= w.consumed - d BY <1>1 DEF Greatest
<1>4. CASE grow <= 0
  <2>1. a = [win |-> lessen, inc |-> d] BY <1>4 DEF Adjust
  <2>2. lessen.recv = -grow /\ lessen.reduction = w.reduction
    <3> HIDE DEF grow
    <3> QED BY DEF Win
  <2> HIDE DEF lessen, grow, c
  <2>3. a.win = lessen /\ a.inc = d BY <2>1
  <2>4. w.recv >= 0 /\ lessen.recv = w.recv - d BY <1>1, <1>2, <1>4, <2>2
  <2>5. w.recv - h <= w.consumed => lessen.recv - h <= c
    <3> DEFINE r == w.recv
               k == w.consumed
    <3> HIDE DEF r, k
    <3> SUFFICES r \in Int /\ k \in Int /\ (r - h <= k => (r - d) - h <= c) BY <2>4 DEF r, k
    <3> QED BY <1>1, <1>3 DEF r, k
  <2> HIDE DEF a
  <2> QED BY <2>2, <2>3, <2>5 DEF c, a
<1>5. CASE ~(grow <= 0)
  <2>1. paid = 0 BY <1>1, <1>2, <1>5 DEF Least
  <2>2. a = [win |-> widen, inc |-> d - paid] BY <1>5 DEF Adjust
  <2>3. widen.reduction = w.reduction - paid /\ widen.recv = IF w.recv < 0 THEN w.recv + paid ELSE paid
    <3> HIDE DEF grow, paid
    <3> QED BY DEF Win
  <2> HIDE DEF widen, grow, paid, c
  <2>4. a.win = widen /\ a.inc = d BY <2>1, <2>2
  <2>5. widen.reduction = 0 /\ widen.recv <= 0 /\ widen.recv \in Int BY <1>1, <2>1, <2>3
  <2>6. widen.recv - h <= c BY <1>3, <2>5
  <2> HIDE DEF a
  <2> QED BY <2>4, <2>5, <2>6 DEF c, a
<1> QED BY <1>2, <1>4, <1>5

\* The application enlarges a window: what it has come to is announced.
LEMMA SubmitWindowUpdatePrompt ==
  ASSUME LedgerInv, Growing, Prompt, NEW id \in Ids, NEW d \in use.increments, SubmitWindowUpdate(id, d)
  PROVE  Prompt'
<1> DEFINE w == srv.win[id]
           a == Adjust(w, d)
           s == Resized(srv, id, a.win)
           k == Greatest(0, a.win.consumed - a.inc)
           v == [a.win EXCEPT !.consumed = k]
           t == Resized(srv, id, v)
           u == AddWindowUpdate(t, id, d)
<1>0. Types /\ InRange(srv) /\ use \in Uses BY DEF LedgerInv, Types
<1>1. srv \in Srv /\ w \in Win /\ use.increments \subseteq -MaxWindow - 1..MaxWindow /\ MaxWindow \in Nat
  BY <1>0, TypesFacts, SrvFields, SizesAssumption
<1>2. /\ d \in Nat \ {0} /\ d \in Int /\ d <= MaxWindow /\ d # 0 /\ ~AdjustFails(w, d)
      /\ w.local <= MaxWindow /\ w.consumed \in Nat /\ w.consumed \in Int /\ w.reduction >= 0 /\ w.reduction = 0
  BY <1>0, <1>1 DEF InRange, Growing, SubmitWindowUpdate, Prompt, Level
<1>3. UNCHANGED <<use, peer, held>> BY DEF SubmitWindowUpdate
<1>4. srv' = IF a.inc > 0
             THEN AddWindowUpdate([s EXCEPT !.win[id].consumed = Greatest(0, @ - a.inc)], id, a.inc)
             ELSE s
  BY DEF SubmitWindowUpdate, Resized
<1>5. \A h \in Nat : /\ a.inc = d /\ a.win.reduction = 0
                     /\ w.recv - h <= w.consumed => a.win.recv - h <= Greatest(0, w.consumed - d)
  <2> HIDE DEF w
  <2> QED BY <1>1, <1>2, GrowthIs
<1>6. a.inc = d /\ a.win.reduction = 0 BY <1>5
<1> HIDE DEF w
<1>7. a.win \in Win /\ a.win.consumed = w.consumed BY <1>1, <1>2, AdjustIs
<1>8. s.win[id] = a.win BY <1>1, <1>7, ResizedIs
<1>9. k \in Int BY <1>1, <1>2, <1>6, <1>7 DEF Greatest
<1>10. srv' = u
  <2>1. [s EXCEPT !.win[id].consumed = Greatest(0, @ - a.inc)] = [s EXCEPT !.win[id].consumed = k] BY <1>8
  <2> HIDE DEF k
  <2>2. [s EXCEPT !.win[id].consumed = k] = t BY <1>1, <1>7, <1>9, ResizedTwice
  <2> QED BY <1>2, <1>4, <1>6, <2>1, <2>2
<1>11. k = Greatest(0, w.consumed - d) BY <1>6, <1>7
<1> HIDE DEF a, k
<1>12. /\ v \in Win /\ v.recv = a.win.recv /\ v.reduction = 0 /\ v.consumed = k
  <2>1. a.win.reduction = 0 BY <1>6
  <2> QED BY <1>7, <1>9, <2>1 DEF Win
<1> HIDE DEF v
<1>13. /\ t \in Srv /\ t.win[id] = v /\ \A i \in Ids : i # id => t.win[i] = srv.win[i]
       /\ t.stream = srv.stream /\ t.ob = srv.ob /\ t.goaway = srv.goaway /\ t.overrun = srv.overrun
  BY <1>1, <1>12, ResizedIs
<1> HIDE DEF t
<1>14. /\ Moves(t, u, id) /\ u \in Srv /\ u.goaway = t.goaway /\ u.win[id].recv = v.recv
       /\ u.win[id].consumed = k /\ u.win[id].reduction = 0
  BY <1>2, <1>12, <1>13, AddWindowUpdateIs
<1>15. Moves(u, u, id) BY <1>14, MovesNot
<1>16. \A h \in Nat : Handed(w, h) => Handed(u.win[id], h) BY <1>5, <1>11, <1>12, <1>14 DEF Handed
<1>17. u = AddWindowUpdate(t, id, d) OBVIOUS
<1> HIDE DEF u
<1>18. CountedIn(t, id) <=> CountedIn(srv, id) BY <1>13 DEF CountedIn, IsClosing
<1>19. ASSUME NEW h \in Nat, Ready(srv, id, h) PROVE Ready(u, id, h)
  <2>1. CountedIn(t, id) => Handed(u.win[id], h) BY <1>16, <1>18, <1>19 DEF Ready, w
  <2> QED BY <1>2, <1>13, <1>15, <1>17, <2>1, MarkedReady
<1>20. ASSUME NEW i \in Ids, i # id PROVE Same(srv, u, i)
  <2>1. Same(srv, t, i) BY <1>13, <1>20 DEF Same
  <2>2. Same(t, u, i) BY <1>14, <1>20 DEF Moves
  <2> QED BY <2>1, <2>2 DEF Same
<1>21. IsClosing(srv) => IsClosing(u) BY <1>13, <1>14 DEF IsClosing
<1>22. Level(u)
  <2>1. Level(srv) BY DEF Prompt
  <2> SUFFICES ASSUME NEW i \in Ids PROVE u.win[i].reduction = 0 BY DEF Level
  <2>2. CASE i = id BY <1>14, <2>2
  <2>3. CASE i # id BY <1>20, <2>1, <2>3 DEF Level, Same
  <2> QED BY <2>2, <2>3
<1>23. ASSUME NEW i \in Ids \ peer.ended, Ready(srv, i, Taken(i)) PROVE Ready(srv', i, Taken(i))
  <2>1. Taken(i) \in Nat BY <1>0, TakenIs
  <2>2. CASE i = id BY <1>10, <1>19, <1>23, <2>1, <2>2
  <2>3. CASE i # id
    <3>1. Same(srv, u, i) BY <1>20, <2>3
    <3> QED BY <1>10, <1>21, <1>23, <3>1, SameReady
  <2> QED BY <2>2, <2>3
<1> QED BY <1>0, <1>3, <1>10, <1>22, <1>23, ServerPrompt

\* Where windows only grow, nothing sets one to a size.
LEMMA SizesDoNotMove == Growing => \A id : ~\E size \in use.sizes : SetLocalWindowSize(id, size)
BY DEF Growing

\* A new initial window waits for its acknowledgement.
LEMMA SubmitSettingsPrompt == ASSUME LedgerInv, Prompt, NEW v \in use.initials, SubmitSettings(v) PROVE Prompt'
<1> DEFINE f == [type |-> "SETTINGS", id |-> 0, inc |-> v]
<1>1. Types /\ srv \in Srv BY TypesFacts DEF LedgerInv
<1>2. UNCHANGED <<use, peer, held>> /\ srv' = [srv EXCEPT !.inflight = Append(@, v), !.urgent = Append(@, f)]
  BY DEF SubmitSettings
<1> HIDE DEF f
<1>3. /\ srv'.win = srv.win /\ srv'.stream = srv.stream /\ srv'.ob = srv.ob /\ srv'.goaway = srv.goaway
      /\ srv'.overrun = srv.overrun
  BY <1>1, <1>2 DEF Srv
<1> QED BY <1>1, <1>2, <1>3, IdlePrompt

LEMMA ApplicationPrompt == ASSUME LedgerInv, Growing, Prompt, Application PROVE Prompt'
BY FinishStreamPrompt, ConsumeHeldPrompt, SubmitWindowUpdatePrompt, SizesDoNotMove, SubmitSettingsPrompt
   DEF Application

\* While the server stays as it is, the peer only comes to an end of more streams.
LEMMA PeerPrompt ==
  ASSUME Prompt, UNCHANGED <<use, srv, held>>, peer.ended \subseteq peer'.ended PROVE Prompt'
<1>1. \A i : Taken(i)' = Taken(i) BY DEF Taken, HeldBytes
<1>2. \A i : Ready(srv, i, Taken(i))' <=> Ready(srv, i, Taken(i))
  BY <1>1 DEF Ready, CountedIn, IsClosing, Announcing, Handed, Little
<1>3. Level(srv') <=> Level(srv) BY DEF Level
<1> QED BY <1>2, <1>3, PromptKept

LEMMA PeerSendsPrompt == ASSUME LedgerInv, Prompt, PeerSends PROVE Prompt'
<1>1. /\ peer.ended \in SUBSET StreamIds
      /\ peer \in [credit : [Ids -> Int], initial : 0..MaxWindow, opened : SUBSET StreamIds, ended : SUBSET StreamIds]
  BY TypesFacts DEF LedgerInv, Types
<1>2. UNCHANGED <<use, srv, held>> BY DEF PeerSends, PeerOpen, PeerData
<1>3. ASSUME NEW id \in StreamIds, PeerOpen(id) PROVE peer.ended \subseteq peer'.ended
  <2>1. peer' = [peer EXCEPT !.opened = @ \cup {id}, !.credit[id] = peer.initial] BY <1>3 DEF PeerOpen
  <2>2. peer'.ended = peer.ended BY <1>1, <2>1
  <2> QED BY <2>2
<1>4. ASSUME NEW id \in StreamIds, NEW len, NEW pad, NEW end, PeerData(id, len, pad, end)
      PROVE  peer.ended \subseteq peer'.ended
  <2>1. peer' = [peer EXCEPT !.credit[id] = @ - len, !.credit[0] = @ - len,
                             !.ended = IF end THEN @ \cup {id} ELSE @]
    BY <1>4 DEF PeerData
  <2>2. peer'.ended = IF end THEN peer.ended \cup {id} ELSE peer.ended BY <1>1, <2>1
  <2> QED BY <2>2
<1> QED BY <1>2, <1>3, <1>4, PeerPrompt DEF PeerSends

LEMMA PeerReadPrompt == ASSUME LedgerInv, Prompt, PeerRead PROVE Prompt'
<1> DEFINE f == Head(toPeer)
           credit == [id \in Ids |-> IF id \in peer.opened THEN peer.credit[id] + f.inc - peer.initial ELSE peer.credit[id]]
<1>1. /\ peer.ended \in SUBSET StreamIds
      /\ peer \in [credit : [Ids -> Int], initial : 0..MaxWindow, opened : SUBSET StreamIds, ended : SUBSET StreamIds]
  BY TypesFacts DEF LedgerInv, Types
<1>2. UNCHANGED <<use, srv, held>> BY DEF PeerRead
<1>3. \/ peer' = [peer EXCEPT !.credit[f.id] = @ + f.inc]
      \/ peer' = [peer EXCEPT !.initial = f.inc, !.credit = credit]
      \/ peer' = [peer EXCEPT !.ended = @ \cup {f.id}]
      \/ peer' = [peer EXCEPT !.ended = StreamIds]
  BY DEF PeerRead
<1> HIDE DEF f, credit
<1>4. peer'.ended \in {peer.ended, peer.ended \cup {f.id}, StreamIds} BY <1>1, <1>3
<1>5. peer.ended \subseteq peer'.ended BY <1>1, <1>4
<1> QED BY <1>2, <1>5, PeerPrompt

LEMMA NextPrompt == ASSUME LedgerInv, Growing, Prompt, Next PROVE Prompt'
<1>1. CASE Reading BY <1>1, RecvHeadPrompt, RecvPadLengthPrompt, RecvDataPrompt, IgnoreDataPrompt DEF Reading
<1> QED BY <1>1, SendPrompt, ApplicationPrompt, PeerSendsPrompt, PeerReadPrompt DEF Next

\* How the session is used does not change.
LEMMA UseStays == ASSUME Next PROVE use' = use
<1>1. CASE Reading BY <1>1 DEF Reading, RecvHead, RecvPadLength, RecvData, IgnoreData
<1>2. CASE Application
  BY <1>2 DEF Application, FinishStream, ConsumeHeld, SubmitWindowUpdate, SetLocalWindowSize, SubmitSettings
<1>3. CASE PeerSends BY <1>3 DEF PeerSends, PeerOpen, PeerData
<1> QED BY <1>1, <1>2, <1>3 DEF Next, Send, PeerRead

\* At first every window is whole, and no update is queued.
LEMMA InitPrompt == ASSUME Init PROVE Prompt
<1>1. LedgerInv BY InitLedger
<1>2. Types BY <1>1 DEF LedgerInv
<1>3. \A i \in Ids : /\ srv.win[i].recv = 0 /\ srv.win[i].consumed = 0 /\ srv.win[i].reduction = 0
                     /\ srv.win[i].queued = FALSE
  BY DEF Init, Window
<1>4. Level(srv) BY <1>3 DEF Level
<1>5. ASSUME NEW i \in Ids PROVE Ready(srv, i, Taken(i))
  <2> DEFINE h == Taken(i)
  <2>1. h \in Nat BY <1>2, TakenIs
  <2> HIDE DEF h
  <2>2. Announcing(srv, i) BY <1>3 DEF Announcing
  <2>3. Handed(srv.win[i], h) BY <1>3, <2>1 DEF Handed
  <2>4. ~ShouldSendWindowUpdate(srv.win[i].local, 0) BY DEF ShouldSendWindowUpdate
  <2>5. Little(srv.win[i], h) BY <1>3, <2>1, <2>4 DEF Little
  <2> QED BY <2>2, <2>3, <2>5 DEF Ready, h
<1> QED BY <1>4, <1>5 DEF Prompt

\* What could be handed back is little while no update is queued.
LEMMA StallInvariance == Spec => [](LedgerInv /\ StallInv)
<1>1. Init => LedgerInv /\ StallInv BY InitLedger, InitPrompt DEF StallInv
<1>2. LedgerInv /\ StallInv /\ [Next]_vars => (LedgerInv /\ StallInv)'
  <2>1. ASSUME LedgerInv, StallInv, Next PROVE (LedgerInv /\ StallInv)'
    <3>1. LedgerInv' BY <2>1, NextLedger
    <3>2. Growing' => Growing BY <2>1, UseStays DEF Growing
    <3> QED BY <2>1, <3>1, <3>2, NextPrompt DEF StallInv
  <2>2. ASSUME LedgerInv, StallInv, UNCHANGED vars PROVE (LedgerInv /\ StallInv)'
    <3>1. LedgerInv' BY <2>2, StutterLedger
    <3>2. UNCHANGED <<use, srv, held, peer>> BY <2>2 DEF vars
    <3>3. Growing' => Growing BY <3>2 DEF Growing
    <3>4. Prompt => Prompt' BY <3>2, PeerPrompt
    <3> QED BY <2>2, <3>1, <3>3, <3>4 DEF StallInv
  <2> QED BY <2>1, <2>2
<1> QED BY <1>1, <1>2, PTL DEF Spec

-----------------------------------------------------------------------------
(* What it shows.                                                           *)

\* With nothing under way, the credit of the peer is what the window has left, and that is much.
LEMMA PromptReopens == ASSUME LedgerInv, StallInv PROVE NoStall
<1>0. Types /\ CreditAgrees BY LedgerAgrees DEF LedgerInv, LedgersAgree
<1>1. srv \in Srv /\ toPeer \in Seq(Msg) /\ peer.credit \in [Ids -> Int] BY <1>0, TypesFacts
<1> SUFFICES ASSUME NEW id \in Ids, Growing, Counted(id), id \notin peer.ended,
                    srv.win[id].local > (IF use.auto THEN 0 ELSE 1),
                    InFlight(id) = 0, Announced(id) = 0, SettingsGap(id) = 0,
                    use.auto \/ \A s \in StreamIds : held[s] = 0
             PROVE  peer.credit[id] > 0
  BY DEF NoStall
<1> DEFINE local == srv.win[id].local
           recv == srv.win[id].recv
           k == peer.credit[id]
<1>2. local \in Int /\ recv \in Int /\ k \in Int BY <1>1, SrvFields
<1>3. local - recv = k
  <2>1. local - recv + SettingsGap(id) = k + InFlight(id) + Announced(id) BY <1>0 DEF CreditAgrees
  <2> HIDE DEF local, recv, k
  <2> QED BY <1>2, <2>1
<1>4. Ready(srv, id, Taken(id)) /\ CountedIn(srv, id) BY DEF StallInv, Prompt, Counted, CountedIn
<1>5. ~srv.win[id].queued
  <2>1. Updates(srv.ob, id) \in Nat /\ Updates(toPeer, id) \in Nat BY <1>1, SrvFields, UpdatesStep
  <2>2. Updates(srv.ob, id) = 0 BY <2>1 DEF Announced
  <2> QED BY <1>4, <2>2 DEF Ready, Announcing
<1>6. Little(srv.win[id], Taken(id)) BY <1>4, <1>5 DEF Ready
<1>7. CASE use.auto
  <2>1. local > 0 /\ ~ShouldSendWindowUpdate(local, recv) BY <1>6, <1>7 DEF Little
  <2> HIDE DEF local, recv, k
  <2>2. recv < local BY <1>2, <2>1 DEF ShouldSendWindowUpdate
  <2> QED BY <1>2, <1>3, <2>2 DEF k
<1>8. CASE ~use.auto
  <2>1. Taken(id) = 0
    <3>1. \A s \in StreamIds : held[s] = 0 BY <1>8
    <3>2. IsFiniteSet(StreamIds) /\ held \in [StreamIds -> Nat] BY <1>0, TypesFacts, SizesAssumption
    <3>3. DOMAIN held = StreamIds BY <3>2
    <3>4. HeldBytes = 0 BY <3>1, <3>2, <3>3, SumZeros DEF HeldBytes, SumFunction
    <3> QED BY <3>1, <3>4, IdsAre DEF Taken
  <2>2. local > 1 /\ (recv - 0 <= 1 \/ recv - 0 <= local \div 2) BY <1>6, <1>8, <2>1 DEF Little
  <2> HIDE DEF local, recv, k
  <2>3. recv < local BY <1>2, <2>2
  <2> QED BY <1>2, <1>3, <2>3 DEF k
<1> QED BY <1>7, <1>8

\* Where windows only grow, a peer facing an open window, with nothing under way, may send:
\* the server does not sit on what it could hand back (nghttp2_session.c:4859-5010, 6274-6330,
\* nghttp2_helper.c:155-251), for any number of streams, any windows and any bounds.
THEOREM OpenWindowsCanBeUsed == Spec => []NoStall
<1>1. LedgerInv /\ StallInv => NoStall BY PromptReopens
<1> QED BY <1>1, StallInvariance, PTL
=============================================================================
