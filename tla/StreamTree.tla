------------------------------ MODULE StreamTree ------------------------------
(***************************************************************************)
(* The dependency tree of nghttp2_stream.c and the choice of the next DATA  *)
(* frame.  Every stream of the session, open, idle or closed and retained,  *)
(* hangs in one tree under stream 0; each node queues those of its children *)
(* whose subtree has something to send, ordered by a cycle that advances by *)
(* the bytes written over the weight, in unsigned arithmetic that wraps.    *)
(*                                                                         *)
(* The links are the pointers of the code; NULL is -1.  Of stream->seq only *)
(* its order matters: arrival[p] lists the queued children of p by it.      *)
(***************************************************************************)
EXTENDS Integers, Sequences, FiniteSets, SequencesExt

CONSTANTS
  StreamIds,      \* identifiers the peer may use, besides 0
  Weights,        \* the fields a PRIORITY or HEADERS may carry
  Deps,
  Exclusive,
  DefaultWeight,  \* NGHTTP2_DEFAULT_WEIGHT
  MaxWeight,      \* NGHTTP2_MAX_WEIGHT
  Lengths,        \* payload lengths of DATA frames
  MaxLength,      \* the greatest payload length, 16384
  CycleMod,       \* 2^32
  Reasons,        \* why items are put off: "user", "flow" (NGHTTP2_STREAM_FLAG_DEFERRED_ALL)
  MaxPriorities,  \* bound: PRIORITY frames
  MaxJoins        \* bound: times a stream comes to have something to send

ASSUME TreeAssumption ==
  /\ StreamIds \subseteq Nat \ {0} /\ Weights \subseteq 1..MaxWeight
  /\ Deps \subseteq StreamIds \cup {0} /\ Exclusive \subseteq BOOLEAN
  /\ DefaultWeight \in 1..MaxWeight /\ MaxWeight \in Nat
  /\ Lengths \subseteq 0..MaxLength /\ MaxLength \in Nat /\ MaxPriorities \in Nat /\ MaxJoins \in Nat
  /\ Reasons \subseteq {"user", "flow"}
  /\ CycleMod \in Nat /\ CycleMod > 2 * (MaxLength * MaxWeight + MaxWeight - 1)

VARIABLES
  t,           \* the streams and their links
  served,      \* the stream whose turn it was last, and a bit that changes each time
  priorities, joins   \* for the bounds

vars == <<t, served, priorities, joins>>

Null == -1
Ids == StreamIds \cup {0}
MaxCycleDistance == MaxLength * MaxWeight + MaxWeight - 1

Init ==
  /\ t = [state |-> [s \in Ids |-> IF s = 0 THEN "root" ELSE "absent"],
          lastRecv |-> 0,
          depPrev |-> [s \in Ids |-> Null], depNext |-> [s \in Ids |-> Null],
          sibPrev |-> [s \in Ids |-> Null], sibNext |-> [s \in Ids |-> Null],
          weight |-> [s \in Ids |-> DefaultWeight], sumDepWeight |-> [s \in Ids |-> 0],
          item |-> [s \in Ids |-> FALSE], deferred |-> [s \in Ids |-> {}],
          obq |-> [s \in Ids |-> <<>>], arrival |-> [s \in Ids |-> <<>>],
          queued |-> [s \in Ids |-> FALSE],
          cycle |-> [s \in Ids |-> 0], pending |-> [s \in Ids |-> 0],
          lastWrite |-> [s \in Ids |-> 0], lastCycle |-> [s \in Ids |-> 0]]
  /\ served = <<0, FALSE>>
  /\ priorities = 0 /\ joins = 0

-----------------------------------------------------------------------------
(* The queues.  The helpers map one tree u to the next: a handler calls      *)
(* several of them.                                                         *)

\* A difference beyond MaxCycleDistance means that the smaller cycle has wrapped
StreamLess(l, r) ==
  IF l.cycle = r.cycle THEN l.seq < r.seq
  ELSE IF l.cycle < r.cycle THEN r.cycle - l.cycle <= MaxCycleDistance
  ELSE l.cycle - r.cycle > MaxCycleDistance

PQ == INSTANCE PriorityQueue WITH Less <- StreamLess

Key(u, dep) ==
  [s \in Ids |-> [cycle |-> u.cycle[s],
                  seq |-> IF Contains(u.arrival[dep], s)
                          THEN CHOOSE i \in DOMAIN u.arrival[dep] : u.arrival[dep][i] = s ELSE 0]]

PqPush(u, dep, s) == [u EXCEPT !.obq[dep] = PQ!Push(@, Key(u, dep), s)]
PqRemove(u, dep, s) == [u EXCEPT !.obq[dep] = PQ!Delete(@, Key(u, dep), s)]

Active(u, s) == u.item[s] /\ u.deferred[s] = {}

\* Mutant: children with something to send are forgotten
SubtreeActiveSelf(u, s) == Active(u, s)

SubtreeActive(u, s) == Active(u, s) \/ u.obq[s] # <<>>

\* Mutant: a stream goes on from its own cycle, whatever the others have reached
NextCycleOwn(u, s, last) ==
  LET penalty == u.lastWrite[s] * MaxWeight + u.pending[s]
  IN [u EXCEPT !.cycle[s] = (@ + penalty \div u.weight[s]) % CycleMod, !.pending[s] = penalty % u.weight[s]]

\* Mutant: the sum is not reduced to 32 bits
NextCycleWide(u, s, last) ==
  LET penalty == u.lastWrite[s] * MaxWeight + u.pending[s]
  IN [u EXCEPT !.cycle[s] = last + penalty \div u.weight[s], !.pending[s] = penalty % u.weight[s]]

NextCycle(u, s, last) ==
  LET penalty == u.lastWrite[s] * MaxWeight + u.pending[s]
  IN [u EXCEPT !.cycle[s] = (last + penalty \div u.weight[s]) % CycleMod,
               !.pending[s] = penalty % u.weight[s]]

\* A new place among the children of dep, at the end of its cycle
Enqueue(u, dep, s) ==
  LET v == [NextCycle(u, s, u.lastCycle[dep]) EXCEPT !.arrival[dep] = Append(@, s)]
  IN [PqPush(v, dep, s) EXCEPT !.queued[s] = TRUE]

Dequeue(u, dep, s) == [PqRemove(u, dep, s) EXCEPT !.arrival[dep] = Remove(@, s)]

RECURSIVE ObqPush(_, _, _)
ObqPush(u, dep, s) ==
  IF dep = Null \/ u.queued[s] THEN u
  ELSE ObqPush(Enqueue(u, dep, s), u.depPrev[dep], dep)

RECURSIVE RemoveUp(_, _)
RemoveUp(u, s) ==
  LET dep == u.depPrev[s]
      v == [Dequeue(u, dep, s) EXCEPT !.queued[s] = FALSE, !.cycle[s] = 0, !.pending[s] = 0,
                                      !.lastCycle[s] = 0, !.lastWrite[s] = 0]
  IN IF dep = Null THEN u
     ELSE IF SubtreeActive(v, dep) THEN v ELSE RemoveUp(v, dep)

ObqRemove(u, s) == IF u.queued[s] THEN RemoveUp(u, s) ELSE u

\* From the queue of src to that of dest; the ancestors of src stay as they are
ObqMove(u, dest, src, s) ==
  IF u.queued[s] THEN ObqPush([Dequeue(u, src, s) EXCEPT !.queued[s] = FALSE], dest, s) ELSE u

\* Mutant: only the first level moves on
RescheduleOne(u, s) == Enqueue(Dequeue(u, u.depPrev[s], s), u.depPrev[s], s)

RECURSIVE Reschedule(_, _)
Reschedule(u, s) ==
  LET dep == u.depPrev[s]
  IN IF dep = Null THEN u
     ELSE Reschedule([Enqueue(Dequeue(u, dep, s), dep, s) EXCEPT !.lastWrite[dep] = u.lastWrite[s]], dep)

\* Where the queued stream would be had it had weight w when it last wrote
ChangeWeight(u, s, w) ==
  LET old == u.weight[s]
      dep == u.depPrev[s]
      v == [u EXCEPT !.weight[s] = w, !.sumDepWeight[dep] = @ + w - old]
      wlen == u.lastWrite[s] * MaxWeight
      pending == (u.pending[s] + old - (wlen % old)) % old
      last == (u.cycle[s] - (wlen + pending) \div old) % CycleMod
      moved == NextCycle([PqRemove(v, dep, s) EXCEPT !.pending[s] = pending], s, last)
      behind == /\ moved.cycle[s] < u.lastCycle[dep]
                /\ u.lastCycle[dep] - moved.cycle[s] <= MaxCycleDistance
  IN IF w = old THEN u
     ELSE IF ~u.queued[s] THEN v
     ELSE PqPush([moved EXCEPT !.cycle[s] = IF behind THEN u.lastCycle[dep] ELSE @], dep, s)

AttachItem(u, s) == ObqPush([u EXCEPT !.item[s] = TRUE], u.depPrev[s], s)

DetachUpdate(u, s) == IF u.obq[s] = <<>> THEN ObqRemove(u, s) ELSE u

DetachItem(u, s) == DetachUpdate([u EXCEPT !.item[s] = FALSE, !.deferred[s] = {}], s)

DeferItem(u, s, flag) == DetachUpdate([u EXCEPT !.deferred[s] = @ \cup {flag}], s)

\* Mutant: one reason to wait less is taken for none left
ResumeItemAny(u, s, flag) ==
  ObqPush([u EXCEPT !.deferred[s] = @ \ {flag}], u.depPrev[s], s)

ResumeItem(u, s, flag) ==
  LET v == [u EXCEPT !.deferred[s] = @ \ {flag}]
  IN IF v.deferred[s] # {} THEN v ELSE ObqPush(v, v.depPrev[s], s)

-----------------------------------------------------------------------------
(* The links *)

RECURSIVE Sibs(_, _)
Sibs(u, s) == IF s = Null THEN <<>> ELSE <<s>> \o Sibs(u, u.sibNext[s])

Children(u, s) == Sibs(u, u.depNext[s])

LinkDep(u, dep, s) ==
  IF s = Null THEN [u EXCEPT !.depNext[dep] = Null]
  ELSE [u EXCEPT !.depNext[dep] = s, !.depPrev[s] = dep]

LinkSib(u, a, b) ==
  IF b = Null THEN [u EXCEPT !.sibNext[a] = Null]
  ELSE [u EXCEPT !.sibNext[a] = b, !.sibPrev[b] = a]

\* dep_add and dep_add_subtree put s before the other children
InsertLinkDep(u, dep, s) ==
  IF u.depNext[dep] = Null THEN LinkDep(u, dep, s)
  ELSE LinkDep(LinkSib(u, s, u.depNext[dep]), dep, s)

\* unlink_sib, unlink_dep: the children of s take its place
Unlink(u, s) ==
  LET first == u.depNext[s]
      next == u.sibNext[s]
      Put(v, x) == IF u.sibPrev[s] # Null THEN LinkSib(v, u.sibPrev[s], x)
                   ELSE LinkDep(IF x = Null THEN v ELSE [v EXCEPT !.sibPrev[x] = Null], u.depPrev[s], x)
      kids == Children(u, s)
      up == FoldLeft(LAMBDA v, c : [v EXCEPT !.depPrev[c] = u.depPrev[s]], Put(u, first), kids)
  IN IF first = Null THEN Put(u, next)
     ELSE IF next = Null THEN up ELSE LinkSib(up, Last(kids), next)

Detached(u, s) ==
  [u EXCEPT !.depPrev[s] = Null, !.depNext[s] = Null, !.sibPrev[s] = Null, !.sibNext[s] = Null,
            !.sumDepWeight[s] = 0]

InDepTree(u, s) ==
  \E link \in {u.depPrev, u.depNext, u.sibPrev, u.sibNext} : link[s] # Null

\* Mutant: a small share is rounded to nothing
DistributedWeightFloor(u, s, w) == (u.weight[s] * w) \div u.sumDepWeight[s]

DistributedWeight(u, s, w) ==
  LET share == (u.weight[s] * w) \div u.sumDepWeight[s] IN IF share < 1 THEN 1 ELSE share

RECURSIVE FindAncestor(_, _, _)
FindAncestor(u, s, target) ==
  s # Null /\ (s = target \/ FindAncestor(u, u.depPrev[s], target))

\* The children cs of dep become children of s, queued or not
Adopt(u, s, dep, cs) ==
  FoldLeft(LAMBDA v, c : ObqMove([v EXCEPT !.depPrev[c] = s], s, dep, c), u, cs)

PushIfActive(u, dep, s) == IF SubtreeActive(u, s) THEN ObqPush(u, dep, s) ELSE u

DepInsert(u, dep, s) ==
  LET sums == [u EXCEPT !.sumDepWeight[s] = u.sumDepWeight[dep], !.sumDepWeight[dep] = u.weight[s]]
      v == [PushIfActive(Adopt(sums, s, dep, Children(u, dep)), dep, s) EXCEPT !.depNext[s] = u.depNext[dep]]
  IN LinkDep(IF u.depNext[dep] = Null THEN sums ELSE v, dep, s)

DepAdd(u, dep, s) == InsertLinkDep([u EXCEPT !.sumDepWeight[dep] = @ + u.weight[s]], dep, s)

\* Mutant: the children are not moved to the grandparent's queue
DepRemoveForgetful(u, s) ==
  LET dep == u.depPrev[s]
      v == [u EXCEPT !.sumDepWeight[dep] = @ - u.weight[s]]
      Inherit(x, c) ==
        LET w == DistributedWeight(u, s, x.weight[c])
        IN [x EXCEPT !.weight[c] = w, !.sumDepWeight[dep] = @ + w]
  IN Detached(Unlink(ObqRemove(FoldLeft(Inherit, v, Children(u, s)), s), s), s)

\* The children share the weight of s and go to its parent
DepRemove(u, s) ==
  LET dep == u.depPrev[s]
      v == [u EXCEPT !.sumDepWeight[dep] = @ - u.weight[s]]
      Inherit(x, c) ==
        LET w == DistributedWeight(u, s, x.weight[c])
        IN ObqMove([x EXCEPT !.weight[c] = w, !.sumDepWeight[dep] = @ + w], dep, s, c)
  IN Detached(Unlink(ObqRemove(FoldLeft(Inherit, v, Children(u, s)), s), s), s)

\* Mutant: the children that move bring no weight
DepInsertSubtreeLight(u, dep, s) ==
  LET sums == [u EXCEPT !.sumDepWeight[dep] = u.weight[s]]
      others == Children(u, dep)
      linked == LinkDep(sums, dep, s)
      joined == IF u.depNext[s] # Null THEN LinkSib(linked, Last(Children(u, s)), u.depNext[dep])
                ELSE LinkDep(linked, s, u.depNext[dep])
  IN PushIfActive(IF others = <<>> THEN linked ELSE Adopt(joined, s, dep, others), dep, s)

DepInsertSubtree(u, dep, s) ==
  LET sums == [u EXCEPT !.sumDepWeight[s] = @ + u.sumDepWeight[dep], !.sumDepWeight[dep] = u.weight[s]]
      others == Children(u, dep)
      linked == LinkDep(sums, dep, s)
      joined == IF u.depNext[s] # Null THEN LinkSib(linked, Last(Children(u, s)), u.depNext[dep])
                ELSE LinkDep(linked, s, u.depNext[dep])
  IN PushIfActive(IF others = <<>> THEN linked ELSE Adopt(joined, s, dep, others), dep, s)

DepAddSubtree(u, dep, s) == PushIfActive(DepAdd(u, dep, s), dep, s)

DepRemoveSubtree(u, s) ==
  LET dep == u.depPrev[s]
      next == u.sibNext[s]
      v == IF u.sibPrev[s] # Null THEN LinkSib(u, u.sibPrev[s], next)
           ELSE LinkDep(IF next = Null THEN u ELSE [u EXCEPT !.sibPrev[next] = Null], dep, next)
      w == ObqRemove([v EXCEPT !.sumDepWeight[dep] = @ - u.weight[s]], s)
  IN [w EXCEPT !.sibPrev[s] = Null, !.sibNext[s] = Null, !.depPrev[s] = Null]

-----------------------------------------------------------------------------
(* What the session does with the tree *)

Specs == [dep : Deps, weight : Weights, exclusive : Exclusive]
DefaultSpec == [dep |-> 0, weight |-> DefaultWeight, exclusive |-> FALSE]

DetectIdle(u, s) == s > u.lastRecv

\* A new stream, or one known so far as a node of the tree only
Place(u, s, pri, state) ==
  LET v == IF u.state[s] = "absent" THEN u ELSE DepRemove(u, s)
      w == [v EXCEPT !.state[s] = state, !.weight[s] = pri.weight]
  IN IF pri.exclusive THEN DepInsert(w, pri.dep, s) ELSE DepAdd(w, pri.dep, s)

\* What pri.dep comes down to: itself, a new idle stream, or the default
KnownDep(u, pri) == pri.dep = 0 \/ u.state[pri.dep] # "absent"

OpenStream(u, s, pri, state) ==
  IF KnownDep(u, pri) THEN Place(u, s, pri, state)
  ELSE IF DetectIdle(u, pri.dep) THEN Place(Place(u, pri.dep, DefaultSpec, "idle"), s, pri, state)
  ELSE Place(u, s, DefaultSpec, state)

\* A dependency on a descendant: that descendant first takes the place of s
BreakCycle(u, s, dep) ==
  IF FindAncestor(u, dep, s) THEN DepAddSubtree(DepRemoveSubtree(u, dep), u.depPrev[s], dep) ELSE u

MoveStream(u, s, pri) ==
  LET v == BreakCycle(u, s, pri.dep)
      w == [DepRemoveSubtree(v, s) EXCEPT !.weight[s] = pri.weight]
  IN IF pri.dep = v.depPrev[s] /\ ~pri.exclusive THEN ChangeWeight(v, s, pri.weight)
     ELSE IF pri.exclusive THEN DepInsertSubtree(w, pri.dep, s) ELSE DepAddSubtree(w, pri.dep, s)

ReprioritizeStream(u, s, pri) ==
  IF ~InDepTree(u, s) THEN u
  ELSE IF KnownDep(u, pri) THEN MoveStream(u, s, pri)
  ELSE IF DetectIdle(u, pri.dep) THEN MoveStream(Place(u, pri.dep, DefaultSpec, "idle"), s, pri)
  ELSE MoveStream(u, s, DefaultSpec)

\* The active stream reached by taking the first of each queue; Null if there is none
RECURSIVE NextOutbound(_, _)
NextOutbound(u, s) ==
  IF Active(u, s) THEN s
  ELSE IF u.obq[s] = <<>> THEN Null
  ELSE NextOutbound(u, u.obq[s][1])

RECURSIVE NoteCycles(_, _)
NoteCycles(u, s) ==
  IF u.depPrev[s] = Null THEN u
  ELSE NoteCycles([u EXCEPT !.lastCycle[u.depPrev[s]] = u.cycle[s]], u.depPrev[s])

-----------------------------------------------------------------------------
(* HEADERS open streams in rising order *)
Open(s) ==
  /\ s > t.lastRecv /\ t.state[s] \in {"absent", "idle"}
  /\ \E pri \in {p \in Specs : p.dep # s} \cup {DefaultSpec} :
       t' = OpenStream([t EXCEPT !.lastRecv = s], s, pri, "open")
  /\ UNCHANGED <<served, priorities, joins>>

\* PRIORITY, for a stream that is known in any state or still to come
Priority(s) ==
  /\ priorities < MaxPriorities
  /\ \E pri \in {p \in Specs : p.dep # s} :
       t' = IF t.state[s] # "absent" THEN ReprioritizeStream(t, s, pri)
            ELSE IF DetectIdle(t, s) THEN OpenStream(t, s, pri, "idle")
            ELSE t
  /\ priorities' = priorities + 1
  /\ UNCHANGED <<served, joins>>

SubmitData(s) ==
  /\ t.state[s] = "open" /\ ~t.item[s]
  /\ joins < MaxJoins /\ joins' = joins + 1
  /\ t' = AttachItem(t, s)
  /\ UNCHANGED <<served, priorities>>

\* Closed streams stay in the tree
Close(s) ==
  /\ t.state[s] = "open"
  /\ t' = [(IF t.item[s] THEN DetachItem(t, s) ELSE t) EXCEPT !.state[s] = "closed"]
  /\ UNCHANGED <<served, priorities, joins>>

\* until there are too many of them, or of the idle ones
Destroy(s) ==
  /\ t.state[s] \in {"closed", "idle"}
  /\ t' = [DepRemove(t, s) EXCEPT !.state[s] = "absent"]
  /\ UNCHANGED <<served, priorities, joins>>

\* WINDOW_UPDATE or SETTINGS, and nghttp2_session_resume_data
Resume(s) ==
  /\ t.state[s] = "open" /\ t.item[s]
  /\ joins < MaxJoins /\ joins' = joins + 1
  /\ \E flag \in Reasons :
       /\ IF flag = "flow" THEN "flow" \in t.deferred[s] ELSE t.deferred[s] # {}
       /\ t' = ResumeItem(t, s, flag)
  /\ UNCHANGED <<served, priorities>>

\* What the sender does at stream s: DATA that leaves the item in place or ends it,
\* an item put off by the provider or for want of window, or one that fails.
Serve(s) ==
  LET u == NoteCycles(t, s)
  IN \/ \E len \in Lengths :
          LET v == Reschedule([u EXCEPT !.lastWrite[s] = len], s) IN t' \in {v, DetachItem(v, s)}
     \/ \E flag \in Reasons : t' = DeferItem(u, s, flag)
     \/ t' = DetachItem(u, s)

\* The sender's turn goes to the stream that is due
Turn == LET s == NextOutbound(t, 0) IN s # Null /\ served' = <<s, ~served[2]>>

Send == Turn /\ Serve(served'[1]) /\ UNCHANGED <<priorities, joins>>

Next ==
  \/ \E s \in StreamIds :
       Open(s) \/ Priority(s) \/ SubmitData(s) \/ Close(s) \/ Destroy(s) \/ Resume(s)
  \/ Send

Spec == Init /\ [][Next]_vars

\* KituraHTTP2 sends whenever there is something to send
FairSpec == Spec /\ WF_served(Turn)

-----------------------------------------------------------------------------
(* Properties *)

\* The types of the tree's fields.
TypeOK ==
  /\ t.state \in [Ids -> {"root", "absent", "idle", "open", "closed"}]
  /\ \A link \in {t.depPrev, t.depNext, t.sibPrev, t.sibNext} : link \in [Ids -> Ids \cup {Null}]
  /\ t.weight \in [Ids -> 1..MaxWeight] /\ t.sumDepWeight \in [Ids -> Nat]
  /\ t.item \in [Ids -> BOOLEAN] /\ t.deferred \in [Ids -> SUBSET Reasons]
  /\ \A s \in Ids : t.obq[s] \in Seq(StreamIds) /\ t.arrival[s] \in Seq(StreamIds)
  /\ t.cycle \in [Ids -> 0..CycleMod - 1] /\ t.lastCycle \in [Ids -> 0..CycleMod - 1]
  /\ \A s \in StreamIds : t.pending[s] \in 0..t.weight[s] - 1
  /\ t.lastWrite \in [Ids -> 0..MaxLength]

Present == {s \in StreamIds : t.state[s] # "absent"}

RECURSIVE Subtree(_, _)
Subtree(s, n) ==
  IF n = 0 THEN {} ELSE {s} \cup UNION {Subtree(c, n - 1) : c \in {d \in StreamIds : t.depPrev[d] = s}}

\* The links form one tree under stream 0 that holds the streams of the session and no other:
\* the sibling lists agree in both directions and with dep_prev, and each
\* sum_dep_weight is the sum of the children's weights (check_dep_prev, check_sum_dep).
WellFormed ==
  /\ Subtree(0, Cardinality(Ids) + 1) = Present \cup {0}
  /\ \A s \in Present \cup {0} :
       LET cs == Children(t, s)
       IN /\ ToSet(cs) = {c \in StreamIds : t.depPrev[c] = s} /\ Len(cs) = Cardinality(ToSet(cs))
          /\ \A i \in DOMAIN cs : t.sibPrev[cs[i]] = IF i = 1 THEN Null ELSE cs[i - 1]
          /\ t.sumDepWeight[s] = FoldLeft(LAMBDA sum, c : sum + t.weight[c], 0, cs)

\* A stream waits in its parent's queue exactly when it or a descendant has DATA to send
\* (check_queued, ensure_inactive): nothing sendable is out of reach, nothing idle is picked.
QueuedIffActive ==
  /\ \A s \in Present : t.queued[s] = \E d \in Subtree(s, Cardinality(Ids)) : Active(t, d)
  /\ \A s \in Ids : {t.obq[s][i] : i \in DOMAIN t.obq[s]} = {c \in Present : t.depPrev[c] = s /\ t.queued[c]}
                    /\ Len(t.obq[s]) = Len(t.arrival[s])

\* The first of a queue is due before every other in it, wrapped cycles included.
FirstIsDue ==
  \A s \in Ids : \A i \in 2..Len(t.obq[s]) :
    ~StreamLess(Key(t, s)[t.obq[s][i]], Key(t, s)[t.obq[s][1]])

\* Streams in one queue are never more than the maximum distance apart, so that comparing
\* their cycles tells which has wrapped, as the comment on NGHTTP2_MAX_CYCLE_DISTANCE says.
SameScale ==
  \A p \in Ids : \A a, b \in ToSet(t.obq[p]) :
    \/ (t.cycle[a] - t.cycle[b]) % CycleMod <= MaxCycleDistance
    \/ (t.cycle[b] - t.cycle[a]) % CycleMod <= MaxCycleDistance

\* Active, and not behind an active stream it depends on
Due == {s \in StreamIds :
          Active(t, s) /\ \A a \in StreamIds \ {s} : Active(t, a) => ~FindAncestor(t, s, a)}

\* The tree gives each turn to a stream that has DATA and does not depend on another that
\* has, gives a turn whenever there is one, and in the end a turn to each that stays due.
Choice == INSTANCE SendChoice WITH ready <- Due
ImplementsChoice == Choice!Spec
=============================================================================
