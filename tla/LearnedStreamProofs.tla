------------------------- MODULE LearnedStreamProofs --------------------------
(***************************************************************************)
(* Proofs about a learned task: the inductive invariant of                 *)
(* LearnedStreamInv, and from it the properties of LearnedStream, for      *)
(* every number of revisions, of faults and of rows.                       *)
(*                                                                         *)
(*   1. the steps of one child of the port, and the events they say        *)
(*   2. a poll: the two children, the record of their events, the pairs    *)
(*   3. submissions, fences and controllers                                *)
(*   4. the observation of a poll's events, by induction over them         *)
(*   5. the queue, the faults and the actions of the run                   *)
(*   6. the theorems                                                       *)
(***************************************************************************)
EXTENDS LearnedStreamInv, FiniteSetTheorems, SequenceTheorems, WellFoundedInduction, TLAPS

(***************************************************************************)
(* 1. The steps of one child                                               *)
(***************************************************************************)
\* What an event says is so of the controllers it was heard from.
Kinds == {"ACCEPTED", "PAIR_ACCEPTED", "FEEDBACK", "REJECTED", "TERMINAL"}
EventType == [event : Kinds, actuator : Actuators \cup {"both"}, revision : Revisions, value : Nat \cup Ended]
EventTrue(e) ==
    /\ e.event = "FEEDBACK" =>
          /\ e.actuator \in Actuators /\ e.value \in Nat
          /\ e.value <= native[e.actuator][e.revision].heard
    /\ e.event = "TERMINAL" =>
          /\ e.actuator \in Actuators /\ e.value \in Ended
          /\ e.value = native[e.actuator][e.revision].goal
    /\ e.event \in {"ACCEPTED", "REJECTED"} => e.actuator \in Actuators
TrueEvents == {e \in EventType : EventTrue(e)}

Raises == (Actuators \cup {"none"}) \X {"result", "cancel", "none"}
PollType == [port : PortType, events : Seq(TrueEvents), failed : SUBSET Actuators, raises : Raises]

\* what a child has accepted and is done with in the middle of its poll: what
\* its pairs say, and what its events after the k-th will make them say
Said(x, k, r, kind) == \E i \in k + 1..Len(x.events) : x.events[i].event = kind /\ x.events[i].revision = r
AcceptedBy(x, a, k) == AcceptedOf(x.port, a) \cup {r \in Revisions : Said(x, k, r, "ACCEPTED")}
DoneBy(x, a, k) ==
    DoneOf(x.port, a) \cup {r \in Revisions : Said(x, k, r, "REJECTED") \/ Said(x, k, r, "TERMINAL")}
FencedBy(x, k) == Fenced(x.port) \/ \E r \in Revisions : Said(x, k, r, "REJECTED")

Mid(x, a, k) ==
    /\ x \in PollType /\ x.port.open /\ k \in 0..Len(x.events)
    /\ NativeOK(native, x.port)
    /\ ChildOK(native, x.port, a, AcceptedBy(x, a, k), DoneBy(x, a, k), FencedBy(x, k))
    /\ \A b \in Actuators \ {a} :
          ChildOK(native, x.port, b, AcceptedOf(x.port, b), DoneOf(x.port, b), FencedBy(x, k))
    /\ PairsOK(x.port, FencedBy(x, k))

Polled(x) == x \in PollType /\ x.port.open /\ StreamOK(native, x.port)

\* a child keeps what it has when its slots and handles stay and the stream
\* is fenced if it was
LEMMA ChildStays ==
  ASSUME NEW n, NEW p \in PortType, NEW q \in PortType, NEW a \in Actuators,
         NEW accepted \in SUBSET Revisions, NEW done \in SUBSET Revisions,
         NEW f \in BOOLEAN, NEW g \in BOOLEAN,
         ChildOK(n, p, a, accepted, done, f), f => g,
         q.slot[a] = p.slot[a], \A r \in Revisions : q.item[a][r].handle = p.item[a][r].handle,
         q.pair = p.pair, q.current = p.current, q.pending = p.pending
  PROVE  ChildOK(n, q, a, accepted, done, g)
<1>1. Owned(q, a) = Owned(p, a) /\ Owned(p, a) \subseteq Revisions
  BY DEF Owned, PortType, Slots, None
<1>2. ChildOwns(n, q, a, done)
  BY <1>1 DEF ChildOK, ChildOwns
<1>3. ChildHeard(q, a, accepted, done, g)
  BY <1>1 DEF ChildOK, ChildHeard
<1>4. ~g => ChildUnfenced(q, a, accepted)
  BY DEF ChildOK, ChildUnfenced
<1> QED BY <1>2, <1>3, <1>4 DEF ChildOK

\* a refused goal is let go
RefusedChange(n, p, q, a, r) ==
    /\ r = p.slot[a]["pend"] /\ n[a][r].goal = "refused"
    /\ q.slot[a] = [p.slot[a] EXCEPT !["pend"] = None] /\ q.item = p.item /\ q.pair = p.pair

LEMMA ChildRefused ==
  ASSUME NEW n, NEW p \in PortType, NEW q \in PortType, NEW a \in Actuators,
         NEW accepted \in SUBSET Revisions, NEW done \in SUBSET Revisions,
         NEW f \in BOOLEAN, NEW r \in Revisions,
         ChildOK(n, p, a, accepted, done, f), RefusedChange(n, p, q, a, r)
  PROVE  ChildOK(n, q, a, accepted, done \cup {r}, TRUE)
<1> USE DEF RefusedChange
<1>1. Owned(q, a) = Owned(p, a) \ {r} /\ Owned(p, a) \subseteq Revisions
  BY DEF Owned, PortType, Slots, None, ChildOK, ChildOwns, Revisions
<1>2. ChildOwns(n, q, a, done \cup {r})
  <2>1. \A t \in Revisions : n[a][t].goal \in Running => t \in Owned(q, a)
    BY <1>1 DEF ChildOK, ChildOwns, Running
  <2>2. \A t \in Owned(q, a) : n[a][t].length > 0 /\ q.pair[t].live /\ t \notin done \cup {r}
    BY <1>1 DEF ChildOK, ChildOwns
  <2>3. \A s \in Slots, t \in Slots : q.slot[a][s] = q.slot[a][t] /\ q.slot[a][s] # None => s = t
    BY DEF ChildOK, ChildOwns, PortType, Slots
  <2>4. q.slot[a]["pend"] = None
    BY DEF PortType, Slots
  <2> QED BY <2>1, <2>2, <2>3, <2>4 DEF ChildOwns
<1>3. ChildHeard(q, a, accepted, done \cup {r}, TRUE)
  BY <1>1 DEF ChildOK, ChildHeard
<1> QED BY <1>2, <1>3 DEF ChildOK

\* an accepted goal whose result could not be asked for stays pending
HeldChange(p, q, a, r) ==
    /\ r = p.slot[a]["pend"] /\ q.slot = p.slot /\ q.pair = p.pair
    /\ \A t \in Revisions : t # r => q.item[a][t].handle = p.item[a][t].handle

LEMMA ChildHeld ==
  ASSUME NEW n, NEW p \in PortType, NEW q \in PortType, NEW a \in Actuators,
         NEW accepted \in SUBSET Revisions, NEW done \in SUBSET Revisions,
         NEW f \in BOOLEAN, NEW r \in Revisions,
         ChildOK(n, p, a, accepted, done, f), HeldChange(p, q, a, r)
  PROVE  ChildOK(n, q, a, accepted \cup {r}, done, TRUE)
<1> USE DEF HeldChange
<1>1. Owned(q, a) = Owned(p, a) /\ Owned(p, a) \subseteq Revisions
  BY DEF Owned, PortType, Slots, None
<1>2. ChildOwns(n, q, a, done)
  BY <1>1 DEF ChildOK, ChildOwns
<1>3. ChildHeard(q, a, accepted \cup {r}, done, TRUE)
  BY <1>1 DEF ChildOK, ChildHeard
<1> QED BY <1>2, <1>3 DEF ChildOK

\* an accepted goal becomes the current one, and the current one retires
LEMMA ChildAttached ==
  ASSUME NEW n, NEW p \in PortType, NEW q \in PortType, NEW a \in Actuators,
         NEW accepted \in SUBSET Revisions, NEW done \in SUBSET Revisions,
         NEW f \in BOOLEAN, NEW r \in Revisions,
         ChildOK(n, p, a, accepted, done, f), r = p.slot[a]["pend"],
         q.slot[a] = [cur |-> r, pend |-> None, ret |-> p.slot[a]["cur"]],
         q.pair = p.pair, q.current = p.current, q.pending = p.pending,
         \A t \in Revisions : t # r => q.item[a][t].handle = p.item[a][t].handle
  PROVE  ChildOK(n, q, a, accepted \cup {r}, done, f)
<1>0. r # None /\ p.slot[a]["ret"] = None
  BY DEF ChildOK, ChildOwns, None, Revisions
<1>1. Owned(q, a) = Owned(p, a) /\ Owned(p, a) \subseteq Revisions
  BY <1>0 DEF Owned, PortType, Slots, None
<1>2. ChildOwns(n, q, a, done)
  <2>1. \A s \in Slots, t \in Slots : q.slot[a][s] = q.slot[a][t] /\ q.slot[a][s] # None => s = t
    BY <1>0 DEF ChildOK, ChildOwns, PortType, Slots
  <2> QED BY <1>1, <2>1 DEF ChildOK, ChildOwns
<1>3. ChildHeard(q, a, accepted \cup {r}, done, f)
  BY <1>1 DEF ChildOK, ChildHeard
<1>4. ~f => ChildUnfenced(q, a, accepted \cup {r})
  BY <1>0 DEF ChildOK, ChildUnfenced
<1> QED BY <1>2, <1>3, <1>4 DEF ChildOK

\* a goal that has ended is let go
EndedChange(n, p, q, a, s, r) ==
    /\ r = p.slot[a][s] /\ n[a][r].goal \in Ended /\ p.item[a][r].handle = "attached"
    /\ q.slot[a] = [p.slot[a] EXCEPT ![s] = None] /\ q.item = p.item /\ q.pair = p.pair
    /\ q.current = p.current /\ q.pending = p.pending

LEMMA ChildEnded ==
  ASSUME NEW n, NEW p \in PortType, NEW q \in PortType, NEW a \in Actuators, NEW s \in Slots,
         NEW accepted \in SUBSET Revisions, NEW done \in SUBSET Revisions,
         NEW f \in BOOLEAN, NEW g \in BOOLEAN, NEW r \in Revisions,
         ChildOK(n, p, a, accepted, done, f), EndedChange(n, p, q, a, s, r), f => g
  PROVE  ChildOK(n, q, a, accepted, done \cup {r}, g)
<1> USE DEF EndedChange
<1>1. Owned(q, a) = Owned(p, a) \ {r} /\ Owned(p, a) \subseteq Revisions /\ r \in Owned(p, a)
  BY DEF Owned, PortType, Slots, None, ChildOK, ChildOwns, Revisions
<1>2. ChildOwns(n, q, a, done \cup {r})
  <2>1. \A t \in Revisions : n[a][t].goal \in Running => t \in Owned(q, a)
    BY <1>1 DEF ChildOK, ChildOwns, Running, Ended
  <2>2. \A t \in Owned(q, a) : n[a][t].length > 0 /\ q.pair[t].live /\ t \notin done \cup {r}
    BY <1>1 DEF ChildOK, ChildOwns
  <2>3. \A t \in Slots, u \in Slots : q.slot[a][t] = q.slot[a][u] /\ q.slot[a][t] # None => t = u
    BY DEF ChildOK, ChildOwns, PortType, Slots
  <2>4. q.slot[a]["pend"] # None => q.slot[a]["ret"] = None
    BY DEF ChildOK, ChildOwns, PortType, Slots
  <2> QED BY <2>1, <2>2, <2>3, <2>4 DEF ChildOwns
<1>3. ChildHeard(q, a, accepted, done \cup {r}, g)
  BY <1>1 DEF ChildOK, ChildHeard
<1>4. ~g => ChildUnfenced(q, a, accepted)
  BY DEF ChildOK, ChildUnfenced, PortType, Slots
<1> QED BY <1>2, <1>3, <1>4 DEF ChildOK

\* saying one more event
LEMMA AppendSaid ==
  ASSUME NEW x \in PollType, NEW y \in PollType, NEW e \in TrueEvents,
         y.events = Append(x.events, e), NEW k \in 0..Len(x.events)
  PROVE  /\ k \in 0..Len(y.events)
         /\ \A t, kind : Said(y, k, t, kind) <=> Said(x, k, t, kind) \/ (e.event = kind /\ e.revision = t)
<1>1. x.events \in Seq(TrueEvents)
  BY DEF PollType
<1> DEFINE m == Len(x.events)
<1>2. m \in Nat
  BY <1>1, LenProperties
<1>3. Len(y.events) = m + 1 /\ y.events[m + 1] = e /\ \A i \in 1..m : y.events[i] = x.events[i]
  BY <1>1, AppendProperties, <1>2
<1> HIDE DEF m
<1>4. ASSUME NEW t, NEW kind
      PROVE  Said(y, k, t, kind) <=> Said(x, k, t, kind) \/ (e.event = kind /\ e.revision = t)
  <2>0. Len(x.events) = m
    BY DEF m
  <2>1. k \in 0..m
    BY <2>0
  <2>2. \A i \in k + 1..m + 1 : i = m + 1 \/ (i \in k + 1..m /\ i \in 1..m)
    BY <2>1, <1>2
  <2>3. m + 1 \in k + 1..m + 1 /\ k + 1..m \subseteq k + 1..m + 1 /\ k + 1..m \subseteq 1..m
    BY <2>1, <1>2
  <2> QED BY <2>0, <2>2, <2>3, <1>3, Zenon DEF Said
<1>5. k \in 0..Len(y.events)
  BY <1>3, <1>2 DEF m
<1> QED BY <1>4, <1>5

SaidMore(x, y, e) ==
    /\ y \in PollType /\ y.port = x.port /\ y.failed = x.failed /\ y.raises = x.raises
    /\ y.events = Append(x.events, e)

LEMMA SayIs ==
  ASSUME NEW x \in PollType, NEW kind, NEW a, NEW r, NEW value,
         Event(kind, a, r, value) \in TrueEvents
  PROVE  SaidMore(x, Say(x, a, r, kind, value), Event(kind, a, r, value))
<1> DEFINE e == Event(kind, a, r, value)
<1>1. e \in TrueEvents
  OBVIOUS
<1> HIDE DEF e
<1>2. x.events \in Seq(TrueEvents)
  BY DEF PollType
<1>3. Append(x.events, e) \in Seq(TrueEvents)
  BY <1>1, <1>2, AppendProperties
<1> DEFINE y == [x EXCEPT !.events = Append(@, e)]
<1>4. SaidMore(x, y, e)
  BY <1>3 DEF PollType, SaidMore
<1> HIDE DEF y
<1> USE DEF e
<1>5. Say(x, a, r, kind, value) = y
  BY Zenon DEF Say, y
<1> QED BY <1>4, <1>5

\* the middle of a poll goes on
LEMMA MidGoes ==
  ASSUME NEW x, NEW a \in Actuators, NEW k, Mid(x, a, k), NEW y \in PollType, k \in 0..Len(y.events),
         y.port.pair = x.port.pair, y.port.current = x.port.current, y.port.pending = x.port.pending,
         y.port.open = x.port.open,
         \A b \in Actuators \ {a} : y.port.slot[b] = x.port.slot[b] /\ y.port.item[b] = x.port.item[b],
         \A r \in Revisions : \/ y.port.item[a][r].handle = x.port.item[a][r].handle
                              \/ r \in Owned(x.port, a),
         FencedBy(x, k) => FencedBy(y, k),
         ChildOK(native, y.port, a, AcceptedBy(y, a, k), DoneBy(y, a, k), FencedBy(y, k))
  PROVE  Mid(y, a, k)
<1> DEFINE p == x.port  q == y.port
<1>1. p \in PortType /\ q \in PortType
  BY DEF Mid, PollType
<1>2. NativeOK(native, q)
  <2>1. \A b \in Actuators, r \in Revisions : native[b][r].length = 0 => q.item[b][r].handle = "none"
    BY DEF Mid, NativeOK, ChildOK, ChildOwns
  <2> QED BY <2>1 DEF Mid, NativeOK
<1>3. ASSUME NEW b \in Actuators \ {a}
      PROVE  ChildOK(native, q, b, AcceptedOf(q, b), DoneOf(q, b), FencedBy(y, k))
  <2>1. AcceptedOf(q, b) = AcceptedOf(p, b) /\ DoneOf(q, b) = DoneOf(p, b)
    BY DEF AcceptedOf, DoneOf
  <2>2. AcceptedOf(p, b) \in SUBSET Revisions /\ DoneOf(p, b) \in SUBSET Revisions
    BY DEF AcceptedOf, DoneOf
  <2>3. FencedBy(x, k) \in BOOLEAN /\ FencedBy(y, k) \in BOOLEAN
    BY DEF FencedBy, Fenced, Said
  <2>4. ChildOK(native, p, b, AcceptedOf(p, b), DoneOf(p, b), FencedBy(x, k))
    BY DEF Mid
  <2> HIDE DEF p, q
  <2>5. q.slot[b] = p.slot[b] /\ \A r \in Revisions : q.item[b][r].handle = p.item[b][r].handle
    BY DEF p, q
  <2>6. q.pair = p.pair /\ q.current = p.current /\ q.pending = p.pending
    BY DEF p, q
  <2>7. b \in Actuators
    OBVIOUS
  <2>8. ChildOK(native, q, b, AcceptedOf(p, b), DoneOf(p, b), FencedBy(y, k))
    BY <1>1, <2>2, <2>3, <2>4, <2>5, <2>6, <2>7, ChildStays
  <2> QED BY <2>1, <2>8
<1>4. PairsOK(q, FencedBy(y, k))
  BY DEF Mid, PairsOK
<1> QED BY <1>2, <1>3, <1>4 DEF Mid

\* what is said changes what a child has accepted and is done with
BySaying(x, y, a, k, e) ==
    /\ k \in 0..Len(y.events)
    /\ AcceptedBy(y, a, k) = AcceptedBy(x, a, k) \cup IF e.event = "ACCEPTED" THEN {e.revision} ELSE {}
    /\ DoneBy(y, a, k) = DoneBy(x, a, k) \cup IF e.event \in {"REJECTED", "TERMINAL"} THEN {e.revision} ELSE {}
    /\ (\E r \in Revisions : Said(y, k, r, "REJECTED")) <=>
          (\E r \in Revisions : Said(x, k, r, "REJECTED")) \/ e.event = "REJECTED"

LEMMA SaidBy ==
  ASSUME NEW x \in PollType, NEW y \in PollType, NEW a \in Actuators, NEW e \in TrueEvents,
         y.events = Append(x.events, e), NEW k \in 0..Len(x.events), y.port.pair = x.port.pair
  PROVE  BySaying(x, y, a, k, e)
<1>1. k \in 0..Len(y.events)
      /\ \A t, kind : Said(y, k, t, kind) <=> Said(x, k, t, kind) \/ (e.event = kind /\ e.revision = t)
  BY AppendSaid
<1>2. e.revision \in Revisions
  BY DEF TrueEvents, EventType
<1>3. AcceptedOf(y.port, a) = AcceptedOf(x.port, a) /\ DoneOf(y.port, a) = DoneOf(x.port, a)
  BY DEF AcceptedOf, DoneOf
<1>4. AcceptedBy(y, a, k) = AcceptedBy(x, a, k) \cup IF e.event = "ACCEPTED" THEN {e.revision} ELSE {}
  BY <1>1, <1>2, <1>3 DEF AcceptedBy
<1>5. DoneBy(y, a, k) = DoneBy(x, a, k) \cup IF e.event \in {"REJECTED", "TERMINAL"} THEN {e.revision} ELSE {}
  BY <1>1, <1>2, <1>3 DEF DoneBy
<1>6. (\E r \in Revisions : Said(y, k, r, "REJECTED")) <=>
               (\E r \in Revisions : Said(x, k, r, "REJECTED")) \/ e.event = "REJECTED"
  BY <1>1, <1>2, Zenon
<1> QED BY <1>1, <1>4, <1>5, <1>6, Zenon DEF BySaying

LEMMA ByTypes ==
  ASSUME NEW x, NEW a, NEW k
  PROVE  /\ AcceptedBy(x, a, k) \in SUBSET Revisions /\ DoneBy(x, a, k) \in SUBSET Revisions
         /\ FencedBy(x, k) \in BOOLEAN
BY DEF AcceptedBy, DoneBy, FencedBy, AcceptedOf, DoneOf, Fenced, Said

BreakChanged(x, y, a) ==
    /\ y \in PollType /\ y.events = x.events /\ y.raises = x.raises
    /\ y.port.slot = x.port.slot /\ y.port.item = x.port.item /\ y.port.pair = x.port.pair
    /\ y.port.current = x.port.current /\ y.port.pending = x.port.pending
    /\ y.port.open = x.port.open
    /\ y.port.fenced = [x.port.fenced EXCEPT ![a] = TRUE]
    /\ Fenced(y.port)

LEMMA BreakIs ==
  ASSUME NEW x \in PollType, NEW a \in Actuators
  PROVE  BreakChanged(x, Break(x, a), a)
<1> DEFINE q == [x.port EXCEPT !.fenced = [x.port.fenced EXCEPT ![a] = TRUE]]
           y == [x EXCEPT !.port = q, !.failed = x.failed \cup {a}]
<1>1. x.port \in PortType /\ x.failed \cup {a} \in SUBSET Actuators
  BY DEF PollType
<1>2. [x.port.fenced EXCEPT ![a] = TRUE] \in [Actuators -> BOOLEAN]
  BY <1>1 DEF PortType
<1>3. q \in PortType
  BY <1>1, <1>2 DEF PortType
<1>4. /\ q.slot = x.port.slot /\ q.item = x.port.item /\ q.pair = x.port.pair /\ q.open = x.port.open
      /\ q.current = x.port.current /\ q.pending = x.port.pending
      /\ q.fenced = [x.port.fenced EXCEPT ![a] = TRUE]
  BY <1>1 DEF PortType
<1>5. Fenced(q)
  BY <1>1, <1>4 DEF PortType, Fenced
<1>6. Break(x, a) = y
  BY DEF Break, PollType, PortType
<1> HIDE DEF q
<1>7. y \in PollType /\ y.events = x.events /\ y.raises = x.raises /\ y.port = q
  BY <1>1, <1>3 DEF PollType
<1>8. BreakChanged(x, y, a)
  BY <1>4, <1>5, <1>7 DEF BreakChanged
<1> QED BY <1>6, <1>8

\* the port with a child's slots or an item changed
SlotSet(x, a, f) == [x EXCEPT !.port.slot[a] = f]
ItemSet(x, a, r, i) == [x EXCEPT !.port.item[a][r] = i]

SlotChanged(x, y, a, f) ==
    /\ y \in PollType /\ y.events = x.events /\ y.raises = x.raises /\ y.failed = x.failed
    /\ y.port.item = x.port.item /\ y.port.pair = x.port.pair /\ y.port.fenced = x.port.fenced
    /\ y.port.current = x.port.current /\ y.port.pending = x.port.pending /\ y.port.open = x.port.open
    /\ y.port.slot[a] = f /\ \A b \in Actuators \ {a} : y.port.slot[b] = x.port.slot[b]

LEMMA SlotIs ==
  ASSUME NEW x \in PollType, NEW a \in Actuators, NEW f \in [Slots -> {None} \cup Revisions]
  PROVE  SlotChanged(x, SlotSet(x, a, f), a, f)
<1> DEFINE q == [x.port EXCEPT !.slot = [x.port.slot EXCEPT ![a] = f]]
           y == SlotSet(x, a, f)
<1>1. x.port \in PortType
  BY DEF PollType
<1>2. [x.port.slot EXCEPT ![a] = f] \in [Actuators -> [Slots -> {None} \cup Revisions]]
  BY <1>1 DEF PortType
<1>3. q \in PortType
  BY <1>1, <1>2 DEF PortType
<1>4. /\ q.item = x.port.item /\ q.pair = x.port.pair /\ q.fenced = x.port.fenced /\ q.open = x.port.open
      /\ q.current = x.port.current /\ q.pending = x.port.pending
      /\ q.slot[a] = f /\ \A b \in Actuators \ {a} : q.slot[b] = x.port.slot[b]
  BY <1>1 DEF PortType
<1>5. y = [x EXCEPT !.port = q]
  BY DEF SlotSet, PollType, PortType
<1> HIDE DEF q, y
<1>6. y \in PollType /\ y.events = x.events /\ y.raises = x.raises /\ y.failed = x.failed /\ y.port = q
  BY <1>1, <1>3, <1>5 DEF PollType
<1>7. SlotChanged(x, y, a, f)
  BY <1>4, <1>6 DEF SlotChanged
<1> QED BY <1>7 DEF y

ItemChanged(x, y, a, r, i) ==
    /\ y \in PollType /\ y.events = x.events /\ y.raises = x.raises /\ y.failed = x.failed
    /\ y.port.slot = x.port.slot /\ y.port.pair = x.port.pair /\ y.port.fenced = x.port.fenced
    /\ y.port.current = x.port.current /\ y.port.pending = x.port.pending /\ y.port.open = x.port.open
    /\ y.port.item[a][r] = i
    /\ \A t \in Revisions \ {r} : y.port.item[a][t] = x.port.item[a][t]
    /\ \A b \in Actuators \ {a} : y.port.item[b] = x.port.item[b]

LEMMA ItemIs ==
  ASSUME NEW x \in PollType, NEW a \in Actuators, NEW r \in Revisions, NEW i \in ItemType
  PROVE  ItemChanged(x, ItemSet(x, a, r, i), a, r, i)
<1> DEFINE it == [x.port.item EXCEPT ![a] = [x.port.item[a] EXCEPT ![r] = i]]
           q == [x.port EXCEPT !.item = it]
           y == ItemSet(x, a, r, i)
<1>1. x.port \in PortType
  BY DEF PollType
<1>2. x.port.item \in [Actuators -> [Revisions -> ItemType]]
  BY <1>1 DEF PortType
<1>3. /\ it \in [Actuators -> [Revisions -> ItemType]]
      /\ it[a][r] = i /\ \A t \in Revisions \ {r} : it[a][t] = x.port.item[a][t]
      /\ \A b \in Actuators \ {a} : it[b] = x.port.item[b]
  BY <1>2
<1>4. y = [x EXCEPT !.port = q]
  BY DEF ItemSet, PollType, PortType
<1> HIDE DEF it, y
<1>5. q \in PortType
  BY <1>1, <1>3 DEF PortType
<1>6. /\ q.slot = x.port.slot /\ q.pair = x.port.pair /\ q.fenced = x.port.fenced /\ q.open = x.port.open
      /\ q.current = x.port.current /\ q.pending = x.port.pending /\ q.item = it
  BY <1>1 DEF PortType
<1> HIDE DEF q
<1>7. y \in PollType /\ y.events = x.events /\ y.raises = x.raises /\ y.failed = x.failed /\ y.port = q
  BY <1>1, <1>4, <1>5 DEF PollType
<1>8. /\ y.port.slot = x.port.slot /\ y.port.pair = x.port.pair /\ y.port.fenced = x.port.fenced
      /\ y.port.current = x.port.current /\ y.port.pending = x.port.pending /\ y.port.open = x.port.open
      /\ y.port.item = it
  BY <1>6, <1>7
<1>9. ItemChanged(x, y, a, r, i)
  BY <1>3, <1>7, <1>8, Zenon DEF ItemChanged
<1> QED BY <1>9 DEF y

LEMMA HandleIs ==
  ASSUME NEW x \in PollType, NEW a \in Actuators, NEW r \in Revisions,
         NEW h \in {"none", "lost", "held", "attached"}
  PROVE  /\ ItemChanged(x, [x EXCEPT !.port.item[a][r].handle = h], a, r, [x.port.item[a][r] EXCEPT !.handle = h])
         /\ [x.port.item[a][r] EXCEPT !.handle = h].handle = h
<1> DEFINE i == [x.port.item[a][r] EXCEPT !.handle = h]
<1>1. x.port.item[a][r] \in ItemType
  BY DEF PollType, PortType
<1>2. i \in ItemType /\ i.handle = h
  BY <1>1 DEF ItemType
<1>3. [x EXCEPT !.port.item[a][r].handle = h] = ItemSet(x, a, r, i)
  BY DEF ItemSet, PollType, PortType
<1> HIDE DEF i
<1>4. ItemChanged(x, ItemSet(x, a, r, i), a, r, i)
  BY <1>2, ItemIs
<1>5. ItemChanged(x, [x EXCEPT !.port.item[a][r].handle = h], a, r, i) /\ i.handle = h
  BY <1>2, <1>3, <1>4, Zenon
<1> QED BY <1>5 DEF i

LEMMA AskedIs ==
  ASSUME NEW x \in PollType, NEW a \in Actuators, NEW r \in Revisions, NEW h \in {"no", "yes", "failed"}
  PROVE  /\ ItemChanged(x, Asked(x, a, r, h), a, r, [x.port.item[a][r] EXCEPT !.asked = h])
         /\ [x.port.item[a][r] EXCEPT !.asked = h].handle = x.port.item[a][r].handle
<1> DEFINE i == [x.port.item[a][r] EXCEPT !.asked = h]
<1>1. x.port.item[a][r] \in ItemType
  BY DEF PollType, PortType
<1>2. i \in ItemType /\ i.handle = x.port.item[a][r].handle
  BY <1>1 DEF ItemType
<1>3. Asked(x, a, r, h) = ItemSet(x, a, r, i)
  BY DEF Asked, ItemSet, PollType, PortType
<1> HIDE DEF i
<1>4. ItemChanged(x, ItemSet(x, a, r, i), a, r, i)
  BY <1>2, ItemIs
<1>5. ItemChanged(x, Asked(x, a, r, h), a, r, i) /\ i.handle = x.port.item[a][r].handle
  BY <1>2, <1>3, <1>4, Zenon
<1> QED BY <1>5 DEF i

\* The five ways a pending goal is heard of.
Held(x, a, r) == [x EXCEPT !.port.item[a][r].handle = "held"]
SaidAccepted(x, a, r) == Say(Held(x, a, r), a, r, "ACCEPTED", 0)
Attached(x, a, r) ==
    [SaidAccepted(x, a, r) EXCEPT !.port.item[a][r].handle = "attached",
                                  !.port.slot[a] = [cur |-> r, pend |-> None, ret |-> @["cur"]]]
LetGo(x, a, s) == [x EXCEPT !.port.slot[a][s] = None]

LEMMA HearAnswerIs ==
  ASSUME NEW x, NEW a
  PROVE  LET r == x.port.slot[a]["pend"]
             unheard == r # None /\ x.port.item[a][r].handle = "none" IN
         /\ ~unheard => HearAnswer(x, a) = x
         /\ unheard /\ native[a][r].goal = "sent" => HearAnswer(x, a) = x
         /\ unheard /\ native[a][r].goal = "mute" => HearAnswer(x, a) = Break(x, a)
         /\ unheard /\ native[a][r].goal = "refused" =>
               HearAnswer(x, a) = Say(LetGo(x, a, "pend"), a, r, "REJECTED", 0)
         /\ unheard /\ native[a][r].goal \notin {"sent", "mute", "refused"} =>
               HearAnswer(x, a) = IF x.raises = <<a, "result">> THEN Break(SaidAccepted(x, a, r), a)
                                  ELSE Attached(x, a, r)
<1> DEFINE r == x.port.slot[a]["pend"]
           g == native[a][r].goal
           h == HearAnswer(x, a)
<1>1. h = IF r = None \/ x.port.item[a][r].handle # "none" THEN x
          ELSE CASE g = "sent" -> x
              [] g = "mute" -> Break(x, a)
              [] g = "refused" -> Say(LetGo(x, a, "pend"), a, r, "REJECTED", 0)
              [] OTHER -> IF x.raises = <<a, "result">> THEN Break(SaidAccepted(x, a, r), a)
                          ELSE Attached(x, a, r)
  BY Zenon DEF HearAnswer, Held, SaidAccepted, Attached, LetGo
<1> HIDE DEF g, h, r
<1>2. ~(r # None /\ x.port.item[a][r].handle = "none") => h = x
  BY <1>1
<1>3. r # None /\ x.port.item[a][r].handle = "none" /\ g = "sent" => h = x
  BY <1>1
<1>4. r # None /\ x.port.item[a][r].handle = "none" /\ g = "mute" => h = Break(x, a)
  BY <1>1
<1>5. r # None /\ x.port.item[a][r].handle = "none" /\ g = "refused" =>
         h = Say(LetGo(x, a, "pend"), a, r, "REJECTED", 0)
  BY <1>1
<1>6. r # None /\ x.port.item[a][r].handle = "none" /\ g \notin {"sent", "mute", "refused"} =>
         h = IF x.raises = <<a, "result">> THEN Break(SaidAccepted(x, a, r), a) ELSE Attached(x, a, r)
  BY <1>1
<1> QED BY <1>2, <1>3, <1>4, <1>5, <1>6, Zenon DEF g, h, r

Answers(x, a, r) == r = x.port.slot[a]["pend"]

LEMMA BreakMid ==
  ASSUME NEW x, NEW a \in Actuators, NEW k, Mid(x, a, k)
  PROVE  Mid(Break(x, a), a, k)
<1> DEFINE y == Break(x, a)
           A == AcceptedBy(x, a, k)
           D == DoneBy(x, a, k)
           F == FencedBy(x, k)
<1>1. /\ x \in PollType /\ k \in 0..Len(x.events) /\ ChildOK(native, x.port, a, A, D, F)
      /\ x.port \in PortType
  BY DEF Mid, PollType
<1>2. A \in SUBSET Revisions /\ D \in SUBSET Revisions /\ F \in BOOLEAN
  BY ByTypes
<1>3. BreakChanged(x, y, a)
  BY <1>1, BreakIs
<1> HIDE DEF y
<1>4. /\ y \in PollType /\ y.events = x.events
      /\ y.port.slot = x.port.slot /\ y.port.item = x.port.item /\ y.port.pair = x.port.pair
      /\ y.port.current = x.port.current /\ y.port.pending = x.port.pending /\ y.port.open = x.port.open
      /\ Fenced(y.port)
  BY <1>3 DEF BreakChanged
<1> HIDE DEF A, D, F
<1>5. AcceptedBy(y, a, k) = A /\ DoneBy(y, a, k) = D
  BY <1>4 DEF A, D, AcceptedBy, DoneBy, AcceptedOf, DoneOf, Said
<1>6. FencedBy(y, k) = TRUE
  BY <1>4 DEF FencedBy, Fenced
<1>7. y.port \in PortType
  BY <1>4 DEF PollType
<1>8. ChildOK(native, y.port, a, A, D, TRUE)
  BY <1>1, <1>2, <1>4, <1>7, ChildStays
<1>9. Mid(y, a, k)
  BY <1>1, <1>4, <1>5, <1>6, <1>8, MidGoes
<1> QED BY <1>9 DEF y

LEMMA AnswerRefused ==
  ASSUME NEW x, NEW a \in Actuators, NEW k, Mid(x, a, k), NEW r \in Revisions,
         Answers(x, a, r), native[a][r].goal = "refused"
  PROVE  Mid(Say(LetGo(x, a, "pend"), a, r, "REJECTED", 0), a, k)
<1> DEFINE y == Say(LetGo(x, a, "pend"), a, r, "REJECTED", 0)
           A == AcceptedBy(x, a, k)
           D == DoneBy(x, a, k)
           F == FencedBy(x, k)
           f == [x.port.slot[a] EXCEPT !["pend"] = None]
           z == LetGo(x, a, "pend")
           e == Event("REJECTED", a, r, 0)
<1>1. /\ x \in PollType /\ k \in 0..Len(x.events) /\ ChildOK(native, x.port, a, A, D, F)
      /\ x.port \in PortType
  BY DEF Mid, PollType
<1>2. A \in SUBSET Revisions /\ D \in SUBSET Revisions /\ F \in BOOLEAN
  BY ByTypes
<1> HIDE DEF A, D, F
<1>3. SlotChanged(x, z, a, f)
  <2>1. f \in [Slots -> {None} \cup Revisions]
    BY <1>1 DEF PortType, Slots
  <2>2. z = SlotSet(x, a, f)
    BY <1>1 DEF LetGo, SlotSet, PollType, PortType
  <2> HIDE DEF f, z
  <2> QED BY <1>1, <2>1, <2>2, SlotIs
<1>4. e \in TrueEvents /\ e.event = "REJECTED" /\ e.revision = r
  BY DEF Event, TrueEvents, EventType, EventTrue, Kinds
<1>5. SaidMore(z, y, e)
  <2>1. z \in PollType
    BY <1>3 DEF SlotChanged
  <2> QED BY <2>1, <1>4, SayIs
<1> HIDE DEF f, z, e, y
<1>6. /\ y \in PollType /\ y.events = Append(x.events, e) /\ y.port.pair = x.port.pair
      /\ y.port.slot[a] = f /\ \A b \in Actuators \ {a} : y.port.slot[b] = x.port.slot[b]
      /\ y.port.item = x.port.item
      /\ y.port.current = x.port.current /\ y.port.pending = x.port.pending /\ y.port.open = x.port.open
  BY <1>3, <1>5 DEF SlotChanged, SaidMore
<1>7. /\ k \in 0..Len(y.events) /\ AcceptedBy(y, a, k) = A /\ DoneBy(y, a, k) = D \cup {r}
      /\ \E t \in Revisions : Said(y, k, t, "REJECTED")
  <2>1. BySaying(x, y, a, k, e)
    BY <1>1, <1>4, <1>6, SaidBy
  <2>2. "REJECTED" \in {"REJECTED", "TERMINAL"} /\ "REJECTED" # "ACCEPTED"
    OBVIOUS
  <2> QED BY <1>4, <2>1, <2>2 DEF BySaying, A, D
<1>8. FencedBy(y, k) = TRUE
  BY <1>7 DEF FencedBy, Fenced
<1>9. ChildOK(native, y.port, a, A, D \cup {r}, TRUE)
  <2>1. y.port \in PortType /\ f = [x.port.slot[a] EXCEPT !["pend"] = None]
    BY <1>6 DEF PollType, f
  <2>2. RefusedChange(native, x.port, y.port, a, r)
    BY <1>6, <2>1 DEF Answers, RefusedChange
  <2> QED BY <1>1, <1>2, <2>1, <2>2, ChildRefused
<1>10. Mid(y, a, k)
  BY <1>1, <1>6, <1>7, <1>8, <1>9, MidGoes
<1> QED BY <1>10 DEF y

AcceptedSays(x, y, a, r, e) ==
    /\ y \in PollType /\ y.events = Append(x.events, e) /\ y.port.pair = x.port.pair
    /\ y.port.slot = x.port.slot /\ y.port.fenced = x.port.fenced
    /\ y.port.current = x.port.current /\ y.port.pending = x.port.pending /\ y.port.open = x.port.open
    /\ \A t \in Revisions \ {r} : y.port.item[a][t] = x.port.item[a][t]
    /\ \A b \in Actuators \ {a} : y.port.item[b] = x.port.item[b]
    /\ e \in TrueEvents /\ e.event = "ACCEPTED" /\ e.revision = r

LEMMA SaidAcceptedIs ==
  ASSUME NEW x \in PollType, NEW a \in Actuators, NEW r \in Revisions
  PROVE  AcceptedSays(x, SaidAccepted(x, a, r), a, r, Event("ACCEPTED", a, r, 0))
<1> DEFINE y == SaidAccepted(x, a, r)
           e == Event("ACCEPTED", a, r, 0)
           h == Held(x, a, r)
           i == [x.port.item[a][r] EXCEPT !.handle = "held"]
<1>1. ItemChanged(x, h, a, r, i)
  BY HandleIs DEF Held
<1>2. e \in TrueEvents /\ e.event = "ACCEPTED" /\ e.revision = r
  BY DEF Event, TrueEvents, EventType, EventTrue, Kinds
<1> HIDE DEF i
<1>3. h \in PollType
  BY <1>1 DEF ItemChanged
<1>4. y = Say(h, a, r, "ACCEPTED", 0)
  BY DEF SaidAccepted
<1> HIDE DEF h, y
<1>5. SaidMore(h, y, e)
  BY <1>2, <1>3, <1>4, SayIs
<1> HIDE DEF e
<1>6. AcceptedSays(x, y, a, r, e)
  BY <1>1, <1>2, <1>5 DEF ItemChanged, SaidMore, AcceptedSays
<1> QED BY <1>6 DEF y, e

LEMMA AnswerHeld ==
  ASSUME NEW x, NEW a \in Actuators, NEW k, Mid(x, a, k), NEW r \in Revisions,
         Answers(x, a, r)
  PROVE  Mid(Break(SaidAccepted(x, a, r), a), a, k)
<1> DEFINE y == Break(SaidAccepted(x, a, r), a)
           A == AcceptedBy(x, a, k)
           D == DoneBy(x, a, k)
           F == FencedBy(x, k)
           z == SaidAccepted(x, a, r)
           e == Event("ACCEPTED", a, r, 0)
<1>1. /\ x \in PollType /\ k \in 0..Len(x.events) /\ ChildOK(native, x.port, a, A, D, F)
      /\ x.port \in PortType
  BY DEF Mid, PollType
<1>2. A \in SUBSET Revisions /\ D \in SUBSET Revisions /\ F \in BOOLEAN
  BY ByTypes
<1> HIDE DEF A, D, F
<1>3. /\ z \in PollType /\ z.events = Append(x.events, e) /\ z.port.pair = x.port.pair
      /\ z.port.slot = x.port.slot
      /\ z.port.current = x.port.current /\ z.port.pending = x.port.pending /\ z.port.open = x.port.open
      /\ \A t \in Revisions \ {r} : z.port.item[a][t] = x.port.item[a][t]
      /\ \A b \in Actuators \ {a} : z.port.item[b] = x.port.item[b]
      /\ e \in TrueEvents /\ e.event = "ACCEPTED" /\ e.revision = r
  <2>1. AcceptedSays(x, z, a, r, e)
    BY <1>1, SaidAcceptedIs
  <2> HIDE DEF z, e
  <2> QED BY <2>1 DEF AcceptedSays
<1>4. BreakChanged(z, y, a)
  BY <1>3, BreakIs
<1> HIDE DEF z, e, y
<1>6. /\ y \in PollType /\ y.events = Append(x.events, e) /\ y.port.pair = x.port.pair
      /\ y.port.slot = x.port.slot /\ Fenced(y.port)
      /\ y.port.current = x.port.current /\ y.port.pending = x.port.pending /\ y.port.open = x.port.open
      /\ \A t \in Revisions \ {r} : y.port.item[a][t] = x.port.item[a][t]
      /\ \A b \in Actuators \ {a} : y.port.item[b] = x.port.item[b]
  BY <1>3, <1>4 DEF BreakChanged
<1>7. k \in 0..Len(y.events) /\ AcceptedBy(y, a, k) = A \cup {r} /\ DoneBy(y, a, k) = D
  <2>1. BySaying(x, y, a, k, e)
    BY <1>1, <1>3, <1>6, SaidBy
  <2> QED BY <1>3, <2>1 DEF BySaying, A, D
<1>8. FencedBy(y, k) = TRUE
  BY <1>6 DEF FencedBy, Fenced
<1>9. ChildOK(native, y.port, a, A \cup {r}, D, TRUE)
  <2>1. y.port \in PortType
    BY <1>6 DEF PollType
  <2>2. HeldChange(x.port, y.port, a, r)
    BY <1>6 DEF Answers, HeldChange
  <2> QED BY <1>1, <1>2, <2>1, <2>2, ChildHeld
<1>10. r \in Owned(x.port, a)
  BY DEF Owned, Slots, Revisions, None, Answers
<1>11. Mid(y, a, k)
  BY <1>1, <1>6, <1>7, <1>8, <1>9, <1>10, MidGoes
<1> QED BY <1>11 DEF y

LEMMA AnswerAttached ==
  ASSUME NEW x, NEW a \in Actuators, NEW k, Mid(x, a, k), NEW r \in Revisions,
         Answers(x, a, r)
  PROVE  Mid(Attached(x, a, r), a, k)
<1> DEFINE y == Attached(x, a, r)
           A == AcceptedBy(x, a, k)
           D == DoneBy(x, a, k)
           F == FencedBy(x, k)
           z == SaidAccepted(x, a, r)
           e == Event("ACCEPTED", a, r, 0)
           f == [cur |-> r, pend |-> None, ret |-> x.port.slot[a]["cur"]]
           w == [z EXCEPT !.port.item[a][r].handle = "attached"]
           i == [z.port.item[a][r] EXCEPT !.handle = "attached"]
<1>1. /\ x \in PollType /\ k \in 0..Len(x.events) /\ ChildOK(native, x.port, a, A, D, F)
      /\ x.port \in PortType
  BY DEF Mid, PollType
<1>2. A \in SUBSET Revisions /\ D \in SUBSET Revisions /\ F \in BOOLEAN
  BY ByTypes
<1> HIDE DEF A, D, F
<1>3. /\ z \in PollType /\ z.events = Append(x.events, e) /\ z.port.pair = x.port.pair
      /\ z.port.slot = x.port.slot /\ z.port.fenced = x.port.fenced
      /\ z.port.current = x.port.current /\ z.port.pending = x.port.pending /\ z.port.open = x.port.open
      /\ \A t \in Revisions \ {r} : z.port.item[a][t] = x.port.item[a][t]
      /\ \A b \in Actuators \ {a} : z.port.item[b] = x.port.item[b]
      /\ e \in TrueEvents /\ e.event = "ACCEPTED" /\ e.revision = r
  <2>1. AcceptedSays(x, z, a, r, e)
    BY <1>1, SaidAcceptedIs
  <2> HIDE DEF z, e
  <2> QED BY <2>1 DEF AcceptedSays
<1>4. y = [z EXCEPT !.port.item[a][r].handle = "attached",
                    !.port.slot[a] = [cur |-> r, pend |-> None, ret |-> @["cur"]]]
  BY DEF Attached
<1> HIDE DEF z, e, y
<1>5. ItemChanged(z, w, a, r, i)
  BY <1>3, HandleIs
<1>6. y = SlotSet(w, a, f)
  BY <1>3, <1>4 DEF SlotSet, PollType, PortType
<1> HIDE DEF w, i
<1>7. f \in [Slots -> {None} \cup Revisions]
  BY <1>1 DEF PortType, Slots
<1> HIDE DEF f
<1>8. SlotChanged(w, y, a, f)
  <2>1. w \in PollType
    BY <1>5 DEF ItemChanged
  <2> QED BY <1>6, <1>7, <2>1, SlotIs
<1>9. /\ y \in PollType /\ y.events = Append(x.events, e) /\ y.port.pair = x.port.pair
      /\ y.port.slot[a] = f /\ \A b \in Actuators \ {a} : y.port.slot[b] = x.port.slot[b]
      /\ y.port.current = x.port.current /\ y.port.pending = x.port.pending /\ y.port.open = x.port.open /\ y.port.fenced = x.port.fenced
      /\ \A t \in Revisions \ {r} : y.port.item[a][t] = x.port.item[a][t]
      /\ \A b \in Actuators \ {a} : y.port.item[b] = x.port.item[b]
  BY <1>3, <1>5, <1>8 DEF ItemChanged, SlotChanged
<1>10. /\ k \in 0..Len(y.events) /\ AcceptedBy(y, a, k) = A \cup {r} /\ DoneBy(y, a, k) = D
       /\ (\E t \in Revisions : Said(y, k, t, "REJECTED")) <=> (\E t \in Revisions : Said(x, k, t, "REJECTED"))
  <2>1. BySaying(x, y, a, k, e)
    BY <1>1, <1>3, <1>9, SaidBy
  <2> QED BY <1>3, <2>1 DEF BySaying, A, D
<1>11. FencedBy(y, k) = F
  BY <1>9, <1>10 DEF F, FencedBy, Fenced
<1>12. ChildOK(native, y.port, a, A \cup {r}, D, F)
  <2>1. y.port \in PortType /\ f = [cur |-> r, pend |-> None, ret |-> x.port.slot[a]["cur"]]
    BY <1>9 DEF PollType, f
  <2> QED BY <1>1, <1>2, <1>9, <2>1, ChildAttached DEF Answers
<1>13. r \in Owned(x.port, a)
  BY DEF Owned, Slots, Revisions, None, Answers
<1>14. Mid(y, a, k)
  <2>1. \A t \in Revisions : \/ y.port.item[a][t].handle = x.port.item[a][t].handle
                              \/ t \in Owned(x.port, a)
    BY <1>9, <1>13
  <2>2. FencedBy(x, k) => FencedBy(y, k)
    BY <1>11 DEF F
  <2>3. ChildOK(native, y.port, a, AcceptedBy(y, a, k), DoneBy(y, a, k), FencedBy(y, k))
    BY <1>10, <1>11, <1>12
  <2> QED BY <1>9, <1>10, <2>1, <2>2, <2>3, MidGoes
<1> QED BY <1>14 DEF y

\* Hearing the answer of the pending goal keeps the middle of a poll.
LEMMA HearAnswerMid ==
  ASSUME NEW x, NEW a \in Actuators, NEW k, Mid(x, a, k)
  PROVE  Mid(HearAnswer(x, a), a, k)
<1> DEFINE r == x.port.slot[a]["pend"]
           y == HearAnswer(x, a)
           g == native[a][r].goal
           unheard == r # None /\ x.port.item[a][r].handle = "none"
<1>1. r \in {None} \cup Revisions
  BY DEF Mid, PollType, PortType, Slots
<1>2. /\ ~unheard => y = x
      /\ unheard /\ g = "sent" => y = x
      /\ unheard /\ g = "mute" => y = Break(x, a)
      /\ unheard /\ g = "refused" => y = Say(LetGo(x, a, "pend"), a, r, "REJECTED", 0)
      /\ unheard /\ g \notin {"sent", "mute", "refused"} =>
            y = IF x.raises = <<a, "result">> THEN Break(SaidAccepted(x, a, r), a) ELSE Attached(x, a, r)
  BY HearAnswerIs, Zenon
<1>3. unheard => r \in Revisions
  BY <1>1
<1> HIDE DEF y, unheard
<1>4. ~unheard \/ g = "sent" => Mid(y, a, k)
  BY <1>2
<1>5. unheard /\ g = "mute" => Mid(y, a, k)
  BY <1>2, BreakMid
<1>6. unheard /\ g = "refused" => Mid(y, a, k)
  BY <1>2, <1>3, AnswerRefused DEF Answers
<1> HIDE DEF r, g
<1>7. unheard /\ g \notin {"sent", "mute", "refused"} => Mid(y, a, k)
  <2>1. Answers(x, a, r)
    BY DEF r, Answers
  <2>2. SUFFICES ASSUME unheard, g \notin {"sent", "mute", "refused"} PROVE Mid(y, a, k)
    OBVIOUS
  <2>3. CASE x.raises = <<a, "result">>
    <3>1. y = Break(SaidAccepted(x, a, r), a)
      BY <1>2, <2>2, <2>3
    <3> QED BY <1>3, <2>1, <2>2, <3>1, AnswerHeld
  <2>4. CASE x.raises # <<a, "result">>
    <3>1. y = Attached(x, a, r)
      BY <1>2, <2>2, <2>4
    <3> QED BY <1>3, <2>1, <2>2, <3>1, AnswerAttached
  <2> QED BY <2>3, <2>4
<1>8. Mid(y, a, k)
  BY <1>4, <1>5, <1>6, <1>7
<1> QED BY <1>8 DEF y

(***************************************************************************)
(* A visit of one owned item                                               *)
(***************************************************************************)
Bad(a, s, r) == s = "cur" /\ native[a][r].goal # "succeeded"
Visited(x, y, a, s, r) ==
    /\ r = None => y = x
    /\ r # None /\ HasEnded(x, a, r) =>
          y = Say(Release(Told(x, a, r), a, s, Bad(a, s, r)), a, r, "TERMINAL", native[a][r].goal)
    /\ r # None /\ ~HasEnded(x, a, r) =>
          \/ y = Heard(x, a, r)
          \/ y = Break(Asked(Heard(x, a, r), a, r, "failed"), a)
          \/ y = Asked(Heard(x, a, r), a, r, "yes")

LEMMA VisitIs ==
  ASSUME NEW x, NEW a, NEW s
  PROVE  Visited(x, Visit(x, a, s), a, s, x.port.slot[a][s])
<1> DEFINE r == x.port.slot[a][s]
           y == Visit(x, a, s)
           h == Heard(x, a, r)
           e == HasEnded(x, a, r)
           k == Asks(h, a, r)
           u == x.raises = <<a, "cancel">>
           ended == Say(Release(Told(x, a, r), a, s, Bad(a, s, r)), a, r, "TERMINAL", native[a][r].goal)
           failed == Break(Asked(h, a, r, "failed"), a)
           asked == Asked(h, a, r, "yes")
<1>1. y = CASE r = None -> x
            [] r # None /\ e -> ended
            [] r # None /\ ~e /\ k /\ u -> failed
            [] r # None /\ ~e /\ k /\ ~u -> asked
            [] OTHER -> h
  BY Zenon DEF Visit, Bad
<1>2. e \in BOOLEAN /\ k \in BOOLEAN /\ u \in BOOLEAN
  BY DEF HasEnded, Asks
<1> HIDE DEF r, y, h, e, k, u, ended, failed, asked
<1>3. r = None => y = x
  BY <1>1, <1>2
<1>4. r # None /\ e => y = ended
  BY <1>1, <1>2
<1>5. r # None /\ ~e => y = h \/ y = failed \/ y = asked
  BY <1>1, <1>2
<1> QED BY <1>3, <1>4, <1>5, Zenon DEF Visited, r, y, h, e, ended, failed, asked

\* a slot's revision is a value of the variables: kept as a predicate
Holds(x, a, s, r) == r = x.port.slot[a][s]

LEMMA TellMid ==
  ASSUME NEW x, NEW a \in Actuators, NEW k, Mid(x, a, k), NEW r \in Revisions, native \in NativeType
  PROVE  Mid(Told(x, a, r), a, k) /\ Told(x, a, r).port = x.port
<1> DEFINE y == Say(x, a, r, "FEEDBACK", native[a][r].heard)
           A == AcceptedBy(x, a, k)
           D == DoneBy(x, a, k)
           F == FencedBy(x, k)
           e == Event("FEEDBACK", a, r, native[a][r].heard)
<1>1. /\ x \in PollType /\ k \in 0..Len(x.events) /\ ChildOK(native, x.port, a, A, D, F)
      /\ x.port \in PortType
  BY DEF Mid, PollType
<1>2. A \in SUBSET Revisions /\ D \in SUBSET Revisions /\ F \in BOOLEAN
  BY ByTypes
<1> HIDE DEF A, D, F
<1>3. e \in TrueEvents /\ e.event = "FEEDBACK" /\ e.revision = r
  <2>1. native[a][r].heard \in Nat
    BY DEF NativeType
  <2> QED BY <2>1 DEF Event, TrueEvents, EventType, EventTrue, Kinds
<1>4. SaidMore(x, y, e)
  BY <1>1, <1>3, SayIs
<1> HIDE DEF y, e
<1>5. y \in PollType /\ y.events = Append(x.events, e) /\ y.port = x.port
  BY <1>4 DEF SaidMore
<1>6. /\ k \in 0..Len(y.events) /\ AcceptedBy(y, a, k) = A /\ DoneBy(y, a, k) = D
      /\ (\E t \in Revisions : Said(y, k, t, "REJECTED")) <=> (\E t \in Revisions : Said(x, k, t, "REJECTED"))
  <2>1. BySaying(x, y, a, k, e)
    BY <1>1, <1>3, <1>5, SaidBy
  <2> QED BY <1>3, <2>1 DEF BySaying, A, D
<1>7. FencedBy(y, k) = F
  BY <1>5, <1>6 DEF F, FencedBy
<1>8. Mid(y, a, k)
  <2>1. ChildOK(native, y.port, a, AcceptedBy(y, a, k), DoneBy(y, a, k), FencedBy(y, k))
    BY <1>1, <1>5, <1>6, <1>7
  <2> QED BY <1>5, <1>6, <1>7, <2>1, MidGoes DEF F
<1> QED BY <1>5, <1>8 DEF Told, y

LEMMA AskedMid ==
  ASSUME NEW x, NEW a \in Actuators, NEW k, Mid(x, a, k), NEW r \in Revisions, NEW h \in {"no", "yes", "failed"}
  PROVE  Mid(Asked(x, a, r, h), a, k)
<1> DEFINE y == Asked(x, a, r, h)
           i == [x.port.item[a][r] EXCEPT !.asked = h]
           A == AcceptedBy(x, a, k)
           D == DoneBy(x, a, k)
           F == FencedBy(x, k)
<1>1. /\ x \in PollType /\ k \in 0..Len(x.events) /\ ChildOK(native, x.port, a, A, D, F)
      /\ x.port \in PortType
  BY DEF Mid, PollType
<1>2. A \in SUBSET Revisions /\ D \in SUBSET Revisions /\ F \in BOOLEAN
  BY ByTypes
<1>3. ItemChanged(x, y, a, r, i) /\ i.handle = x.port.item[a][r].handle
  BY <1>1, AskedIs
<1> HIDE DEF y, i, A, D, F
<1>4. /\ y \in PollType /\ y.events = x.events
      /\ y.port.slot = x.port.slot /\ y.port.pair = x.port.pair /\ y.port.fenced = x.port.fenced
      /\ y.port.current = x.port.current /\ y.port.pending = x.port.pending /\ y.port.open = x.port.open
      /\ \A t \in Revisions : y.port.item[a][t].handle = x.port.item[a][t].handle
      /\ \A b \in Actuators \ {a} : y.port.item[b] = x.port.item[b]
  BY <1>3, Zenon DEF ItemChanged
<1>5. AcceptedBy(y, a, k) = A /\ DoneBy(y, a, k) = D /\ FencedBy(y, k) = F
  BY <1>4 DEF A, D, F, AcceptedBy, DoneBy, FencedBy, AcceptedOf, DoneOf, Said, Fenced
<1>6. y.port \in PortType
  BY <1>4 DEF PollType
<1>7. ChildOK(native, y.port, a, A, D, F)
  BY <1>1, <1>2, <1>4, <1>6, ChildStays
<1>8. Mid(y, a, k)
  BY <1>1, <1>4, <1>5, <1>7, MidGoes DEF F
<1> QED BY <1>8 DEF y

LEMMA EndedMid ==
  ASSUME NEW x, NEW a \in Actuators, NEW k, Mid(x, a, k), NEW s \in Slots, NEW r \in Revisions,
         Holds(x, a, s, r), HasEnded(x, a, r), NEW bad \in BOOLEAN
  PROVE  Mid(Say(Release(x, a, s, bad), a, r, "TERMINAL", native[a][r].goal), a, k)
<1> DEFINE z == Release(x, a, s, bad)
           g == native[a][r].goal
           y == Say(z, a, r, "TERMINAL", g)
           f == [x.port.slot[a] EXCEPT ![s] = None]
           v == [x.port.fenced EXCEPT ![a] = @ \/ bad]
           q == [x.port EXCEPT !.slot = [x.port.slot EXCEPT ![a] = f], !.fenced = v]
           A == AcceptedBy(x, a, k)
           D == DoneBy(x, a, k)
           F == FencedBy(x, k)
           e == Event("TERMINAL", a, r, g)
<1>1. /\ x \in PollType /\ k \in 0..Len(x.events) /\ ChildOK(native, x.port, a, A, D, F)
      /\ x.port \in PortType
  BY DEF Mid, PollType
<1>2. A \in SUBSET Revisions /\ D \in SUBSET Revisions /\ F \in BOOLEAN
  BY ByTypes
<1> HIDE DEF A, D, F
<1>3. z = [x EXCEPT !.port = q]
  BY <1>1 DEF Release, PollType, PortType
<1>4. f \in [Slots -> {None} \cup Revisions] /\ v \in [Actuators -> BOOLEAN]
  BY <1>1 DEF PortType, Slots
<1>5. \A b \in Actuators : x.port.fenced[b] => v[b]
  BY <1>1 DEF PortType
<1> HIDE DEF f, v
<1>6. /\ q \in PortType /\ q.item = x.port.item /\ q.pair = x.port.pair /\ q.fenced = v
      /\ q.current = x.port.current /\ q.pending = x.port.pending /\ q.open = x.port.open
      /\ q.slot[a] = f /\ \A b \in Actuators \ {a} : q.slot[b] = x.port.slot[b]
  BY <1>1, <1>4 DEF PortType
<1> HIDE DEF q, z
<1>7. z \in PollType /\ z.events = x.events /\ z.port = q
  BY <1>1, <1>3, <1>6 DEF PollType
<1>8. e \in TrueEvents /\ e.event = "TERMINAL" /\ e.revision = r
  <2>1. g \in Ended
    BY DEF HasEnded
  <2> QED BY <2>1 DEF Event, TrueEvents, EventType, EventTrue, Kinds
<1>9. SaidMore(z, y, e)
  BY <1>7, <1>8, SayIs
<1> HIDE DEF y, e, g
<1>10. y \in PollType /\ y.events = Append(x.events, e) /\ y.port = q
  BY <1>7, <1>9 DEF SaidMore
<1>11. /\ k \in 0..Len(y.events) /\ AcceptedBy(y, a, k) = A /\ DoneBy(y, a, k) = D \cup {r}
       /\ (\E t \in Revisions : Said(y, k, t, "REJECTED")) <=> (\E t \in Revisions : Said(x, k, t, "REJECTED"))
  <2>1. BySaying(x, y, a, k, e)
    BY <1>1, <1>6, <1>8, <1>10, SaidBy
  <2> QED BY <1>8, <2>1 DEF BySaying, A, D
<1>12. F => FencedBy(y, k)
  BY <1>5, <1>6, <1>10, <1>11 DEF F, FencedBy, Fenced
<1>13. ChildOK(native, q, a, A, D \cup {r}, FencedBy(y, k))
  <2>1. EndedChange(native, x.port, q, a, s, r)
    BY <1>6 DEF EndedChange, Holds, HasEnded, f
  <2>2. FencedBy(y, k) \in BOOLEAN
    BY ByTypes
  <2> QED BY <1>1, <1>2, <1>6, <1>12, <2>1, <2>2, ChildEnded
<1>14. Mid(y, a, k)
  <2>1. ChildOK(native, y.port, a, AcceptedBy(y, a, k), DoneBy(y, a, k), FencedBy(y, k))
    BY <1>10, <1>11, <1>13
  <2>2. FencedBy(x, k) => FencedBy(y, k)
    BY <1>12 DEF F
  <2> QED BY <1>6, <1>10, <1>11, <2>1, <2>2, MidGoes
<1> QED BY <1>14, Zenon DEF y, g, z

\* A visit keeps the middle of a poll.
LEMMA VisitMid ==
  ASSUME NEW x, NEW a \in Actuators, NEW k, Mid(x, a, k), NEW s \in Slots, native \in NativeType
  PROVE  Mid(Visit(x, a, s), a, k)
<1> DEFINE r == x.port.slot[a][s]
           y == Visit(x, a, s)
           h == Heard(x, a, r)
           t == Told(x, a, r)
           g == native[a][r].goal
           e == HasEnded(x, a, r)
           ended == Say(Release(t, a, s, Bad(a, s, r)), a, r, "TERMINAL", g)
           failed == Asked(h, a, r, "failed")
           asked == Asked(h, a, r, "yes")
<1>1. r \in {None} \cup Revisions
  BY DEF Mid, PollType, PortType
<1>2. /\ r = None => y = x
      /\ r # None /\ e => y = ended
      /\ r # None /\ ~e => y = h \/ y = Break(failed, a) \/ y = asked
  <2>1. Visited(x, y, a, s, r)
    BY VisitIs
  <2> QED BY <2>1, Zenon DEF Visited
<1>3. Holds(x, a, s, r)
  BY DEF Holds
<1> HIDE DEF r, y
<1>4. r # None => Mid(t, a, k) /\ t.port = x.port
  BY <1>1, TellMid
<1> HIDE DEF t
<1>5. r # None => Mid(h, a, k)
  <2>1. h = IF g = "unread" THEN Break(t, a) ELSE t
    BY DEF Heard, t
  <2>2. r # None => Mid(Break(t, a), a, k)
    BY <1>4, BreakMid
  <2> HIDE DEF h
  <2> QED BY <1>4, <2>1, <2>2
<1> HIDE DEF h
<1>6. r # None => Mid(asked, a, k) /\ Mid(failed, a, k)
  BY <1>1, <1>5, AskedMid
<1> HIDE DEF asked, failed
<1>7. r # None => Mid(Break(failed, a), a, k)
  BY <1>6, BreakMid
<1>8. r # None /\ e => Mid(ended, a, k)
  <2>1. Bad(a, s, r) \in BOOLEAN
    BY DEF Bad
  <2>2. r # None /\ e => Holds(t, a, s, r) /\ HasEnded(t, a, r)
    BY <1>3, <1>4 DEF Holds, HasEnded
  <2> QED BY <1>1, <1>4, <2>1, <2>2, EndedMid
<1> HIDE DEF ended, e
<1>9. Mid(y, a, k)
  BY <1>2, <1>5, <1>6, <1>7, <1>8
<1> QED BY <1>9 DEF y

(***************************************************************************)
(* 2. A poll                                                               *)
(***************************************************************************)
\* what a child's record writes of a pair, and of the port
Joins(S, a, holds) == IF holds THEN S \cup {a} ELSE S
Won(x, a, k, r) == \E i \in k + 1..Len(x.events) : x.events[i] = Event("TERMINAL", a, r, "succeeded")
NotedPair(x, a, k, r, pr) ==
    [pr EXCEPT !.accepted = Joins(@, a, Said(x, k, r, "ACCEPTED")),
               !.done = Joins(@, a, Said(x, k, r, "REJECTED") \/ Said(x, k, r, "TERMINAL")),
               !.succeeded = Joins(@, a, Won(x, a, k, r)),
               !.rejected = @ \/ Said(x, k, r, "REJECTED")]
NotedPairs(x, a, k) == [r \in Revisions |-> NotedPair(x, a, k, r, x.port.pair[r])]
Noted(x, a, k) == [x EXCEPT !.port.pair = NotedPairs(x, a, k)]
FencesBoth(x) == [x EXCEPT !.port = Cancel(@)]

LEMMA RecordIs ==
  ASSUME NEW x, NEW a, NEW k
  PROVE  Record(x, a, k) =
           IF k = Len(x.events) THEN x
           ELSE IF \E r \in Revisions : Said(x, k, r, "REJECTED") THEN FencesBoth(Noted(x, a, k))
           ELSE Noted(x, a, k)
BY Zenon DEF Record, Said, Won, Joins, NotedPair, NotedPairs, Noted, FencesBoth

\* the port with other pairs
PairSet(x, f) == [x EXCEPT !.port.pair = f]
PairChanged(x, y, f) ==
    /\ y \in PollType /\ y.events = x.events /\ y.raises = x.raises /\ y.failed = x.failed
    /\ y.port.slot = x.port.slot /\ y.port.item = x.port.item /\ y.port.fenced = x.port.fenced
    /\ y.port.current = x.port.current /\ y.port.pending = x.port.pending /\ y.port.open = x.port.open
    /\ y.port.pair = f

LEMMA PairIs ==
  ASSUME NEW x \in PollType, NEW f \in [Revisions -> PairType]
  PROVE  PairChanged(x, PairSet(x, f), f)
<1> DEFINE q == [x.port EXCEPT !.pair = f]
           y == PairSet(x, f)
<1>1. x.port \in PortType
  BY DEF PollType
<1>2. q \in PortType
  BY <1>1 DEF PortType
<1>3. /\ q.item = x.port.item /\ q.slot = x.port.slot /\ q.fenced = x.port.fenced /\ q.open = x.port.open
      /\ q.current = x.port.current /\ q.pending = x.port.pending /\ q.pair = f
  BY <1>1 DEF PortType
<1>4. y = [x EXCEPT !.port = q]
  BY DEF PairSet, PollType, PortType
<1> HIDE DEF q, y
<1>5. y \in PollType /\ y.events = x.events /\ y.raises = x.raises /\ y.failed = x.failed /\ y.port = q
  BY <1>1, <1>2, <1>4 DEF PollType
<1>6. PairChanged(x, y, f)
  BY <1>3, <1>5 DEF PairChanged
<1> QED BY <1>6 DEF y

\* a fence of both children of a port
CancelChanged(p, q) ==
    /\ q \in PortType /\ q.item = p.item /\ q.slot = p.slot /\ q.open = p.open /\ q.pair = p.pair
    /\ q.current = p.current /\ q.pending = p.pending
    /\ q.fenced = [a \in Actuators |-> TRUE] /\ Fenced(q)

LEMMA CancelIs ==
  ASSUME NEW p \in PortType
  PROVE  CancelChanged(p, Cancel(p))
<1> DEFINE v == [a \in Actuators |-> TRUE]
           q == [p EXCEPT !.fenced = v]
<1>1. v \in [Actuators -> BOOLEAN] /\ v["arm"]
  BY DEF Actuators
<1> HIDE DEF v
<1>2. /\ q \in PortType /\ q.item = p.item /\ q.slot = p.slot /\ q.open = p.open /\ q.pair = p.pair
      /\ q.current = p.current /\ q.pending = p.pending /\ q.fenced = v
  BY <1>1 DEF PortType
<1>3. Cancel(p) = q
  BY DEF Cancel, v
<1> HIDE DEF q
<1>4. Fenced(q)
  BY <1>1, <1>2 DEF Fenced, Actuators
<1> QED BY <1>2, <1>3, <1>4 DEF CancelChanged, v

LEMMA FencesBothIs ==
  ASSUME NEW x \in PollType
  PROVE  LET y == FencesBoth(x) IN
         /\ y \in PollType /\ y.events = x.events /\ y.raises = x.raises /\ y.failed = x.failed
         /\ CancelChanged(x.port, y.port)
<1> DEFINE q == Cancel(x.port)
           y == FencesBoth(x)
<1>1. CancelChanged(x.port, q)
  BY CancelIs DEF PollType
<1>2. q \in PortType
  BY <1>1 DEF CancelChanged
<1>3. y = [x EXCEPT !.port = q]
  BY Zenon DEF FencesBoth
<1> HIDE DEF q
<1>4. y \in PollType /\ y.events = x.events /\ y.raises = x.raises /\ y.failed = x.failed /\ y.port = q
  BY <1>2, <1>3 DEF PollType
<1> HIDE DEF y
<1>5. CancelChanged(x.port, y.port)
  BY <1>1, <1>4
<1> QED BY <1>4, <1>5 DEF y

\* what a record leaves of the port
Recorded(x, y, a, k) ==
    /\ y \in PollType /\ y.events = x.events /\ y.raises = x.raises
    /\ y.port.item = x.port.item /\ y.port.slot = x.port.slot
    /\ y.port.current = x.port.current /\ y.port.pending = x.port.pending /\ y.port.open = x.port.open
    /\ Fenced(y.port) <=> FencedBy(x, k)
    /\ \A r \in Revisions :
          /\ y.port.pair[r].live = x.port.pair[r].live /\ y.port.pair[r].emitted = x.port.pair[r].emitted
          /\ y.port.pair[r].accepted = Joins(x.port.pair[r].accepted, a, Said(x, k, r, "ACCEPTED"))
          /\ y.port.pair[r].done =
                Joins(x.port.pair[r].done, a, Said(x, k, r, "REJECTED") \/ Said(x, k, r, "TERMINAL"))
          /\ y.port.pair[r].rejected <=> x.port.pair[r].rejected \/ Said(x, k, r, "REJECTED")

LEMMA NotedPairIs ==
  ASSUME NEW x, NEW a \in Actuators, NEW k, NEW r \in Revisions, NEW pr \in PairType
  PROVE  LET n == NotedPair(x, a, k, r, pr) IN
         /\ n \in PairType /\ n.live = pr.live /\ n.emitted = pr.emitted
         /\ n.accepted = Joins(pr.accepted, a, Said(x, k, r, "ACCEPTED"))
         /\ n.done = Joins(pr.done, a, Said(x, k, r, "REJECTED") \/ Said(x, k, r, "TERMINAL"))
         /\ n.rejected <=> pr.rejected \/ Said(x, k, r, "REJECTED")
<1> DEFINE A == Joins(pr.accepted, a, Said(x, k, r, "ACCEPTED"))
           D == Joins(pr.done, a, Said(x, k, r, "REJECTED") \/ Said(x, k, r, "TERMINAL"))
           S == Joins(pr.succeeded, a, Won(x, a, k, r))
           J == pr.rejected \/ Said(x, k, r, "REJECTED")
           n == NotedPair(x, a, k, r, pr)
<1>1. A \in SUBSET Actuators /\ D \in SUBSET Actuators /\ S \in SUBSET Actuators
  BY DEF Joins, PairType
<1>2. J \in BOOLEAN
  BY DEF Said
<1>3. n = [pr EXCEPT !.accepted = A, !.done = D, !.succeeded = S, !.rejected = J]
  BY Zenon DEF NotedPair
<1>4. J <=> pr.rejected \/ Said(x, k, r, "REJECTED")
  OBVIOUS
<1> HIDE DEF A, D, S, J, n
<1>5. /\ n \in PairType /\ n.live = pr.live /\ n.emitted = pr.emitted /\ n.accepted = A /\ n.done = D
      /\ n.rejected = J
  BY <1>1, <1>2, <1>3 DEF PairType
<1> QED BY <1>4, <1>5, Zenon DEF A, D, n

LEMMA RecordRecords ==
  ASSUME NEW x \in PollType, NEW a \in Actuators, NEW k \in 0..Len(x.events)
  PROVE  Recorded(x, Record(x, a, k), a, k)
<1> DEFINE y == Record(x, a, k)
           f == [r \in Revisions |-> NotedPair(x, a, k, r, x.port.pair[r])]
           z == Noted(x, a, k)
           J == \E r \in Revisions : Said(x, k, r, "REJECTED")
<1>1. x.port.pair \in [Revisions -> PairType] /\ x.port \in PortType
  BY DEF PollType, PortType
<1>2. CASE k = Len(x.events)
  <2>1. y = x
    BY <1>2, RecordIs
  <2>2. \A r, kind : ~Said(x, k, r, kind)
    <3>1. x.events \in Seq(TrueEvents)
      BY DEF PollType
    <3>2. Len(x.events) \in Nat
      BY <3>1, LenProperties
    <3>3. k + 1..Len(x.events) = {}
      BY <3>2, <1>2
    <3> QED BY <3>3, Zenon DEF Said
  <2>3. Recorded(x, x, a, k)
    BY <2>2 DEF Recorded, FencedBy, Joins
  <2> QED BY <2>1, <2>3
<1>3. CASE k # Len(x.events)
  <2>1. y = IF J THEN FencesBoth(z) ELSE z
    BY <1>3, RecordIs, Zenon
  <2>2. z = PairSet(x, f)
    BY Zenon DEF Noted, NotedPairs, PairSet
  <2>3. \A r \in Revisions :
          /\ f[r] \in PairType
          /\ f[r].live = x.port.pair[r].live /\ f[r].emitted = x.port.pair[r].emitted
          /\ f[r].accepted = Joins(x.port.pair[r].accepted, a, Said(x, k, r, "ACCEPTED"))
          /\ f[r].done = Joins(x.port.pair[r].done, a, Said(x, k, r, "REJECTED") \/ Said(x, k, r, "TERMINAL"))
          /\ f[r].rejected <=> x.port.pair[r].rejected \/ Said(x, k, r, "REJECTED")
    <3>1. TAKE r \in Revisions
    <3>2. f[r] = NotedPair(x, a, k, r, x.port.pair[r])
      OBVIOUS
    <3>3. x.port.pair[r] \in PairType
      BY <1>1
    <3> HIDE DEF f
    <3> QED BY <3>2, <3>3, NotedPairIs
  <2>4. f \in [Revisions -> PairType]
    BY <2>3
  <2> HIDE DEF f, z, y
  <2>5. PairChanged(x, z, f)
    BY <2>2, <2>4, PairIs
  <2>6. CASE J
    <3>1. y = FencesBoth(z)
      BY <2>1, <2>6
    <3>2. z \in PollType
      BY <2>5 DEF PairChanged
    <3>3. /\ y \in PollType /\ y.events = z.events /\ y.raises = z.raises
          /\ CancelChanged(z.port, y.port)
      BY <3>1, <3>2, FencesBothIs
    <3>4. /\ y \in PollType /\ y.events = x.events /\ y.raises = x.raises
          /\ y.port.item = x.port.item /\ y.port.slot = x.port.slot
          /\ y.port.current = x.port.current /\ y.port.pending = x.port.pending /\ y.port.open = x.port.open
          /\ Fenced(y.port) /\ y.port.pair = f
      BY <2>5, <3>3 DEF PairChanged, CancelChanged
    <3>5. Fenced(y.port) <=> FencedBy(x, k)
      BY <2>6, <3>4 DEF FencedBy
    <3>6. Recorded(x, y, a, k)
      BY <2>3, <3>4, <3>5 DEF Recorded
    <3> QED BY <3>6 DEF y
  <2>7. CASE ~J
    <3>1. y = z
      BY <2>1, <2>7
    <3>2. /\ y \in PollType /\ y.events = x.events /\ y.raises = x.raises
          /\ y.port.item = x.port.item /\ y.port.slot = x.port.slot
          /\ y.port.current = x.port.current /\ y.port.pending = x.port.pending /\ y.port.open = x.port.open
          /\ y.port.fenced = x.port.fenced /\ y.port.pair = f
      BY <2>5, <3>1 DEF PairChanged
    <3>3. Fenced(y.port) <=> FencedBy(x, k)
      BY <2>7, <3>2 DEF FencedBy, Fenced
    <3>4. Recorded(x, y, a, k)
      BY <2>3, <3>2, <3>3 DEF Recorded
    <3> QED BY <3>4 DEF y
  <2> QED BY <2>6, <2>7
<1> QED BY <1>2, <1>3

\* a child keeps what it has when the pairs are recorded
LEMMA ChildRecorded ==
  ASSUME NEW n, NEW p \in PortType, NEW q \in PortType, NEW a \in Actuators,
         NEW accepted \in SUBSET Revisions, NEW done \in SUBSET Revisions, NEW f \in BOOLEAN, NEW g \in BOOLEAN,
         ChildOK(n, p, a, accepted, done, f), f => g,
         q.slot = p.slot, q.item = p.item, q.current = p.current, q.pending = p.pending,
         \A r \in Revisions : q.pair[r].live = p.pair[r].live
  PROVE  ChildOK(n, q, a, accepted, done, g)
<1>1. Owned(q, a) = Owned(p, a) /\ Owned(p, a) \subseteq Revisions
  BY DEF Owned, PortType, Slots, None
<1>2. ChildOwns(n, q, a, done)
  BY <1>1 DEF ChildOK, ChildOwns
<1>3. ChildHeard(q, a, accepted, done, g)
  BY <1>1 DEF ChildOK, ChildHeard
<1>4. ~g => ChildUnfenced(q, a, accepted)
  BY DEF ChildOK, ChildUnfenced
<1> QED BY <1>2, <1>3, <1>4 DEF ChildOK

\* The record of what a child has said ends the middle of its poll.
LEMMA RecordPolled ==
  ASSUME NEW x, NEW a \in Actuators, NEW k, Mid(x, a, k)
  PROVE  Polled(Record(x, a, k))
<1> DEFINE y == Record(x, a, k)
           F == FencedBy(x, k)
<1>1. x \in PollType /\ k \in 0..Len(x.events) /\ x.port \in PortType
  BY DEF Mid, PollType
<1>2. Recorded(x, y, a, k)
  BY <1>1, RecordRecords
<1> HIDE DEF y, F
<1>3. /\ y \in PollType /\ y.port.item = x.port.item /\ y.port.slot = x.port.slot
      /\ y.port.current = x.port.current /\ y.port.pending = x.port.pending /\ y.port.open = x.port.open
      /\ Fenced(y.port) <=> F
      /\ \A r \in Revisions :
          /\ y.port.pair[r].live = x.port.pair[r].live /\ y.port.pair[r].emitted = x.port.pair[r].emitted
          /\ y.port.pair[r].rejected <=> x.port.pair[r].rejected \/ Said(x, k, r, "REJECTED")
  BY <1>2, Zenon DEF Recorded, F
<1>4. y.port \in PortType /\ F \in BOOLEAN /\ Fenced(y.port) \in BOOLEAN
  BY <1>3 DEF PollType, F, FencedBy, Fenced, Said
<1>5. AcceptedOf(y.port, a) = AcceptedBy(x, a, k) /\ DoneOf(y.port, a) = DoneBy(x, a, k)
  BY <1>2 DEF Recorded, Joins, AcceptedOf, DoneOf, AcceptedBy, DoneBy
<1>6. \A b \in Actuators \ {a} : AcceptedOf(y.port, b) = AcceptedOf(x.port, b) /\ DoneOf(y.port, b) = DoneOf(x.port, b)
  BY <1>2 DEF Recorded, Joins, AcceptedOf, DoneOf
<1>7. ASSUME NEW b \in Actuators
      PROVE  ChildOK(native, y.port, b, AcceptedOf(y.port, b), DoneOf(y.port, b), Fenced(y.port))
  <2> DEFINE A == AcceptedOf(y.port, b)
             D == DoneOf(y.port, b)
             G == Fenced(y.port)
  <2>1. ChildOK(native, x.port, b, A, D, F)
    <3>1. CASE b = a
      BY <1>5, <3>1 DEF Mid, F
    <3>2. CASE b # a
      BY <1>6, <3>2 DEF Mid, F
    <3> QED BY <3>1, <3>2
  <2>2. A \in SUBSET Revisions /\ D \in SUBSET Revisions
    BY DEF AcceptedOf, DoneOf
  <2>3. F => G
    BY <1>3
  <2>4. G \in BOOLEAN
    BY <1>4
  <2> HIDE DEF A, D, G
  <2>5. ChildOK(native, y.port, b, A, D, G)
    BY <1>1, <1>3, <1>4, <2>1, <2>2, <2>3, <2>4, ChildRecorded
  <2> QED BY <2>5 DEF A, D, G
<1>8. NativeOK(native, y.port)
  BY <1>3 DEF Mid, NativeOK
<1>9. PairsOK(y.port, Fenced(y.port))
  <2>1. \A r \in Revisions : Said(x, k, r, "REJECTED") => F
    BY DEF F, FencedBy
  <2> QED BY <1>3, <2>1 DEF Mid, PairsOK, F
<1>10. Polled(y)
  <2>1. y.port.open
    BY <1>2 DEF Recorded, Mid
  <2> QED BY <2>1, <1>3, <1>7, <1>8, <1>9 DEF Polled, StreamOK
<1> QED BY <1>10 DEF y

\* A poll of a child starts in its middle.
LEMMA PolledMid ==
  ASSUME NEW x, NEW a \in Actuators, Polled(x)
  PROVE  Mid(x, a, Len(x.events))
<1> DEFINE k == Len(x.events)
<1>1. x \in PollType /\ x.port.open /\ StreamOK(native, x.port)
  BY DEF Polled
<1>2. x.events \in Seq(TrueEvents)
  BY <1>1 DEF PollType
<1>3. k \in Nat
  BY <1>2, LenProperties
<1>4. \A r, kind : ~Said(x, k, r, kind)
  <2>1. k + 1..Len(x.events) = {}
    BY <1>3
  <2> QED BY <2>1, Zenon DEF Said
<1>5. k \in 0..Len(x.events)
  BY <1>3
<1> HIDE DEF k
<1>6. /\ AcceptedBy(x, a, k) = AcceptedOf(x.port, a) /\ DoneBy(x, a, k) = DoneOf(x.port, a)
      /\ FencedBy(x, k) = Fenced(x.port)
  BY <1>4 DEF AcceptedBy, DoneBy, FencedBy, AcceptedOf, DoneOf, Fenced
<1>7. Mid(x, a, k)
  BY <1>1, <1>5, <1>6 DEF Mid, StreamOK
<1> QED BY <1>7 DEF k

LEMMA PollChildPolled ==
  ASSUME NEW x, NEW a \in Actuators, Polled(x), native \in NativeType
  PROVE  Polled(PollChild(x, a))
<1> DEFINE k == Len(x.events)
<1>1. Mid(x, a, k)
  BY PolledMid
<1> HIDE DEF k
<1> DEFINE h == HearAnswer(x, a)
           u == Visit(h, a, "ret")
           v == Visit(u, a, "cur")
           w == Visit(v, a, "pend")
<1>2. Mid(h, a, k)
  BY <1>1, HearAnswerMid
<1>3. "ret" \in Slots /\ "cur" \in Slots /\ "pend" \in Slots
  BY DEF Slots
<1> HIDE DEF h
<1>4. Mid(u, a, k)
  BY <1>2, <1>3, VisitMid
<1> HIDE DEF u
<1>5. Mid(v, a, k)
  BY <1>3, <1>4, VisitMid
<1> HIDE DEF v
<1>6. Mid(w, a, k)
  BY <1>3, <1>5, VisitMid
<1> HIDE DEF w
<1>7. Polled(Record(w, a, k))
  BY <1>6, RecordPolled
<1> QED BY <1>7, Zenon DEF PollChild, h, u, v, w, k

\* A fence of both children keeps what the stream keeps.
LEMMA StreamCancel ==
  ASSUME NEW n, NEW p \in PortType, NEW q \in PortType, StreamOK(n, p), CancelChanged(p, q)
  PROVE  StreamOK(n, q)
<1>1. /\ q.item = p.item /\ q.slot = p.slot /\ q.pair = p.pair
      /\ q.current = p.current /\ q.pending = p.pending /\ Fenced(q) = TRUE
  BY DEF CancelChanged, Fenced
<1>2. ASSUME NEW a \in Actuators
      PROVE  ChildOK(n, q, a, AcceptedOf(q, a), DoneOf(q, a), Fenced(q))
  <2> DEFINE A == AcceptedOf(p, a)
             D == DoneOf(p, a)
             F == Fenced(p)
  <2>1. AcceptedOf(q, a) = A /\ DoneOf(q, a) = D
    BY <1>1 DEF AcceptedOf, DoneOf
  <2>2. A \in SUBSET Revisions /\ D \in SUBSET Revisions /\ F \in BOOLEAN
    BY DEF AcceptedOf, DoneOf, Fenced
  <2>3. ChildOK(n, p, a, A, D, F)
    BY DEF StreamOK
  <2> HIDE DEF A, D, F
  <2>4. ChildOK(n, q, a, A, D, TRUE)
    BY <1>1, <2>2, <2>3, ChildRecorded
  <2> QED BY <1>1, <2>1, <2>4
<1>3. NativeOK(n, q)
  BY <1>1 DEF StreamOK, NativeOK
<1>4. PairsOK(q, Fenced(q))
  BY <1>1 DEF StreamOK, PairsOK
<1> QED BY <1>2, <1>3, <1>4 DEF StreamOK

LEMMA FencesBothPolled ==
  ASSUME NEW x, Polled(x)
  PROVE  Polled(FencesBoth(x))
<1> DEFINE y == FencesBoth(x)
<1>1. x \in PollType /\ x.port \in PortType /\ StreamOK(native, x.port) /\ x.port.open
  BY DEF Polled, PollType
<1>2. y \in PollType /\ CancelChanged(x.port, y.port)
  BY <1>1, FencesBothIs
<1> HIDE DEF y
<1>3. y.port \in PortType /\ y.port.open
  BY <1>1, <1>2 DEF PollType, CancelChanged
<1>4. StreamOK(native, y.port)
  BY <1>1, <1>2, <1>3, StreamCancel
<1>5. Polled(y)
  BY <1>2, <1>3, <1>4 DEF Polled
<1> QED BY <1>5 DEF y

(***************************************************************************)
(* The pairs' logical events                                               *)
(***************************************************************************)
Over(p) == {r \in Revisions : p.pair[r].live /\ p.pair[r].done = Actuators}
KeptPairs(p, new) ==
    [r \in Revisions |-> IF r \in Over(p) THEN NewPair ELSE [p.pair[r] EXCEPT !.emitted = @ \/ r \in new]]
NowCurrent(p, new) == IF new = {} THEN p.current ELSE CHOOSE r \in new : TRUE
SaysPair(x, new) ==
    IF new = {} THEN x
    ELSE Say(x, "both", NowCurrent(x.port, new), "PAIR_ACCEPTED", x.port.pair[NowCurrent(x.port, new)].predecessor)
PairsSet(x, current, over, new, kept) ==
    [x EXCEPT !.port.current = IF current \in over THEN None ELSE current,
              !.port.pending = IF new # {} \/ @ \in over THEN None ELSE @,
              !.port.pair = kept]

LEMMA LogicalIs ==
  ASSUME NEW x
  PROVE  LET new == Paired(x.port) IN
         LogicalEvents(x) =
            IF new = {} /\ Over(x.port) = {} THEN x
            ELSE PairsSet(SaysPair(x, new), NowCurrent(x.port, new), Over(x.port), new, KeptPairs(x.port, new))
BY Zenon DEF LogicalEvents, Over, KeptPairs, NowCurrent, SaysPair, PairsSet

\* what the logical events leave of the port
Logical(p, q, new) ==
    /\ q \in PortType /\ q.slot = p.slot /\ q.item = p.item /\ q.fenced = p.fenced /\ q.open = p.open
    /\ q.current = IF NowCurrent(p, new) \in Over(p) THEN None ELSE NowCurrent(p, new)
    /\ q.pending = IF new # {} \/ p.pending \in Over(p) THEN None ELSE p.pending
    /\ q.pair = KeptPairs(p, new)

Kept(p, f, new, r) ==
    /\ f[r].live <=> p.pair[r].live /\ r \notin Over(p)
    /\ r \notin Over(p) => /\ f[r].accepted = p.pair[r].accepted
                           /\ f[r].done = p.pair[r].done
                           /\ f[r].rejected = p.pair[r].rejected
                           /\ f[r].emitted <=> p.pair[r].emitted \/ r \in new
    /\ r \in Over(p) => f[r].accepted = {} /\ f[r].done = {} /\ f[r].rejected = FALSE

LEMMA KeptPairsIs ==
  ASSUME NEW p \in PortType, NEW new
  PROVE  /\ KeptPairs(p, new) \in [Revisions -> PairType]
         /\ \A r \in Revisions : Kept(p, KeptPairs(p, new), new, r)
<1> DEFINE f == KeptPairs(p, new)
<1>1. f = [r \in Revisions |-> IF r \in Over(p) THEN NewPair ELSE [p.pair[r] EXCEPT !.emitted = @ \/ r \in new]]
  BY Zenon DEF KeptPairs
<1>2. NewPair \in PairType /\ NewPair.live = FALSE /\ NewPair.accepted = {} /\ NewPair.done = {}
      /\ NewPair.rejected = FALSE
  BY DEF NewPair, PairType, None
<1>3. p.pair \in [Revisions -> PairType]
  BY DEF PortType
<1> HIDE DEF f
<1>4. ASSUME NEW r \in Revisions
      PROVE  f[r] \in PairType /\ Kept(p, f, new, r)
  <2>1. CASE r \in Over(p)
    <3>1. f[r] = NewPair
      BY <1>1, <2>1
    <3> QED BY <1>2, <2>1, <3>1 DEF Kept
  <2>2. CASE r \notin Over(p)
    <3> DEFINE J == p.pair[r].emitted \/ r \in new
    <3>1. f[r] = [p.pair[r] EXCEPT !.emitted = J]
      BY <1>1, <2>2
    <3>2. p.pair[r] \in PairType /\ J \in BOOLEAN
      BY <1>3
    <3>3. J <=> p.pair[r].emitted \/ r \in new
      OBVIOUS
    <3> HIDE DEF J
    <3>4. /\ f[r] \in PairType /\ f[r].live = p.pair[r].live /\ f[r].accepted = p.pair[r].accepted
          /\ f[r].done = p.pair[r].done /\ f[r].rejected = p.pair[r].rejected /\ f[r].emitted = J
      BY <3>1, <3>2 DEF PairType
    <3> QED BY <2>2, <3>3, <3>4 DEF Kept
  <2> QED BY <2>1, <2>2
<1>5. f \in [Revisions -> PairType]
  BY <1>1, <1>4
<1> QED BY <1>4, <1>5 DEF f

\* At most the pending pair is newly accepted.
LEMMA PairedIs ==
  ASSUME NEW p \in PortType, PairsOK(p, Fenced(p)), NEW new, new = Paired(p)
  PROVE  /\ new \subseteq {p.pending} /\ new \subseteq Revisions
         /\ new # {} => NowCurrent(p, new) = p.pending /\ p.pending \in Revisions
                        /\ p.pair[p.pending].accepted = Actuators
         /\ NowCurrent(p, new) \in {None} \cup Revisions
<1>1. \A r \in new : r = p.pending /\ r \in Revisions /\ p.pair[r].accepted = Actuators
  BY DEF Paired, PairsOK
<1>2. p.current \in {None} \cup Revisions
  BY DEF PortType
<1>3. new # {} => NowCurrent(p, new) \in new
  BY Zenon DEF NowCurrent
<1>4. new = {} => NowCurrent(p, new) = p.current
  BY DEF NowCurrent
<1> QED BY <1>1, <1>2, <1>3, <1>4

\* The logical events keep what the stream keeps.
LEMMA StreamLogical ==
  ASSUME NEW n, NEW p \in PortType, NEW q \in PortType, NEW new, new = Paired(p),
         StreamOK(n, p), Logical(p, q, new)
  PROVE  StreamOK(n, q)
<1> DEFINE over == Over(p)
           c == NowCurrent(p, new)
<1>1. PairsOK(p, Fenced(p))
  BY DEF StreamOK
<1>2. /\ new \subseteq {p.pending} /\ new \subseteq Revisions
      /\ new # {} => c = p.pending /\ p.pending \in Revisions /\ p.pair[p.pending].accepted = Actuators
  BY <1>1, PairedIs
<1>3. new = {} => c = p.current
  BY DEF NowCurrent
<1>4. /\ q.slot = p.slot /\ q.item = p.item /\ Fenced(q) = Fenced(p)
      /\ q.current = IF c \in over THEN None ELSE c
      /\ q.pending = IF new # {} \/ p.pending \in over THEN None ELSE p.pending
  BY DEF Logical, Fenced
<1>5. \A r \in Revisions :
         /\ q.pair[r].live <=> p.pair[r].live /\ r \notin over
         /\ r \notin over => /\ q.pair[r].accepted = p.pair[r].accepted
                             /\ q.pair[r].done = p.pair[r].done
                             /\ q.pair[r].rejected = p.pair[r].rejected
                             /\ q.pair[r].emitted <=> p.pair[r].emitted \/ r \in new
         /\ r \in over => q.pair[r].accepted = {} /\ q.pair[r].done = {} /\ q.pair[r].rejected = FALSE
  <2>1. q.pair = KeptPairs(p, new)
    BY DEF Logical
  <2>2. \A r \in Revisions : Kept(p, q.pair, new, r)
    BY <2>1, KeptPairsIs
  <2> QED BY <2>2, Zenon DEF Kept, over
<1>6. \A r \in over : r \in Revisions /\ p.pair[r].live /\ p.pair[r].done = Actuators
  BY DEF Over
<1>7. \A r \in Revisions : p.pair[r].live /\ p.pair[r].accepted = Actuators /\ ~p.pair[r].rejected
                           /\ ~p.pair[r].emitted => r \in new
  BY DEF Paired
<1>8. p.pending \in {None} \cup Revisions /\ p.current \in {None} \cup Revisions
      /\ None \notin Revisions /\ \A r \in Revisions : p.pair[r].emitted \in BOOLEAN
  <2>1. p.pending \in {None} \cup Revisions /\ p.current \in {None} \cup Revisions /\ p.pair \in [Revisions -> PairType]
    BY DEF PortType
  <2>2. None \notin Revisions
    BY DEF None, Revisions
  <2>3. \A r \in Revisions : p.pair[r] \in PairType
    BY <2>1
  <2>4. \A r \in Revisions : p.pair[r].emitted \in BOOLEAN
    BY <2>3 DEF PairType
  <2> QED BY <2>1, <2>2, <2>4
<1> HIDE DEF over, c
<1>9. NativeOK(n, q)
  BY <1>4 DEF StreamOK, NativeOK
<1>10. PairsOK(q, Fenced(q))
  <2>1. ASSUME NEW r \in Revisions
        PROVE  q.pair[r].live /\ ~q.pair[r].emitted <=> r = q.pending
    <3>1. p.pair[r].live /\ ~p.pair[r].emitted <=> r = p.pending
      BY <1>1 DEF PairsOK
    <3>2. r \in over \/ r \notin over
      OBVIOUS
    <3> QED BY <1>2, <1>4, <1>5, <1>8, <3>1, <3>2
  <2>2. \A r \in Revisions : q.pair[r].rejected => Fenced(q)
    BY <1>1, <1>4, <1>5 DEF PairsOK
  <2> QED BY <2>1, <2>2 DEF PairsOK
<1>11. ASSUME NEW a \in Actuators
       PROVE  ChildOK(n, q, a, AcceptedOf(q, a), DoneOf(q, a), Fenced(q))
  <2> DEFINE A == AcceptedOf(p, a)
             D == DoneOf(p, a)
             F == Fenced(p)
  <2>1. AcceptedOf(q, a) = A \ over /\ DoneOf(q, a) = D \ over
    BY <1>5 DEF AcceptedOf, DoneOf
  <2>2. A \in SUBSET Revisions /\ D \in SUBSET Revisions /\ F \in BOOLEAN /\ over \subseteq D
    BY <1>6 DEF AcceptedOf, DoneOf, Fenced
  <2>3. ChildOK(n, p, a, A, D, F)
    BY DEF StreamOK
  <2>4. new # {} => p.pending \in A
    BY <1>2 DEF AcceptedOf
  \* unless fenced, a pair that is over was accepted
  <2>5. ~F /\ p.pending \in over => new # {}
    <3>1. SUFFICES ASSUME ~F, p.pending \in over PROVE new # {}
      OBVIOUS
    <3>2. p.pending \in Revisions
      BY <1>6, <3>1
    <3>3. \A b \in Actuators : p.pending \in DoneOf(p, b)
      BY <1>6, <3>1, <3>2 DEF DoneOf
    <3>4. \A b \in Actuators : p.pending \in AcceptedOf(p, b)
      BY <3>1, <3>3 DEF StreamOK, ChildOK, ChildHeard, F
    <3>5. p.pair[p.pending].accepted = Actuators
      <4>1. p.pair[p.pending].accepted \subseteq Actuators
        BY <3>2 DEF PortType, PairType
      <4> QED BY <3>4, <4>1 DEF AcceptedOf
    <3>6. p.pair[p.pending].live /\ ~p.pair[p.pending].emitted /\ ~p.pair[p.pending].rejected
      BY <1>1, <3>1, <3>2 DEF PairsOK, F
    <3> QED BY <1>7, <3>2, <3>5, <3>6
  <2> HIDE DEF A, D, F
  <2>6. Owned(q, a) = Owned(p, a) /\ Owned(p, a) \subseteq Revisions
        /\ \A s \in Slots : p.slot[a][s] # None => p.slot[a][s] \in Owned(p, a)
    BY <1>4 DEF Owned, PortType, Slots, None
  <2>7. \A r \in Owned(p, a) : r \notin D /\ r \notin over
    BY <2>2, <2>3 DEF ChildOK, ChildOwns
  <2>8. ChildOwns(n, q, a, D \ over)
    BY <1>4, <1>5, <2>3, <2>6, <2>7 DEF ChildOK, ChildOwns
  <2>9. ChildHeard(q, a, A \ over, D \ over, F)
    BY <1>4, <2>3, <2>6, <2>7 DEF ChildOK, ChildHeard
  <2>10. ~F => ChildUnfenced(q, a, A \ over)
    <3>1. SUFFICES ASSUME ~F PROVE ChildUnfenced(q, a, A \ over)
      OBVIOUS
    <3>2. ChildUnfenced(p, a, A)
      BY <2>3, <3>1 DEF ChildOK
    <3> DEFINE pend == p.slot[a]["pend"]
               cur == p.slot[a]["cur"]
    <3>3. /\ pend \in {None, p.pending} /\ cur \in {None, p.current, p.pending}
          /\ p.pending # None /\ p.pending \in A => pend = None /\ cur \in {None, p.pending}
      BY <3>2 DEF ChildUnfenced
    <3>4. cur # None => cur \notin over
      BY <2>6, <2>7 DEF Slots
    <3>5. q.slot[a]["pend"] = pend /\ q.slot[a]["cur"] = cur
      BY <1>4
    <3> HIDE DEF pend, cur
    <3>6. CASE new # {}
      <4>1. pend = None /\ cur \in {None, p.pending} /\ q.pending = None
        BY <1>2, <1>4, <1>8, <2>4, <3>3, <3>6
      <4>2. cur \in {None, q.current}
        BY <1>2, <1>4, <3>4, <3>6, <4>1
      <4> QED BY <3>5, <4>1, <4>2 DEF ChildUnfenced
    <3>7. CASE new = {}
      <4>1. q.pending = p.pending
        BY <1>4, <2>5, <3>1, <3>7
      <4>2. cur \in {None, q.current, p.pending}
        BY <1>3, <1>4, <3>3, <3>4, <3>7
      <4> QED BY <3>3, <3>5, <4>1, <4>2 DEF ChildUnfenced
    <3> QED BY <3>6, <3>7
  <2>11. ChildOK(n, q, a, A \ over, D \ over, F)
    BY <2>8, <2>9, <2>10 DEF ChildOK
  <2> QED BY <1>4, <2>1, <2>11 DEF F
<1> QED BY <1>9, <1>10, <1>11 DEF StreamOK

LEMMA LogicalEventsPolled ==
  ASSUME NEW x, Polled(x)
  PROVE  Polled(LogicalEvents(x))
<1> DEFINE p == x.port
           new == Paired(p)
           c == NowCurrent(p, new)
           z == SaysPair(x, new)
           kept == KeptPairs(p, new)
           y == LogicalEvents(x)
<1>1. x \in PollType /\ p \in PortType /\ StreamOK(native, p) /\ p.open
  BY DEF Polled, PollType
<1>2. PairsOK(p, Fenced(p))
  BY <1>1 DEF StreamOK
<1>3. /\ new # {} => c = p.pending /\ p.pending \in Revisions
      /\ c \in {None} \cup Revisions
  BY <1>1, <1>2, PairedIs
<1>4. y = IF new = {} /\ Over(p) = {} THEN x ELSE PairsSet(z, c, Over(p), new, kept)
  BY LogicalIs, Zenon
<1>5. kept \in [Revisions -> PairType]
  BY <1>1, KeptPairsIs
<1>6. z \in PollType /\ z.port = p
  <2>1. CASE new = {}
    BY <1>1, <2>1 DEF SaysPair
  <2>2. CASE new # {}
    <3> DEFINE v == p.pair[c].predecessor
               e == Event("PAIR_ACCEPTED", "both", c, v)
    <3>1. c \in Revisions
      BY <1>3, <2>2
    <3>2. v \in {None} \cup Revisions
      BY <1>1, <3>1 DEF PortType, PairType
    <3>3. v \in Nat
      BY <3>2 DEF None, Revisions
    <3> HIDE DEF v, c
    <3>4. e \in TrueEvents
      BY <3>1, <3>3 DEF Event, TrueEvents, EventType, EventTrue, Kinds
    <3>5. SaidMore(x, Say(x, "both", c, "PAIR_ACCEPTED", v), e)
      BY <1>1, <3>4, SayIs
    <3>6. z = Say(x, "both", c, "PAIR_ACCEPTED", v)
      BY <2>2, Zenon DEF SaysPair, c, v
    <3> HIDE DEF z, e
    <3>7. SaidMore(x, z, e)
      BY <3>5, <3>6
    <3> QED BY <3>7 DEF SaidMore
  <2> QED BY <2>1, <2>2
<1>7. CASE new = {} /\ Over(p) = {}
  BY <1>4, <1>7
<1>8. CASE ~(new = {} /\ Over(p) = {})
  <2> DEFINE d == IF c \in Over(p) THEN None ELSE c
             g == IF new # {} \/ p.pending \in Over(p) THEN None ELSE p.pending
             q == [p EXCEPT !.current = d, !.pending = g, !.pair = kept]
  <2>1. y = PairsSet(z, c, Over(p), new, kept)
    BY <1>4, <1>8
  <2> HIDE DEF z, c, y, kept, new
  <2>2. d \in {None} \cup Revisions /\ g \in {None} \cup Revisions
    BY <1>1, <1>3 DEF PortType
  <2>3. y = [z EXCEPT !.port = q]
    <3>1. y = [z EXCEPT !.port.current = d, !.port.pending = IF new # {} \/ @ \in Over(p) THEN None ELSE @,
                        !.port.pair = kept]
      BY <2>1, Zenon DEF PairsSet
    <3> QED BY <1>6, <3>1 DEF PollType, PortType
  <2> HIDE DEF d, g
  <2>4. /\ q \in PortType /\ q.slot = p.slot /\ q.item = p.item /\ q.fenced = p.fenced /\ q.open = p.open
        /\ q.current = d /\ q.pending = g /\ q.pair = kept
    BY <1>1, <1>5, <2>2 DEF PortType
  <2> HIDE DEF q
  <2>5. y \in PollType /\ y.port = q
    BY <1>6, <2>3, <2>4 DEF PollType
  <2>6. Logical(p, q, new)
    BY <2>4 DEF Logical, d, g, c, kept
  <2>7. new = Paired(p)
    BY DEF new
  <2>8. StreamOK(native, q)
    BY <1>1, <2>4, <2>6, <2>7, StreamLogical
  <2>9. Polled(y)
    BY <1>1, <2>4, <2>5, <2>8 DEF Polled
  <2> QED BY <2>9 DEF y
<1> QED BY <1>7, <1>8

\* A poll of an open port keeps what the stream keeps, and says true events.
LEMMA PollPolled ==
  ASSUME NEW p \in PortType, p.open, StreamOK(native, p), native \in NativeType, NEW raises \in Raises
  PROVE  Polled(Poll(p, raises))
<1> DEFINE start == [port |-> p, events |-> <<>>, failed |-> {}, raises |-> raises]
           arm == PollChild(start, "arm")
           once == PollChild(arm, "gripper")
           fenced == FencesBoth(once)
           again1 == IF "arm" \in once.failed THEN fenced ELSE PollChild(fenced, "arm")
           again2 == IF "gripper" \in once.failed THEN again1 ELSE PollChild(again1, "gripper")
           polled == IF Fenced(once.port) THEN again2 ELSE once
<1>1. "arm" \in Actuators /\ "gripper" \in Actuators
  BY DEF Actuators
<1>2. Polled(start)
  <2>1. <<>> \in Seq(TrueEvents)
    BY EmptySeq
  <2>2. start \in PollType
    BY <2>1 DEF PollType
  <2> QED BY <2>2 DEF Polled
<1> HIDE DEF start
<1>3. Polled(arm)
  BY <1>1, <1>2, PollChildPolled
<1> HIDE DEF arm
<1>4. Polled(once)
  BY <1>1, <1>3, PollChildPolled
<1> HIDE DEF once
<1>5. Polled(fenced)
  BY <1>4, FencesBothPolled
<1> HIDE DEF fenced
<1>6. Polled(again1)
  BY <1>1, <1>5, PollChildPolled
<1> HIDE DEF again1
<1>7. Polled(again2)
  BY <1>1, <1>6, PollChildPolled
<1> HIDE DEF again2
<1>8. Polled(polled)
  BY <1>4, <1>7
<1> HIDE DEF polled
<1>9. Polled(LogicalEvents(polled))
  BY <1>8, LogicalEventsPolled
<1>10. Poll(p, raises) = LogicalEvents(polled)
  BY Zenon DEF Poll, polled, again2, again1, fenced, once, arm, start, FencesBoth
<1> QED BY <1>9, <1>10

(***************************************************************************)
(* 3. Submissions, fences and controllers                                  *)
(***************************************************************************)
LEMMA RaisesAre == NoRaise \in Raises /\ \A p : Raising(p) \subseteq Raises
BY DEF NoRaise, Raising, Raises, Actuators

\* What a controller does: what was submitted stays so, no goal comes back,
\* and no more rows are heard of than there are.
Moved(n, m) ==
    \A a \in Actuators, r \in Revisions :
        /\ m[a][r].length = n[a][r].length /\ m[a][r].heard <= m[a][r].length
        /\ m[a][r].goal \in Running => n[a][r].goal \in Running
        /\ m[a][r].length = 0 => m[a][r].goal = "unsent"

LEMMA StreamMoved ==
  ASSUME NEW n, NEW m, NEW p \in PortType, StreamOK(n, p), Moved(n, m)
  PROVE  StreamOK(m, p)
<1>1. NativeOK(m, p)
  <2>1. PICK k \in 0..MaxRevisions : \A a \in Actuators, r \in Revisions : n[a][r].length > 0 <=> r <= k
    BY DEF StreamOK, NativeOK
  <2>2. \A a \in Actuators, r \in Revisions : m[a][r].length > 0 <=> r <= k
    BY <2>1 DEF Moved
  <2>3. \A a \in Actuators, r \in Revisions :
          /\ m[a][r].length = 0 => m[a][r].goal = "unsent" /\ p.item[a][r].handle = "none"
          /\ m[a][r].heard <= m[a][r].length
    BY DEF StreamOK, NativeOK, Moved
  <2> QED BY <2>2, <2>3 DEF NativeOK
<1>2. ASSUME NEW a \in Actuators
      PROVE  ChildOK(m, p, a, AcceptedOf(p, a), DoneOf(p, a), Fenced(p))
  <2>1. ChildOK(n, p, a, AcceptedOf(p, a), DoneOf(p, a), Fenced(p))
    BY DEF StreamOK
  <2>2. p.slot[a]["pend"] # None => p.slot[a]["ret"] = None
    BY <2>1 DEF ChildOK, ChildOwns
  <2>3. ChildOwns(m, p, a, DoneOf(p, a))
    <3>1. \A r \in Revisions : m[a][r].goal \in Running => r \in Owned(p, a)
      BY <2>1 DEF ChildOK, ChildOwns, Moved
    <3>2. Owned(p, a) \subseteq Revisions
      BY DEF Owned, PortType, Slots, None
    <3>3. \A r \in Owned(p, a) : m[a][r].length > 0
      BY <2>1, <3>2 DEF ChildOK, ChildOwns, Moved
    <3> QED BY <2>1, <3>1, <3>3 DEF ChildOK, ChildOwns
  <2> QED BY <2>1, <2>3 DEF ChildOK
<1> QED BY <1>1, <1>2 DEF StreamOK

\* A port just opened or closed, with no goal a controller may be moving for.
LEMMA PortsAre ==
  /\ ClosedPort \in PortType /\ ~ClosedPort.open
  /\ OpenPort \in PortType /\ OpenPort.open
  /\ \A a \in Actuators, r \in Revisions : OpenPort.item[a][r].handle = "none"
<1>1. NewItem \in ItemType /\ NewItem.handle = "none"
  BY DEF NewItem, ItemType
<1>2. NewPair \in PairType
  BY DEF NewPair, PairType, None
<1> DEFINE slot == [a \in Actuators |-> [s \in Slots |-> None]]
           item == [a \in Actuators |-> [r \in Revisions |-> NewItem]]
           pair == [r \in Revisions |-> NewPair]
           fenced == [a \in Actuators |-> FALSE]
<1>3. /\ slot \in [Actuators -> [Slots -> {None} \cup Revisions]] /\ fenced \in [Actuators -> BOOLEAN]
      /\ item \in [Actuators -> [Revisions -> ItemType]] /\ pair \in [Revisions -> PairType]
      /\ \A a \in Actuators, r \in Revisions : item[a][r].handle = "none"
  BY <1>1, <1>2
<1>4. ClosedPort = [open |-> FALSE, fenced |-> fenced, current |-> None, pending |-> None,
                    slot |-> slot, item |-> item, pair |-> pair]
  BY Zenon DEF ClosedPort
<1> HIDE DEF slot, item, pair, fenced
<1>5. ClosedPort \in PortType /\ ~ClosedPort.open /\ ClosedPort.item = item
  BY <1>3, <1>4 DEF PortType
<1>6. OpenPort = [ClosedPort EXCEPT !.open = TRUE]
  BY DEF OpenPort
<1>7. OpenPort \in PortType /\ OpenPort.open /\ OpenPort.item = item
  BY <1>5, <1>6 DEF PortType
<1> QED BY <1>3, <1>5, <1>7

LEMMA NewPortIs ==
  ASSUME NEW p, p \in {OpenPort, ClosedPort}
  PROVE  /\ \A a \in Actuators : Owned(p, a) = {} /\ p.slot[a] = [s \in Slots |-> None]
         /\ ~Fenced(p) /\ p.pending = None
         /\ p.pair = [r \in Revisions |-> NewPair]
         /\ \A a \in Actuators, r \in Revisions : p.item[a][r].handle = "none"
<1> DEFINE slot == [a \in Actuators |-> [s \in Slots |-> None]]
           item == [a \in Actuators |-> [r \in Revisions |-> NewItem]]
           pair == [r \in Revisions |-> NewPair]
           fenced == [a \in Actuators |-> FALSE]
<1>1. ClosedPort = [open |-> FALSE, fenced |-> fenced, current |-> None, pending |-> None,
                    slot |-> slot, item |-> item, pair |-> pair]
  BY Zenon DEF ClosedPort
<1>2. OpenPort = [ClosedPort EXCEPT !.open = TRUE]
  BY DEF OpenPort
<1>3. NewItem.handle = "none"
  BY DEF NewItem
<1> HIDE DEF slot, item, pair, fenced
<1>4. p.slot = slot /\ p.item = item /\ p.pair = pair /\ p.fenced = fenced /\ p.pending = None
  BY <1>1, <1>2
<1>5. \A a \in Actuators : p.slot[a] = [s \in Slots |-> None]
  BY <1>4 DEF slot
<1>6. \A a \in Actuators : Owned(p, a) = {}
  <2>1. TAKE a \in Actuators
  <2>2. \A s \in Slots : p.slot[a][s] = None
    BY <1>5
  <2> QED BY <2>2 DEF Owned
<1>7. ~Fenced(p)
  BY <1>4 DEF fenced, Fenced
<1>8. \A a \in Actuators, r \in Revisions : p.item[a][r].handle = "none"
  BY <1>3, <1>4 DEF item
<1> QED BY <1>4, <1>5, <1>6, <1>7, <1>8 DEF pair

LEMMA NewPortStream ==
  ASSUME NEW n, NEW q, NativeOK(n, q), \A a \in Actuators, r \in Revisions : n[a][r].goal \notin Running,
         NEW p, p \in {OpenPort, ClosedPort}
  PROVE  StreamOK(n, p)
<1>1. /\ \A a \in Actuators : Owned(p, a) = {} /\ p.slot[a] = [s \in Slots |-> None]
      /\ ~Fenced(p) /\ p.pending = None
      /\ p.pair = [r \in Revisions |-> NewPair]
      /\ \A a \in Actuators, r \in Revisions : p.item[a][r].handle = "none"
  BY NewPortIs
<1>2. NewPair.accepted = {} /\ NewPair.done = {} /\ ~NewPair.live /\ ~NewPair.rejected
  BY DEF NewPair
<1>3. NativeOK(n, p)
  BY <1>1 DEF NativeOK
<1>4. ASSUME NEW a \in Actuators
      PROVE  ChildOK(n, p, a, AcceptedOf(p, a), DoneOf(p, a), Fenced(p))
  <2>1. AcceptedOf(p, a) = {} /\ DoneOf(p, a) = {}
    BY <1>1, <1>2 DEF AcceptedOf, DoneOf
  <2>2. \A s \in Slots : p.slot[a][s] = None
    BY <1>1
  <2>3. ChildOwns(n, p, a, {})
    BY <1>1, <2>2 DEF ChildOwns, Slots
  <2>4. ChildHeard(p, a, {}, {}, Fenced(p))
    BY <1>1 DEF ChildHeard
  <2>5. ChildUnfenced(p, a, {})
    BY <2>2 DEF ChildUnfenced, Slots
  <2> QED BY <2>1, <2>3, <2>4, <2>5 DEF ChildOK
<1>5. PairsOK(p, Fenced(p))
  <2>1. \A r \in Revisions : r # None
    BY DEF Revisions, None
  <2> QED BY <1>1, <1>2, <2>1 DEF PairsOK
<1> QED BY <1>3, <1>4, <1>5 DEF StreamOK

\* The next revision is one nothing is known of, after those submitted.
Fresh(n, p, r) ==
    \A a \in Actuators : /\ n[a][r].length = 0 /\ n[a][r].goal = "unsent" /\ p.item[a][r].handle = "none"
                         /\ \A t \in Revisions : n[a][t].length > 0 <=> t < r

LEMMA NextIsFresh ==
  ASSUME NEW p \in PortType, StreamOK(native, p), native \in NativeType, NextRevision \in Revisions
  PROVE  Fresh(native, p, NextRevision)
<1> DEFINE r == NextRevision
<1>1. MaxRevisions \in Nat
  BY StreamAssumption
<1>2. PICK k \in 0..MaxRevisions : \A a \in Actuators, t \in Revisions : native[a][t].length > 0 <=> t <= k
  BY DEF StreamOK, NativeOK
<1>3. k \in Nat /\ k <= MaxRevisions
  BY <1>1, <1>2
<1>4. {t \in Revisions : native["arm"][t].length > 0} = 1..k
  <2>1. "arm" \in Actuators
    BY DEF Actuators
  <2>2. \A t \in Revisions : native["arm"][t].length > 0 <=> t <= k
    BY <1>2, <2>1
  <2>3. \A t : t \in Revisions /\ t <= k <=> t \in 1..k
    BY <1>1, <1>3 DEF Revisions
  <2> QED BY <2>2, <2>3
<1>5. Cardinality(1..k) = k
  <2>1. 1 \in Int /\ k \in Int
    BY <1>3
  <2>2. Cardinality(1..k) = IF 1 > k THEN 0 ELSE k - 1 + 1
    BY <2>1, FS_Interval
  <2> QED BY <1>3, <2>2
<1>6. r = k + 1
  BY <1>4, <1>5 DEF NextRevision
<1> HIDE DEF r
<1>7. ASSUME NEW a \in Actuators
      PROVE  /\ native[a][r].length = 0 /\ native[a][r].goal = "unsent" /\ p.item[a][r].handle = "none"
             /\ \A t \in Revisions : native[a][t].length > 0 <=> t < r
  <2>1. r \in Revisions
    BY DEF r
  <2>2. native[a][r].length \in Nat
    BY <2>1 DEF NativeType
  <2>3. ~(r <= k)
    BY <1>3, <1>6
  <2>4. native[a][r].length = 0
    BY <1>2, <2>1, <2>2, <2>3
  <2>5. native[a][r].goal = "unsent" /\ p.item[a][r].handle = "none"
    BY <2>1, <2>4 DEF StreamOK, NativeOK
  <2>6. \A t \in Revisions : t <= k <=> t < r
    BY <1>3, <1>6 DEF Revisions
  <2> QED BY <1>2, <2>4, <2>5, <2>6
<1> QED BY <1>7 DEF Fresh, r

\* what a submission changes of the port and of the controllers
SubmitChanged(p, q, r, entered) ==
    /\ q \in PortType /\ q.open = p.open /\ q.pending = r /\ q.current = p.current
    /\ q.pair[r].live /\ ~q.pair[r].emitted /\ ~q.pair[r].rejected
    /\ q.pair[r].accepted = {} /\ q.pair[r].done = {}
    /\ \A t \in Revisions \ {r} : q.pair[t] = p.pair[t]
    /\ \A a \in Actuators :
          /\ q.slot[a] = IF a \in entered THEN [p.slot[a] EXCEPT !["pend"] = r] ELSE p.slot[a]
          /\ \A t \in Revisions \ {r} : q.item[a][t] = p.item[a][t]
          /\ q.item[a][r].handle \in {"none", "lost"}
    /\ Fenced(q) \/ entered = Actuators
SendChanged(n, m, r, entered) ==
    \A a \in Actuators :
        /\ m[a][r].length > 0 /\ m[a][r].heard = n[a][r].heard
        /\ m[a][r].goal \in Running => a \in entered
        /\ \A t \in Revisions \ {r} : m[a][t] = n[a][t]

LEMMA ChildSubmitted ==
  ASSUME NEW n, NEW m, NEW p \in PortType, NEW q \in PortType, NEW r \in Revisions, NEW a \in Actuators,
         NEW entered, SubmitChanged(p, q, r, entered), SendChanged(n, m, r, entered), Fresh(n, p, r),
         Ready(p, a), p.pending = None,
         ChildOK(n, p, a, AcceptedOf(p, a), DoneOf(p, a), FALSE)
  PROVE  ChildOK(m, q, a, AcceptedOf(q, a), DoneOf(q, a), Fenced(q))
<1> DEFINE A == AcceptedOf(p, a)
           D == DoneOf(p, a)
<1>1. AcceptedOf(q, a) = A \ {r} /\ DoneOf(q, a) = D \ {r} /\ A \subseteq Revisions /\ D \subseteq Revisions
  BY DEF SubmitChanged, AcceptedOf, DoneOf
<1>2. p.slot[a]["pend"] = None /\ p.slot[a]["ret"] = None
  BY DEF Ready
<1>3. r # None /\ None \notin Revisions
  BY DEF None, Revisions
<1>4. Owned(p, a) \subseteq Revisions /\ p.slot[a] \in [Slots -> {None} \cup Revisions]
  BY DEF Owned, PortType, Slots, None
<1>5. \A t \in Owned(p, a) : t # r /\ n[a][t].length > 0 /\ p.pair[t].live /\ t \notin D
  BY DEF Fresh, ChildOK, ChildOwns
<1>6. \A t \in Revisions : n[a][t].goal \in Running => t \in Owned(p, a)
  BY DEF ChildOK, ChildOwns
<1> HIDE DEF A, D
<1>7. /\ q.slot[a]["pend"] \in {None, r} /\ q.slot[a]["ret"] = None /\ q.slot[a]["cur"] = p.slot[a]["cur"]
      /\ a \in entered => q.slot[a]["pend"] = r
  <2>1. q.slot[a] = IF a \in entered THEN [p.slot[a] EXCEPT !["pend"] = r] ELSE p.slot[a]
    BY DEF SubmitChanged
  <2>2. "pend" \in Slots /\ "ret" \in Slots /\ "cur" \in Slots
    BY DEF Slots
  <2> QED BY <1>2, <1>4, <2>1, <2>2
<1>8. /\ \A t \in Owned(q, a) : t \in Owned(p, a) \/ t = r
      /\ \A t \in Owned(p, a) : t \in Owned(q, a)
      /\ a \in entered => r \in Owned(q, a)
  BY <1>2, <1>3, <1>7 DEF Owned, Slots
<1>9. ChildOwns(m, q, a, D \ {r})
  <2>1. \A t \in Revisions : m[a][t].goal \in Running => t \in Owned(q, a)
    BY <1>6, <1>8 DEF SendChanged
  <2>2. \A t \in Owned(q, a) : m[a][t].length > 0 /\ q.pair[t].live /\ t \notin D \ {r}
    BY <1>4, <1>5, <1>8 DEF SendChanged, SubmitChanged
  <2>3. p.slot[a]["cur"] # None => p.slot[a]["cur"] # r
    BY <1>5 DEF Owned, Slots
  <2>4. \A s \in Slots, t \in Slots : q.slot[a][s] = q.slot[a][t] /\ q.slot[a][s] # None => s = t
    BY <1>3, <1>7, <2>3 DEF Slots
  <2> QED BY <1>7, <2>1, <2>2, <2>4 DEF ChildOwns
<1>10. ChildHeard(q, a, A \ {r}, D \ {r}, Fenced(q))
  <2>1. \A t \in Owned(q, a) : q.item[a][t].handle \in {"held", "attached"} => t \in A \ {r}
    <3>1. \A t \in Owned(p, a) : p.item[a][t].handle \in {"held", "attached"} => t \in A
      BY DEF ChildOK, ChildHeard, A
    <3> QED BY <1>4, <1>5, <1>8, <3>1 DEF SubmitChanged
  <2>2. D \subseteq A
    BY DEF ChildOK, ChildHeard, A, D
  <2> QED BY <2>1, <2>2 DEF ChildHeard
<1>11. ~Fenced(q) => ChildUnfenced(q, a, A \ {r})
  <2>1. p.slot[a]["cur"] \in {None, p.current}
    BY DEF ChildOK, ChildUnfenced
  <2>2. q.pending = r /\ q.current = p.current
    BY DEF SubmitChanged
  <2> QED BY <1>7, <2>1, <2>2 DEF ChildUnfenced
<1>12. ChildOK(m, q, a, A \ {r}, D \ {r}, Fenced(q))
  BY <1>9, <1>10, <1>11 DEF ChildOK
<1> QED BY <1>1, <1>12

\* A submission keeps what the stream keeps.
LEMMA StreamSubmitted ==
  ASSUME NEW n \in NativeType, NEW m \in NativeType, NEW p \in PortType, NEW q, NEW r \in Revisions, NEW entered,
         SubmitChanged(p, q, r, entered), SendChanged(n, m, r, entered), Fresh(n, p, r),
         SubmitReady(p), StreamOK(n, p)
  PROVE  StreamOK(m, q)
<1>1. q \in PortType
  BY DEF SubmitChanged
<1>2. ~Fenced(p) /\ p.pending = None /\ \A a \in Actuators : Ready(p, a)
  BY DEF SubmitReady
<1>3. NativeOK(m, q)
  <2>1. \A a \in Actuators, t \in Revisions : m[a][t].length > 0 <=> t <= r
    <3>1. \A a \in Actuators, t \in Revisions : n[a][t].length > 0 <=> t < r
      BY DEF Fresh
    <3>2. \A a \in Actuators, t \in Revisions : t # r => m[a][t] = n[a][t]
      BY DEF SendChanged
    <3>3. \A a \in Actuators : m[a][r].length > 0
      BY DEF SendChanged
    <3>4. \A t \in Revisions : t # r => (t < r <=> t <= r)
      BY DEF Revisions
    <3>5. r <= r
      BY DEF Revisions
    <3> QED BY <3>1, <3>2, <3>3, <3>4, <3>5
  <2>2. r \in 0..MaxRevisions
    BY StreamAssumption DEF Revisions
  <2>3. ASSUME NEW a \in Actuators, NEW t \in Revisions
        PROVE  /\ m[a][t].length = 0 => m[a][t].goal = "unsent" /\ q.item[a][t].handle = "none"
               /\ m[a][t].heard <= m[a][t].length
    <3>1. CASE t = r
      <4>1. m[a][t].length > 0 /\ m[a][t].heard = n[a][t].heard
        BY <3>1 DEF SendChanged
      <4>2. n[a][t].length = 0 /\ n[a][t].heard <= n[a][t].length
        BY <3>1 DEF Fresh, StreamOK, NativeOK
      <4>3. n[a][t].heard \in Nat /\ m[a][t].length \in Nat
        BY DEF NativeType
      <4>4. n[a][t].heard = 0
        BY <4>2, <4>3
      <4>5. ~(m[a][t].length = 0) /\ m[a][t].heard <= m[a][t].length
        BY <4>1, <4>3, <4>4
      <4> QED BY <4>5
    <3>2. CASE t # r
      <4>1. m[a][t] = n[a][t] /\ q.item[a][t] = p.item[a][t]
        BY <3>2 DEF SendChanged, SubmitChanged
      <4> QED BY <4>1 DEF StreamOK, NativeOK
    <3> QED BY <3>1, <3>2
  <2> QED BY <2>1, <2>2, <2>3 DEF NativeOK
<1>4. ASSUME NEW a \in Actuators
      PROVE  ChildOK(m, q, a, AcceptedOf(q, a), DoneOf(q, a), Fenced(q))
  <2>1. ChildOK(n, p, a, AcceptedOf(p, a), DoneOf(p, a), FALSE)
    BY <1>2 DEF StreamOK, ChildOK, ChildHeard
  <2>2. Ready(p, a)
    BY <1>2
  <2> QED BY <1>1, <1>2, <2>1, <2>2, ChildSubmitted
<1>5. PairsOK(q, Fenced(q))
  <2>1. \A t \in Revisions : p.pair[t].live /\ ~p.pair[t].emitted <=> t = p.pending
    BY DEF StreamOK, PairsOK
  <2>2. \A t \in Revisions : t # None /\ ~p.pair[t].rejected
    BY <1>2 DEF StreamOK, PairsOK, Revisions, None
  <2> QED BY <1>2, <2>1, <2>2 DEF PairsOK, SubmitChanged
<1> QED BY <1>3, <1>4, <1>5 DEF StreamOK

LEMMA SubmittedIs ==
  ASSUME NEW p \in PortType, NEW r \in Revisions, NEW send \in Sends, Fresh(native, p, r)
  PROVE  SubmitChanged(p, Submitted(p, r, send), r, send.entered)
<1> DEFINE pr == [NewPair EXCEPT !.live = TRUE, !.predecessor = p.current]
           pair == [p.pair EXCEPT ![r] = pr]
           slot == [a \in Actuators |->
                        IF a \in send.entered THEN [p.slot[a] EXCEPT !["pend"] = r] ELSE p.slot[a]]
           item == [a \in Actuators |->
                        IF a \in send.lost THEN [p.item[a] EXCEPT ![r].handle = "lost"] ELSE p.item[a]]
           q == [p EXCEPT !.pending = r, !.pair = pair, !.slot = slot, !.item = item]
           s == Submitted(p, r, send)
<1>1. /\ p.pair \in [Revisions -> PairType] /\ p.slot \in [Actuators -> [Slots -> {None} \cup Revisions]]
      /\ p.item \in [Actuators -> [Revisions -> ItemType]] /\ p.current \in {None} \cup Revisions
  BY DEF PortType
<1>2. /\ pr \in PairType /\ pr.live /\ ~pr.emitted /\ ~pr.rejected /\ pr.accepted = {} /\ pr.done = {}
  BY <1>1 DEF NewPair, PairType, None
<1>3. s = IF CleanSend(send) THEN q ELSE Cancel(q)
  <2>1. [p EXCEPT !.pending = r, !.pair[r] = pr, !.slot = slot, !.item = item] = q
    BY DEF PortType
  <2>2. s = IF CleanSend(send) THEN [p EXCEPT !.pending = r, !.pair[r] = pr, !.slot = slot, !.item = item]
            ELSE Cancel([p EXCEPT !.pending = r, !.pair[r] = pr, !.slot = slot, !.item = item])
    BY Zenon DEF Submitted
  <2> HIDE DEF pr, pair, slot, item, q, s
  <2> QED BY <2>1, <2>2
<1> HIDE DEF pr
<1>4. /\ pair \in [Revisions -> PairType] /\ pair[r] = pr /\ \A t \in Revisions \ {r} : pair[t] = p.pair[t]
  BY <1>1, <1>2
<1>5. /\ slot \in [Actuators -> [Slots -> {None} \cup Revisions]]
      /\ \A a \in Actuators :
            slot[a] = IF a \in send.entered THEN [p.slot[a] EXCEPT !["pend"] = r] ELSE p.slot[a]
  <2>1. \A a \in Actuators : [p.slot[a] EXCEPT !["pend"] = r] \in [Slots -> {None} \cup Revisions]
    BY <1>1
  <2> QED BY <1>1, <2>1
<1>6. ASSUME NEW a \in Actuators
      PROVE  /\ item[a] \in [Revisions -> ItemType] /\ item[a][r].handle \in {"none", "lost"}
             /\ \A t \in Revisions \ {r} : item[a][t] = p.item[a][t]
  <2> DEFINE i == [p.item[a][r] EXCEPT !.handle = "lost"]
  <2>1. p.item[a] \in [Revisions -> ItemType] /\ p.item[a][r] \in ItemType /\ p.item[a][r].handle = "none"
    BY <1>1 DEF Fresh
  <2>2. i \in ItemType /\ i.handle = "lost"
    BY <2>1 DEF ItemType
  <2>3. [p.item[a] EXCEPT ![r].handle = "lost"] = [p.item[a] EXCEPT ![r] = i]
    BY <2>1
  <2>4. item[a] = IF a \in send.lost THEN [p.item[a] EXCEPT ![r] = i] ELSE p.item[a]
    BY <2>3
  <2> HIDE DEF i, item
  <2> QED BY <2>1, <2>2, <2>4
<1>7. item \in [Actuators -> [Revisions -> ItemType]]
  <2>1. item = [a \in Actuators |-> item[a]]
    OBVIOUS
  <2> HIDE DEF item
  <2> QED BY <1>6, <2>1
<1> HIDE DEF pair, slot, item
<1>8. /\ q \in PortType /\ q.open = p.open /\ q.pending = r /\ q.current = p.current
      /\ q.pair = pair /\ q.slot = slot /\ q.item = item
  BY <1>4, <1>5, <1>7 DEF PortType
<1> HIDE DEF q, s
<1>9. CASE CleanSend(send)
  <2>1. send.entered = Actuators /\ s = q
    BY <1>3, <1>9 DEF CleanSend
  <2> HIDE DEF s
  <2>2. SubmitChanged(p, s, r, send.entered)
    BY <1>2, <1>4, <1>5, <1>6, <1>8, <2>1 DEF SubmitChanged
  <2> QED BY <2>2 DEF s
<1>10. CASE ~CleanSend(send)
  <2>1. CancelChanged(q, s)
    BY <1>3, <1>8, <1>10, CancelIs
  <2>2. /\ s \in PortType /\ s.open = p.open /\ s.pending = r /\ s.current = p.current
        /\ s.pair = pair /\ s.slot = slot /\ s.item = item /\ Fenced(s)
    BY <1>8, <2>1 DEF CancelChanged
  <2>3. SubmitChanged(p, s, r, send.entered)
    BY <1>2, <1>4, <1>5, <1>6, <2>2 DEF SubmitChanged
  <2> QED BY <2>3 DEF s
<1> QED BY <1>9, <1>10

LEMMA DeliveredIs ==
  ASSUME NEW p \in PortType, NEW r \in Revisions, NEW send \in Sends, NEW arrives \in BOOLEAN, NEW k \in Nat, k > 0,
         native \in NativeType, Fresh(native, p, r)
  PROVE  /\ Delivered(r, k, send, arrives) \in NativeType
         /\ SendChanged(native, Delivered(r, k, send, arrives), r, send.entered)
         /\ \A a \in Actuators : Delivered(r, k, send, arrives)[a][r].length = k
         /\ send.entered = {} =>
               \A a \in Actuators, t \in Revisions : Delivered(r, k, send, arrives)[a][t].goal = native[a][t].goal
         /\ \A a \in Actuators, t \in Revisions : Delivered(r, k, send, arrives)[a][t].heard = native[a][t].heard
<1> DEFINE m == Delivered(r, k, send, arrives)
           Goals == {"unsent", "refused", "unread"} \cup Running \cup Ended
           GoalType == [goal : Goals, heard : Nat, length : Nat]
<1>0. Goals = {"unsent", "refused", "unread"} \cup Running \cup Ended /\ "sent" \in Goals /\ "unsent" \notin Running
  BY DEF Running
<1>1. m = [a \in Actuators |->
              IF a \in send.entered /\ (a \in send.lost => arrives)
              THEN [native[a] EXCEPT ![r] = [@ EXCEPT !.goal = "sent", !.length = k]]
              ELSE [native[a] EXCEPT ![r].length = k]]
  BY Zenon DEF Delivered
<1> HIDE DEF m
<1>2. NativeType = [Actuators -> [Revisions -> GoalType]]
  BY DEF NativeType
<1> HIDE DEF Goals
<1>3. ASSUME NEW a \in Actuators
      PROVE  /\ m[a] \in [Revisions -> GoalType] /\ m[a][r].length = k /\ m[a][r].heard = native[a][r].heard
             /\ m[a][r].goal = "unsent" \/ (m[a][r].goal = "sent" /\ a \in send.entered)
             /\ \A t \in Revisions \ {r} : m[a][t] = native[a][t]
  <2> DEFINE e == a \in send.entered /\ (a \in send.lost => arrives)
             g == IF e THEN "sent" ELSE native[a][r].goal
             i == [native[a][r] EXCEPT !.goal = g, !.length = k]
  <2>1. native[a] \in [Revisions -> GoalType] /\ native[a][r] \in GoalType /\ native[a][r].goal = "unsent"
    BY <1>2 DEF Fresh
  <2>2. g \in Goals
    BY <1>0, <2>1
  <2>3. g = "unsent" \/ (g = "sent" /\ a \in send.entered)
    BY <2>1
  <2>4. m[a] = IF e THEN [native[a] EXCEPT ![r] = [@ EXCEPT !.goal = "sent", !.length = k]]
               ELSE [native[a] EXCEPT ![r].length = k]
    BY <1>1
  <2>5. m[a] = [native[a] EXCEPT ![r] = i]
    <3>1. CASE e
      BY <2>1, <2>4, <3>1
    <3>2. CASE ~e
      <4>1. i = [native[a][r] EXCEPT !.length = k]
        BY <2>1, <3>2
      <4> HIDE DEF i, e
      <4> QED BY <2>1, <2>4, <3>2, <4>1
    <3> QED BY <3>1, <3>2
  <2> HIDE DEF e, g
  <2>6. i \in GoalType /\ i.goal = g /\ i.length = k /\ i.heard = native[a][r].heard
    BY <2>1, <2>2
  <2> HIDE DEF i
  <2> QED BY <2>1, <2>3, <2>5, <2>6
<1>4. m \in NativeType
  <2>1. m = [a \in Actuators |-> m[a]]
    BY <1>1
  <2> QED BY <1>2, <1>3, <2>1
<1>5. SendChanged(native, m, r, send.entered)
  BY <1>0, <1>3 DEF SendChanged
<1>6. send.entered = {} => \A a \in Actuators, t \in Revisions : m[a][t].goal = native[a][t].goal
  BY <1>3 DEF Fresh
<1>7. \A a \in Actuators, t \in Revisions : m[a][t].heard = native[a][t].heard
  BY <1>3
<1> QED BY <1>3, <1>4, <1>5, <1>6, <1>7 DEF m

(***************************************************************************)
(* 4. The observation of a poll's events                                   *)
(***************************************************************************)
LEMMA LeastNatural == \A S \in SUBSET Nat : S # {} => \E n \in S : \A m \in S : n <= m
<1> SUFFICES ASSUME NEW S \in SUBSET Nat, S # {} PROVE \E n \in S : \A m \in S : n <= m
  OBVIOUS
<1> DEFINE R == {ss \in Nat \X Nat : ss[1] < ss[2]}
<1>1. IsWellFoundedOn(R, Nat)
  BY NatLessThanWellFounded DEF OpToRel
<1> HIDE DEF R
<1>2. PICK x \in S : \A y \in S : ~(<<y, x>> \in R)
  BY <1>1, WFMin, Zenon
<1>3. \A y \in S : ~(y < x)
  BY <1>2 DEF R
<1> QED BY <1>3

\* What one step after another computes from base exists.
Chain(n, base, g, f) == f = [i \in 0..n |-> IF i = 0 THEN base ELSE g[i][f[i - 1]]]

LEMMA ChainExists ==
  ASSUME NEW n \in Nat, NEW base, NEW g
  PROVE  \E f : Chain(n, base, g, f)
<1> DEFINE Missing == {j \in Nat : ~\E f : Chain(j, base, g, f)}
<1>1. SUFFICES ASSUME Missing # {} PROVE FALSE
  OBVIOUS
<1>2. PICK j \in Missing : \A m \in Missing : j <= m
  <2>1. Missing \in SUBSET Nat
    OBVIOUS
  <2> HIDE DEF Missing
  <2> QED BY <1>1, <2>1, LeastNatural
<1>3. j \in Nat /\ ~\E f : Chain(j, base, g, f)
  OBVIOUS
<1>4. CASE j = 0
  <2> DEFINE f == [i \in 0..0 |-> base]
  <2>1. f = [i \in 0..0 |-> IF i = 0 THEN base ELSE g[i][f[i - 1]]]
    OBVIOUS
  <2> HIDE DEF f
  <2> QED BY <1>3, <1>4, <2>1 DEF Chain
<1>5. CASE j # 0
  <2>1. j - 1 \in Nat /\ ~(j <= j - 1)
    BY <1>3, <1>5
  <2>2. PICK h : Chain(j - 1, base, g, h)
    BY <1>2, <2>1
  <2> DEFINE f == [i \in 0..j |-> IF i = j THEN g[j][h[j - 1]] ELSE h[i]]
  <2>3. \A i \in 0..j - 1 : h[i] = IF i = 0 THEN base ELSE g[i][h[i - 1]]
    BY <2>2 DEF Chain
  <2>4. \A i \in 0..j : i = j \/ i \in 0..j - 1
    BY <1>3
  <2>5. \A i \in 0..j : i # 0 => i - 1 \in 0..j /\ i - 1 # j
    BY <1>3
  <2>6. \A i \in 0..j : f[i] = IF i = 0 THEN base ELSE g[i][f[i - 1]]
    <3>1. TAKE i \in 0..j
    <3>2. CASE i = 0
      <4>1. f[i] = h[i] /\ i \in 0..j - 1
        BY <1>5, <2>4, <3>2
      <4> QED BY <2>3, <3>2, <4>1
    <3>3. CASE i # 0 /\ i = j
      <4>1. f[i] = g[j][h[j - 1]] /\ f[i - 1] = h[i - 1]
        BY <2>5, <3>3
      <4> QED BY <3>3, <4>1
    <3>4. CASE i # 0 /\ i # j
      <4>1. f[i] = h[i] /\ f[i - 1] = h[i - 1] /\ i \in 0..j - 1
        BY <2>4, <2>5, <3>4
      <4> QED BY <2>3, <3>4, <4>1
    <3> QED BY <3>2, <3>3, <3>4
  <2>7. f = [i \in 0..j |-> f[i]]
    OBVIOUS
  <2> HIDE DEF f
  <2>8. Chain(j, base, g, f)
    BY <2>6, <2>7 DEF Chain
  <2> QED BY <1>3, <2>8
<1> QED BY <1>4, <1>5

\* and stays in a set each step stays in.
LEMMA ChainStays ==
  ASSUME NEW n \in Nat, NEW base, NEW g, NEW f, Chain(n, base, g, f), NEW S, base \in S,
         \A i \in 1..n : \A x \in S : g[i][x] \in S
  PROVE  \A i \in 0..n : f[i] \in S
<1> DEFINE Out == {j \in 0..n : f[j] \notin S}
<1>1. SUFFICES ASSUME Out # {} PROVE FALSE
  OBVIOUS
<1>2. PICK j \in Out : \A m \in Out : j <= m
  <2>1. Out \in SUBSET Nat
    OBVIOUS
  <2> HIDE DEF Out
  <2> QED BY <1>1, <2>1, LeastNatural
<1>3. j \in 0..n /\ f[j] \notin S
  OBVIOUS
<1>4. f[j] = IF j = 0 THEN base ELSE g[j][f[j - 1]]
  BY <1>3 DEF Chain
<1>5. j # 0
  BY <1>3, <1>4
<1>6. j - 1 \in 0..n /\ ~(j <= j - 1) /\ j \in 1..n
  BY <1>3, <1>5
<1>7. f[j - 1] \in S
  BY <1>2, <1>6
<1> QED BY <1>3, <1>4, <1>5, <1>6, <1>7

\* One revision's progress.
OneProgress ==
    [rows : Seq(Rows), predecessor : {None} \cup Revisions, retired : SUBSET Actuators,
     accepted : BOOLEAN, failed : SUBSET Actuators, elapsed : [Actuators -> Nat], count : Nat]
Counted(n, r) == {pr \in OneProgress : RowsCrossed(pr, n, r)}

LEMMA LeastOfTwo ==
  ASSUME NEW f \in [Actuators -> Nat]
  PROVE  /\ Least({f[a] : a \in Actuators}) \in Nat
         /\ \A a \in Actuators : Least({f[a_1] : a_1 \in Actuators}) <= f[a]
<1> DEFINE S == {f[a] : a \in Actuators}
<1>1. S \in SUBSET Nat /\ S # {}
  BY DEF Actuators
<1>2. \E n \in S : \A m \in S : n <= m
  BY <1>1, LeastNatural
<1>3. Least(S) \in S /\ \A m \in S : Least(S) <= m
  BY <1>2 DEF Least
<1> QED BY <1>1, <1>3

\* The count follows the slower of the two references.
LEMMA UpdatedCounted ==
  ASSUME NEW r \in Revisions, NEW pr \in OneProgress,
         pr.rows # <<>>, Len(pr.rows) <= MaxRows,
         \A a \in Actuators :
             /\ native[a][r].length = Len(pr.rows)
             /\ pr.elapsed[a] <= Len(pr.rows)
             /\ pr.elapsed[a] <= native[a][r].heard \/ native[a][r].goal = "succeeded"
             /\ pr.count <= pr.elapsed[a]
  PROVE  Updated(pr) \in Counted(native, r) /\ Updated(pr).rows = pr.rows
<1> DEFINE c == Count(pr)
           u == [pr EXCEPT !.count = c]
<1>1. pr.elapsed \in [Actuators -> Nat]
  BY DEF OneProgress
<1>2. c \in Nat /\ \A a \in Actuators : c <= pr.elapsed[a]
  <2> DEFINE f == pr.elapsed
  <2>1. c = Least({f[a] : a \in Actuators})
    BY DEF Count
  <2> HIDE DEF f, c
  <2>2. f \in [Actuators -> Nat]
    BY <1>1 DEF f
  <2>3. c \in Nat /\ \A a \in Actuators : c <= f[a]
    BY <2>1, <2>2, LeastOfTwo
  <2> QED BY <2>3 DEF f
<1> HIDE DEF c
<1>3. /\ u \in OneProgress /\ u.rows = pr.rows /\ u.elapsed = pr.elapsed /\ u.count = c
  BY <1>2 DEF OneProgress
<1> HIDE DEF u
<1>4. RowsCrossed(pr, native, r) /\ RowsCrossed(u, native, r)
  BY <1>2, <1>3 DEF RowsCrossed
<1>5. Updated(pr) = pr \/ Updated(pr) = u
  BY Zenon DEF Updated, u, c
<1> QED BY <1>3, <1>4, <1>5 DEF Counted

\* An event moves a reference no further than was heard of it, and the rows
\* counted no further than the references.
NextProgress(pr, e) ==
    LET a == e.actuator IN
    CASE e.event = "PAIR_ACCEPTED" -> [pr EXCEPT !.accepted = TRUE]
      [] e.event = "FEEDBACK" -> IF e.value < pr.elapsed[a] THEN pr ELSE [pr EXCEPT !.elapsed[a] = e.value]
      [] e.event = "REJECTED" \/ (e.event = "TERMINAL" /\ e.value # "succeeded") ->
            [pr EXCEPT !.failed = @ \cup {a}]
      [] e.event = "TERMINAL" /\ e.value = "succeeded" /\ a \notin pr.failed ->
            [pr EXCEPT !.elapsed[a] = Len(pr.rows)]
      [] OTHER -> pr

LEMMA ElapsedIs ==
  ASSUME NEW pr \in OneProgress, NEW a \in Actuators, NEW v \in Nat
  PROVE  LET u == [pr EXCEPT !.elapsed[a] = v] IN
         /\ u \in OneProgress /\ u.rows = pr.rows /\ u.count = pr.count
         /\ u.elapsed[a] = v /\ \A b \in Actuators \ {a} : u.elapsed[b] = pr.elapsed[b]
<1> DEFINE f == [pr.elapsed EXCEPT ![a] = v]
           u == [pr EXCEPT !.elapsed = f]
<1>1. pr.elapsed \in [Actuators -> Nat]
  BY DEF OneProgress
<1>2. /\ f \in [Actuators -> Nat] /\ f[a] = v /\ \A b \in Actuators \ {a} : f[b] = pr.elapsed[b]
  BY <1>1
<1> HIDE DEF f
<1>3. u \in OneProgress /\ u.rows = pr.rows /\ u.count = pr.count /\ u.elapsed = f
  BY <1>2 DEF OneProgress
<1>4. u = [pr EXCEPT !.elapsed[a] = v]
  BY DEF OneProgress, f
<1> HIDE DEF u
<1> QED BY <1>2, <1>3, <1>4

LEMMA ObservedCounted ==
  ASSUME NEW r \in Revisions, NEW pr \in Counted(native, r), pr.rows # <<>>, NEW e \in TrueEvents, e.revision = r,
         native \in NativeType, \A a \in Actuators : native[a][r].heard <= native[a][r].length
  PROVE  Observed(pr, e) \in Counted(native, r) /\ Observed(pr, e).rows = pr.rows
<1> DEFINE n == NextProgress(pr, e)
           a == e.actuator
           l == Len(pr.rows)
<1>1. Observed(pr, e) = Updated(n)
  BY Zenon DEF Observed, NextProgress
<1>2. pr \in OneProgress /\ RowsCrossed(pr, native, r) /\ pr.rows \in Seq(Rows)
  BY DEF Counted, OneProgress
<1>3. l \in Nat
  BY <1>2, LenProperties
<1>4. /\ l <= MaxRows
      /\ \A b \in Actuators :
             /\ native[b][r].length = l /\ pr.elapsed[b] <= l
             /\ pr.elapsed[b] <= native[b][r].heard \/ native[b][r].goal = "succeeded"
             /\ pr.count <= pr.elapsed[b]
  BY <1>2 DEF RowsCrossed
<1>5. /\ pr.count \in Nat /\ \A b \in Actuators : pr.elapsed[b] \in Nat /\ native[b][r].heard \in Nat
  BY <1>2 DEF OneProgress, NativeType
<1>6. /\ e.event \in Kinds /\ EventTrue(e)
  BY DEF TrueEvents, EventType
<1> HIDE DEF a, l, n
<1>7. /\ n \in OneProgress /\ n.rows = pr.rows /\ n.count = pr.count
      /\ \A b \in Actuators :
             /\ n.elapsed[b] <= l
             /\ n.elapsed[b] <= native[b][r].heard \/ native[b][r].goal = "succeeded"
             /\ pr.count <= n.elapsed[b]
  <2>1. CASE e.event = "PAIR_ACCEPTED"
    <3>1. n = [pr EXCEPT !.accepted = TRUE]
      BY <2>1 DEF n, NextProgress
    <3>2. n \in OneProgress /\ n.rows = pr.rows /\ n.count = pr.count /\ n.elapsed = pr.elapsed
      BY <1>2, <3>1 DEF OneProgress
    <3> QED BY <1>4, <3>2
  <2>2. CASE e.event = "FEEDBACK"
    <3>1. a \in Actuators /\ e.value \in Nat /\ e.value <= native[a][r].heard
      BY <1>6, <2>2 DEF EventTrue, a
    <3>2. n = IF e.value < pr.elapsed[a] THEN pr ELSE [pr EXCEPT !.elapsed[a] = e.value]
      BY <2>2 DEF n, NextProgress, a
    <3>3. CASE e.value < pr.elapsed[a]
      BY <1>2, <1>4, <3>2, <3>3
    <3>4. CASE ~(e.value < pr.elapsed[a])
      <4>1. n = [pr EXCEPT !.elapsed[a] = e.value]
        BY <3>2, <3>4
      <4>2. /\ n \in OneProgress /\ n.rows = pr.rows /\ n.count = pr.count
            /\ n.elapsed[a] = e.value /\ \A b \in Actuators \ {a} : n.elapsed[b] = pr.elapsed[b]
        BY <1>2, <3>1, <4>1, ElapsedIs
      <4>3. native[a][r].heard <= l /\ native[a][r].heard \in Nat /\ pr.count <= pr.elapsed[a] /\ pr.elapsed[a] \in Nat
        BY <1>4, <1>5, <3>1
      <4>4. e.value <= l /\ pr.count <= e.value
        BY <1>3, <1>5, <3>1, <3>4, <4>3
      <4> QED BY <1>4, <3>1, <4>2, <4>4
    <3> QED BY <3>3, <3>4
  <2>3. CASE e.event = "REJECTED" \/ (e.event = "TERMINAL" /\ e.value # "succeeded")
    <3>1. a \in Actuators
      BY <1>6, <2>3 DEF EventTrue, a
    <3>2. n = [pr EXCEPT !.failed = @ \cup {a}]
      BY <2>3 DEF n, NextProgress, a
    <3>3. n \in OneProgress /\ n.rows = pr.rows /\ n.count = pr.count /\ n.elapsed = pr.elapsed
      BY <1>2, <3>1, <3>2 DEF OneProgress
    <3> QED BY <1>4, <3>3
  <2>4. CASE e.event = "TERMINAL" /\ e.value = "succeeded"
    <3>1. a \in Actuators /\ native[a][r].goal = "succeeded"
      BY <1>6, <2>4 DEF EventTrue, a
    <3>2. n = IF a \notin pr.failed THEN [pr EXCEPT !.elapsed[a] = l] ELSE pr
      BY <2>4 DEF n, NextProgress, a, l
    <3>3. CASE a \in pr.failed
      BY <1>2, <1>4, <3>2, <3>3
    <3>4. CASE a \notin pr.failed
      <4>1. n = [pr EXCEPT !.elapsed[a] = l]
        BY <3>2, <3>4
      <4>2. /\ n \in OneProgress /\ n.rows = pr.rows /\ n.count = pr.count
            /\ n.elapsed[a] = l /\ \A b \in Actuators \ {a} : n.elapsed[b] = pr.elapsed[b]
        BY <1>2, <1>3, <3>1, <4>1, ElapsedIs
      <4>3. pr.count <= l
        BY <1>3, <1>4, <1>5, <3>1
      <4> QED BY <1>3, <1>4, <3>1, <4>2, <4>3
    <3> QED BY <3>3, <3>4
  <2>5. CASE e.event = "ACCEPTED"
    <3>1. n = pr
      BY <2>5 DEF n, NextProgress
    <3> QED BY <1>2, <1>4, <3>1
  <2> QED BY <1>6, <2>1, <2>2, <2>3, <2>4, <2>5 DEF Kinds
<1>8. Updated(n) \in Counted(native, r) /\ Updated(n).rows = n.rows
  <2>1. l = Len(n.rows) /\ n.rows # <<>>
    BY <1>7 DEF l
  <2> QED BY <1>4, <1>7, <2>1, UpdatedCounted
<1> QED BY <1>1, <1>7, <1>8

\* The second pass, one event after the other.
StepOf(events, mine, i, x) ==
    IF i \notin mine THEN x ELSE [x EXCEPT ![events[i].revision] = Observed(@, events[i])]
Mine(events) == {i \in DOMAIN events : events[i].revision \in Submissions}
Failures(events) ==
    {i \in Mine(events) : Fails(Retire(events)[events[i].revision], events[i])}
Upto(events) == IF Failures(events) = {} THEN Len(events) ELSE Least(Failures(events))
IsSeen(events, n, f) ==
    f = [i \in 0..n |-> IF i = 0 THEN Retire(events)
                        ELSE IF i \notin Mine(events) THEN f[i - 1]
                        ELSE [f[i - 1] EXCEPT ![events[i].revision] = Observed(@, events[i])]]

LEMMA ObserveIs ==
  ASSUME NEW events
  PROVE  /\ Observe(events).progress = (CHOOSE f : IsSeen(events, Upto(events), f))[Upto(events)]
         /\ Observe(events).raised <=> Failures(events) # {}
<1> DEFINE P == (CHOOSE f : IsSeen(events, Upto(events), f))[Upto(events)]
           J == Failures(events) # {}
<1>1. Observe(events) = [progress |-> P, raised |-> J]
  BY Zenon DEF Observe, IsSeen, Upto, Failures, Mine
<1>2. J <=> Failures(events) # {}
  OBVIOUS
<1> HIDE DEF P, J
<1>3. Observe(events).progress = P /\ Observe(events).raised = J
  BY <1>1
<1> QED BY <1>2, <1>3, Zenon DEF P

AllCounted == {x \in ProgressType : \A r \in Revisions : RowsCrossed(x[r], native, r)}
SameRows(x) == \A r \in Revisions : x[r].rows = progress[r].rows
Kept0 == {x \in AllCounted : SameRows(x)}

LEMMA RetireKeeps ==
  ASSUME NEW events \in Seq(TrueEvents), progress \in AllCounted
  PROVE  Retire(events) \in Kept0
<1> DEFINE x == Retire(events)
           more(r) == UNION {IF e.event = "PAIR_ACCEPTED" THEN Actuators ELSE {e.actuator} :
                                e \in {f \in {events[i] : i \in DOMAIN events} : Replaces(f, r)}}
<1>1. x = [r \in Revisions |-> IF r \notin Submissions THEN progress[r]
                               ELSE [progress[r] EXCEPT !.retired = @ \cup more(r)]]
  BY Zenon DEF Retire
<1> HIDE DEF x
<1>2. \A i \in DOMAIN events : events[i] \in TrueEvents
  <2>1. DOMAIN events = 1..Len(events) /\ \A i \in 1..Len(events) : events[i] \in TrueEvents
    BY LenProperties, ElementOfSeq
  <2> QED BY <2>1
<1>3. ASSUME NEW r \in Revisions
      PROVE  more(r) \in SUBSET Actuators
  <2>1. \A e \in TrueEvents : Replaces(e, r) => e.event = "PAIR_ACCEPTED" \/ e.actuator \in Actuators
    BY DEF Replaces, TrueEvents, EventTrue
  <2> QED BY <1>2, <2>1
<1> HIDE DEF more
<1>4. progress \in [Revisions -> OneProgress] /\ \A r \in Revisions : RowsCrossed(progress[r], native, r)
  BY Zenon DEF AllCounted, ProgressType, OneProgress
<1>5. ASSUME NEW r \in Revisions
      PROVE  x[r] \in OneProgress /\ x[r].rows = progress[r].rows /\ RowsCrossed(x[r], native, r)
  <2> DEFINE p == progress[r]
             R == p.retired \cup more(r)
  <2>1. p \in OneProgress /\ RowsCrossed(p, native, r)
    BY <1>4
  <2>2. x[r] = p \/ x[r] = [p EXCEPT !.retired = R]
    BY <1>1
  <2>3. R \in SUBSET Actuators
    BY <1>3, <2>1 DEF OneProgress
  <2> HIDE DEF p, R
  <2>4. x[r] \in OneProgress /\ x[r].rows = p.rows /\ x[r].count = p.count /\ x[r].elapsed = p.elapsed
    BY <2>1, <2>2, <2>3 DEF OneProgress
  <2>5. RowsCrossed(x[r], native, r)
    BY <2>1, <2>4, Zenon DEF RowsCrossed
  <2> QED BY <2>4, <2>5 DEF p
<1>6. x \in [Revisions -> OneProgress]
  BY <1>1, <1>5
<1>7. x \in ProgressType
  BY <1>6, Zenon DEF ProgressType, OneProgress
<1>8. x \in Kept0
  BY <1>5, <1>7 DEF Kept0, AllCounted, SameRows
<1> QED BY <1>8 DEF x

LEMMA StepKeeps ==
  ASSUME NEW events \in Seq(TrueEvents), NEW x \in Kept0, NEW i \in 1..Len(events),
         native \in NativeType, NativeOK(native, port)
  PROVE  StepOf(events, Mine(events), i, x) \in Kept0
<1> DEFINE y == StepOf(events, Mine(events), i, x)
           e == events[i]
           r == e.revision
           o == Observed(x[r], e)
<1>1. CASE i \notin Mine(events)
  BY <1>1 DEF StepOf
<1>2. CASE i \in Mine(events)
  <2>1. e \in TrueEvents
    BY ElementOfSeq
  <2>2. r \in Submissions
    BY <1>2 DEF Mine
  <2>3. y = [x EXCEPT ![r] = o]
    BY <1>2, Zenon DEF StepOf
  <2> HIDE DEF y, e
  <2>4. r \in Revisions /\ progress[r].rows # <<>>
    BY <2>2 DEF Submissions
  <2>5. x \in [Revisions -> OneProgress] /\ \A t \in Revisions : x[t].rows = progress[t].rows /\ RowsCrossed(x[t], native, t)
    BY Zenon DEF Kept0, AllCounted, SameRows, ProgressType, OneProgress
  <2>6. x[r] \in Counted(native, r) /\ x[r].rows # <<>>
    BY <2>4, <2>5 DEF Counted
  <2>7. \A a \in Actuators : native[a][r].heard <= native[a][r].length
    BY <2>4 DEF NativeOK
  <2> HIDE DEF o, r
  <2>8. o \in Counted(native, r) /\ o.rows = x[r].rows
    BY <2>1, <2>4, <2>6, <2>7, ObservedCounted DEF o, r
  <2>9. y \in [Revisions -> OneProgress] /\ \A t \in Revisions : y[t].rows = progress[t].rows /\ RowsCrossed(y[t], native, t)
    <3>1. o \in OneProgress /\ RowsCrossed(o, native, r)
      BY <2>8 DEF Counted
    <3>2. y[r] = o /\ \A t \in Revisions \ {r} : y[t] = x[t]
      BY <2>3, <2>4, <2>5
    <3>3. y \in [Revisions -> OneProgress]
      BY <2>3, <2>5, <3>1
    <3>4. ASSUME NEW t \in Revisions
          PROVE  y[t].rows = progress[t].rows /\ RowsCrossed(y[t], native, t)
      <4>1. CASE t = r
        BY <2>4, <2>5, <2>8, <3>1, <3>2, <4>1
      <4>2. CASE t # r
        BY <2>5, <3>2, <4>2
      <4> QED BY <4>1, <4>2
    <3> QED BY <3>3, <3>4
  <2>10. y \in ProgressType
    BY <2>9, Zenon DEF ProgressType, OneProgress
  <2>11. y \in Kept0
    BY <2>9, <2>10 DEF Kept0, AllCounted, SameRows
  <2> QED BY <2>11 DEF y
<1> QED BY <1>1, <1>2

\* A poll's events are observed: the rows stay, and what is counted is crossed.
LEMMA ObserveKeeps ==
  ASSUME NEW events \in Seq(TrueEvents), native \in NativeType, NativeOK(native, port), progress \in AllCounted,
         ~Observe(events).raised
  PROVE  Observe(events).progress \in Kept0
<1> DEFINE n == Len(events)
           base == Retire(events)
           g == [i \in 1..n |-> [x \in Kept0 |-> StepOf(events, Mine(events), i, x)]]
<1>1. Upto(events) = n
  BY ObserveIs DEF Upto
<1>2. n \in Nat
  BY LenProperties
<1>3. base \in Kept0
  BY RetireKeeps
<1>4. \A i \in 1..n : \A x \in Kept0 : g[i][x] = StepOf(events, Mine(events), i, x) /\ g[i][x] \in Kept0
  <2>1. \A i \in 1..n : \A x \in Kept0 : g[i][x] = StepOf(events, Mine(events), i, x)
    OBVIOUS
  <2> QED BY <2>1, StepKeeps
<1> HIDE DEF g, n, base
<1>5. PICK f : Chain(n, base, g, f)
  BY <1>2, ChainExists
<1>6. \A i \in 0..n : f[i] \in Kept0
  BY <1>2, <1>3, <1>4, <1>5, ChainStays
<1>7. IsSeen(events, n, f)
  <2>1. \A i \in 0..n : i # 0 => i \in 1..n /\ i - 1 \in 0..n
    BY <1>2
  <2>2. \A i \in 0..n : i # 0 => g[i][f[i - 1]] = StepOf(events, Mine(events), i, f[i - 1])
    BY <1>4, <1>6, <2>1
  <2>3. \A i \in 0..n : f[i] = IF i = 0 THEN base ELSE StepOf(events, Mine(events), i, f[i - 1])
    BY <1>5, <2>2 DEF Chain
  <2>4. f = [i \in 0..n |-> f[i]]
    BY <1>5 DEF Chain
  <2>5. f = [i \in 0..n |-> IF i = 0 THEN base ELSE StepOf(events, Mine(events), i, f[i - 1])]
    BY <2>3, <2>4
  <2> QED BY <2>5, Zenon DEF IsSeen, StepOf, base
<1> DEFINE h == CHOOSE u : IsSeen(events, n, u)
<1>8. IsSeen(events, n, h)
  BY <1>7, Zenon
<1> HIDE DEF h
<1>9. Observe(events).progress = h[n]
  BY <1>1, ObserveIs, Zenon DEF h
<1>10. \A i \in 0..n : h[i] \in Kept0
  <2> DEFINE Out == {j \in 0..n : h[j] \notin Kept0}
  <2>1. h = [i \in 0..n |-> IF i = 0 THEN base ELSE StepOf(events, Mine(events), i, h[i - 1])]
    BY <1>8, Zenon DEF IsSeen, StepOf, base
  <2>2. SUFFICES ASSUME Out # {} PROVE FALSE
    OBVIOUS
  <2>3. PICK j \in Out : \A m \in Out : j <= m
    <3>1. Out \in SUBSET Nat
      OBVIOUS
    <3> HIDE DEF Out
    <3> QED BY <2>2, <3>1, LeastNatural
  <2>4. j \in 0..n /\ h[j] \notin Kept0
    OBVIOUS
  <2>5. h[j] = IF j = 0 THEN base ELSE StepOf(events, Mine(events), j, h[j - 1])
    BY <2>1, <2>4
  <2>6. j # 0
    BY <1>3, <2>4, <2>5
  <2>7. j - 1 \in 0..n /\ ~(j <= j - 1) /\ j \in 1..n
    BY <1>2, <2>4, <2>6
  <2>8. h[j - 1] \in Kept0
    BY <2>3, <2>7
  <2>9. StepOf(events, Mine(events), j, h[j - 1]) \in Kept0
    BY <2>7, <2>8, StepKeeps DEF n
  <2> QED BY <2>4, <2>5, <2>6, <2>9
<1> QED BY <1>2, <1>9, <1>10

(***************************************************************************)
(* 5. The actions of the run                                               *)
(***************************************************************************)
StreamPart == native \in NativeType /\ port \in PortType /\ StreamOK(native, port)
RunPart ==
    /\ state \in {"APPROVED", "EXECUTING", "BLOCKED"} /\ drain \in {"none", "pending", "terminal"}
    /\ cancelError \in BOOLEAN /\ attempted \in BOOLEAN /\ checked \in BOOLEAN
    /\ scene \in {"none", "NO_DISPATCH", "UNKNOWN"}
    /\ geometry \in {"none", "pending", "ready"}
QueuePart ==
    /\ QueueOK
    /\ queue.cursor \in 0..Len(queue.rows) /\ queue.chunk \in 0..MaxRows
    /\ acked \in 0..MaxRows
Parts ==
    /\ StreamPart /\ faults \in 0..MaxFaults
    /\ RunPart /\ LifeOK /\ SceneOK /\ ProgressOK /\ QueuePart

LEMMA InvParts == Inv => Parts
<1>1. StreamTypeOK => native \in NativeType /\ port \in PortType /\ faults \in 0..MaxFaults
  BY Zenon DEF StreamTypeOK, NativeType, PortType, ItemType, PairType
<1> QED BY <1>1, Zenon DEF Inv, TypeOK, Parts, StreamPart, RunPart, QueuePart

\* the rows counted are rows of the revision
LEMMA CountBound ==
  ASSUME NEW n, NEW r, NEW pr \in OneProgress, RowsCrossed(pr, n, r)
  PROVE  pr.count \in 0..Len(pr.rows)
<1>1. pr.rows \in Seq(Rows) /\ pr.count \in Nat /\ pr.elapsed \in [Actuators -> Nat]
  BY DEF OneProgress
<1> DEFINE l == Len(pr.rows)
<1>2. l \in Nat
  BY <1>1, LenProperties
<1>3. CASE pr.rows = <<>>
  BY <1>2, <1>3 DEF RowsCrossed
<1>4. CASE pr.rows # <<>>
  <2>1. "arm" \in Actuators
    BY DEF Actuators
  <2>2. pr.elapsed["arm"] <= l /\ pr.count <= pr.elapsed["arm"]
    BY <1>4, <2>1 DEF RowsCrossed
  <2>3. pr.elapsed["arm"] \in Nat
    BY <1>1, <2>1
  <2> QED BY <1>1, <1>2, <2>2, <2>3
<1> QED BY <1>3, <1>4

LEMMA PartsInv == Parts => Inv
<1> SUFFICES ASSUME Parts PROVE Inv
  OBVIOUS
<1>1. StreamTypeOK
  BY Zenon DEF Parts, StreamPart, StreamTypeOK, NativeType, PortType, ItemType, PairType
<1>2. \A r \in Revisions : progress[r].count \in 0..Len(progress[r].rows)
  <2>1. progress \in [Revisions -> OneProgress] /\ \A r \in Revisions : RowsCrossed(progress[r], native, r)
    BY Zenon DEF Parts, ProgressOK, ProgressType, OneProgress
  <2> QED BY <2>1, CountBound
<1>3. cand.status \in {"none", "CHECKING", "CHECKED"} /\ cand.predecessor \in {None} \cup Revisions
  BY DEF Parts, QueuePart, QueueOK
<1>4. TypeOK
  BY <1>1, <1>2, <1>3, Zenon DEF Parts, RunPart, QueuePart, TypeOK
<1> QED BY <1>4, Zenon DEF Inv, Parts, StreamPart, QueuePart

\* nothing is known of a new candidate, a new revision or a new queue
LEMMA NoneOK ==
  /\ NoCandidate \in [rows : Seq(Rows), status : {"none", "CHECKING", "CHECKED"},
                      predecessor : {None} \cup Revisions]
  /\ Len(NoCandidate.rows) = 0 /\ NoCandidate.status = "none"
  /\ NoProgress \in OneProgress /\ NoProgress.rows = <<>> /\ NoProgress.count = 0 /\ Len(NoProgress.rows) = 0
  /\ EmptyQueue \in [rows : Seq(Rows), cursor : Nat, chunk : Nat]
  /\ Len(EmptyQueue.rows) = 0 /\ EmptyQueue.cursor = 0 /\ EmptyQueue.chunk = 0
<1>1. <<>> \in Seq(Rows) /\ Len(<<>>) = 0
  BY EmptySeq
<1>2. NoCandidate.rows = <<>> /\ NoProgress.rows = <<>> /\ EmptyQueue.rows = <<>>
  BY DEF NoCandidate, NoProgress, EmptyQueue
<1>3. NoCandidate \in [rows : Seq(Rows), status : {"none", "CHECKING", "CHECKED"},
                       predecessor : {None} \cup Revisions]
      /\ NoCandidate.status = "none"
  BY <1>1 DEF NoCandidate
<1>4. NoProgress \in OneProgress /\ NoProgress.count = 0
  <2> DEFINE f == [a \in Actuators |-> 0]
  <2>1. f \in [Actuators -> Nat]
    OBVIOUS
  <2>2. NoProgress = [rows |-> <<>>, predecessor |-> None, retired |-> {}, accepted |-> FALSE,
                      failed |-> {}, elapsed |-> f, count |-> 0]
    BY Zenon DEF NoProgress
  <2> HIDE DEF f
  <2> QED BY <1>1, <2>1, <2>2 DEF OneProgress
<1>5. EmptyQueue \in [rows : Seq(Rows), cursor : Nat, chunk : Nat] /\ EmptyQueue.cursor = 0 /\ EmptyQueue.chunk = 0
  BY <1>1 DEF EmptyQueue
<1> QED BY <1>1, <1>2, <1>3, <1>4, <1>5

LEMMA NoProgressOK ==
  ASSUME NEW n
  PROVE  /\ [r \in Revisions |-> NoProgress] \in ProgressType
         /\ \A r \in Revisions : RowsCrossed(NoProgress, n, r)
<1>1. [r \in Revisions |-> NoProgress] \in [Revisions -> OneProgress]
  BY NoneOK
<1>2. \A r \in Revisions : RowsCrossed(NoProgress, n, r)
  BY NoneOK, LearnedAssumption DEF RowsCrossed
<1> QED BY <1>1, <1>2, Zenon DEF ProgressType, OneProgress

\* what the controllers are once a blocked run hears only evidence
Silenced(n) == [a \in Actuators |-> [r \in Revisions |-> [n[a][r] EXCEPT !.heard = 0]]]

LEMMA SilencedIs ==
  ASSUME NEW n \in NativeType
  PROVE  /\ Silenced(n) \in NativeType
         /\ \A a \in Actuators, r \in Revisions :
               /\ Silenced(n)[a][r].goal = n[a][r].goal /\ Silenced(n)[a][r].length = n[a][r].length
               /\ Silenced(n)[a][r].heard = 0
<1> DEFINE m == Silenced(n)
           Goals == {"unsent", "refused", "unread"} \cup Running \cup Ended
           GoalType == [goal : Goals, heard : Nat, length : Nat]
<1>1. NativeType = [Actuators -> [Revisions -> GoalType]]
  BY DEF NativeType
<1> HIDE DEF Goals
<1>2. m = [a \in Actuators |-> [r \in Revisions |-> [n[a][r] EXCEPT !.heard = 0]]]
  BY DEF Silenced
<1> HIDE DEF m
<1>3. ASSUME NEW a \in Actuators, NEW r \in Revisions
      PROVE  /\ m[a][r] \in GoalType /\ m[a][r].goal = n[a][r].goal /\ m[a][r].length = n[a][r].length
             /\ m[a][r].heard = 0
  <2>1. m[a][r] = [n[a][r] EXCEPT !.heard = 0]
    BY <1>2
  <2>2. n[a][r] \in GoalType
    BY <1>1
  <2> QED BY <2>1, <2>2
<1>4. \A a \in Actuators : m[a] \in [Revisions -> GoalType]
  BY <1>2, <1>3
<1>5. m \in NativeType
  BY <1>1, <1>2, <1>4
<1> QED BY <1>3, <1>5 DEF m

\* A fault leaves a run blocked, and its port fenced when it was open.
Faulting(n, p, tried) ==
    /\ n \in NativeType /\ p \in PortType /\ StreamOK(n, p) /\ tried \in BOOLEAN
    /\ ~p.open => p = ClosedPort /\ drain # "pending"
    /\ ~tried => \A a \in Actuators, r \in Revisions : n[a][r].goal = "unsent"

LEMMA FaultParts ==
  ASSUME Parts, NEW n, NEW p, NEW tried, Faulting(n, p, tried), Fault(n, p, tried),
         faults' \in 0..MaxFaults
  PROVE  Parts'
<1> DEFINE m == Silenced(n)
<1>1. /\ native' = m /\ state' = "BLOCKED" /\ attempted' = tried
      /\ scene' = IF tried THEN "UNKNOWN" ELSE "NO_DISPATCH"
      /\ cand' = NoCandidate /\ progress' = [r \in Revisions |-> NoProgress]
      /\ queue' = EmptyQueue /\ acked' = 0
  BY Zenon DEF Fault, Retired, Preserve, Silenced
<1>2. /\ p.open => cancelError' = TRUE /\ drain' = "pending" /\ port' = Cancel(p) /\ checked' = FALSE
      /\ ~p.open => port' = p /\ cancelError' = cancelError /\ drain' = drain /\ checked' = checked
      /\ geometry' = geometry
  BY DEF Fault, Fence, CloseGeometry
<1>3. /\ n \in NativeType /\ p \in PortType /\ StreamOK(n, p) /\ tried \in BOOLEAN
      /\ ~p.open => p = ClosedPort /\ drain # "pending"
      /\ ~tried => \A a \in Actuators, r \in Revisions : n[a][r].goal = "unsent"
  BY DEF Faulting
<1>4. /\ m \in NativeType
      /\ \A a \in Actuators, r \in Revisions :
            m[a][r].goal = n[a][r].goal /\ m[a][r].length = n[a][r].length /\ m[a][r].heard = 0
  BY <1>3, SilencedIs
<1> HIDE DEF m
<1>5. StreamOK(m, p)
  <2>1. Moved(n, m)
    <3>1. ASSUME NEW a \in Actuators, NEW r \in Revisions
          PROVE  /\ m[a][r].length = n[a][r].length /\ m[a][r].heard <= m[a][r].length
                 /\ m[a][r].goal \in Running => n[a][r].goal \in Running
                 /\ m[a][r].length = 0 => m[a][r].goal = "unsent"
      <4>1. n[a][r].length \in Nat
        BY <1>3 DEF NativeType
      <4>2. n[a][r].length = 0 => n[a][r].goal = "unsent"
        BY <1>3 DEF StreamOK, NativeOK
      <4> QED BY <1>4, <4>1, <4>2
    <3> QED BY <3>1 DEF Moved
  <2> QED BY <1>3, <2>1, StreamMoved
<1>6. /\ port' \in PortType /\ StreamOK(m, port') /\ port'.open = p.open
  <2>1. CASE p.open
    <3>1. CancelChanged(p, port')
      BY <1>2, <1>3, <2>1, CancelIs
    <3>2. port' \in PortType /\ port'.open = p.open
      BY <3>1 DEF CancelChanged
    <3> QED BY <1>3, <1>5, <3>1, <3>2, StreamCancel
  <2>2. CASE ~p.open
    BY <1>2, <1>3, <1>5, <2>2
  <2> QED BY <2>1, <2>2
<1>7. StreamPart'
  BY <1>1, <1>4, <1>6 DEF StreamPart
<1>8. RunPart'
  BY <1>1, <1>2, <1>3 DEF RunPart, Parts
<1>9. LifeOK'
  <2>1. p.open \in BOOLEAN
    BY <1>3 DEF PortType
  <2>2. ~port'.open => port' = ClosedPort
    BY <1>2, <1>3, <1>6, <2>1
  <2>3. ~cancelError' => ~port'.open
    BY <1>2, <1>6, <2>1
  <2>4. drain' = "pending" => port'.open
    BY <1>2, <1>3, <1>6, <2>1
  <2> QED BY <1>1, <2>2, <2>3, <2>4 DEF LifeOK
<1>10. SceneOK'
  BY <1>1, <1>3, <1>4 DEF SceneOK
<1>11. ProgressOK'
  <2>1. \A r \in Revisions : progress'[r] = NoProgress
    BY <1>1
  <2>2. progress' \in ProgressType /\ \A r \in Revisions : RowsCrossed(progress'[r], native', r)
    BY <1>1, <2>1, NoProgressOK
  <2> QED BY <2>2 DEF ProgressOK
<1>12. QueuePart'
  <2>1. 0 \in 0..MaxRows /\ 0 <= MaxRows
    BY LearnedAssumption
  <2> QED BY <1>1, <2>1, NoneOK DEF QueuePart, QueueOK
<1> QED BY <1>7, <1>8, <1>9, <1>10, <1>11, <1>12 DEF Parts

LEMMA InitParts == Init => Parts
<1> SUFFICES ASSUME Init PROVE Parts
  OBVIOUS
<1> DEFINE g == [goal |-> "unsent", heard |-> 0, length |-> 0]
<1>1. native = [a \in Actuators |-> [r \in Revisions |-> g]] /\ port = ClosedPort /\ faults = 0
  BY Zenon DEF Init, StreamInit
<1>2. native \in NativeType
  BY <1>1 DEF NativeType
<1>3. \A a \in Actuators, r \in Revisions : native[a][r] = g
  BY <1>1
<1>4. NativeOK(native, ClosedPort)
  <2>1. \A a \in Actuators, r \in Revisions : native[a][r].length > 0 <=> r <= 0
    BY <1>3 DEF Revisions
  <2>2. 0 \in 0..MaxRevisions
    BY StreamAssumption
  <2>3. \A a \in Actuators, r \in Revisions : ClosedPort.item[a][r].handle = "none"
    BY NewPortIs
  <2> QED BY <1>3, <2>1, <2>2, <2>3 DEF NativeOK
<1>5. StreamPart
  <2>1. \A a \in Actuators, r \in Revisions : native[a][r].goal \notin Running
    BY <1>3 DEF Running
  <2>2. StreamOK(native, ClosedPort)
    BY <1>4, <2>1, NewPortStream
  <2> QED BY <1>1, <1>2, <2>2, PortsAre DEF StreamPart
<1>6. RunPart /\ faults \in 0..MaxFaults
  <2>1. /\ state = "APPROVED" /\ cancelError = FALSE /\ drain = "none" /\ attempted = FALSE /\ scene = "none"
        /\ geometry = "none" /\ checked = FALSE
    BY Zenon DEF Init
  <2>2. RunPart
    BY <2>1 DEF RunPart
  <2>3. faults = 0
    BY <1>1
  <2>4. faults \in 0..MaxFaults
    BY <2>3, StreamAssumption
  <2> QED BY <2>2, <2>4
<1>7. LifeOK
  BY <1>1, <1>3, PortsAre DEF Init, LifeOK
<1>8. SceneOK
  BY <1>3 DEF Init, SceneOK
<1>9. ProgressOK
  <2>1. progress = [r \in Revisions |-> NoProgress]
    BY DEF Init
  <2>2. \A r \in Revisions : progress[r] = NoProgress
    BY <2>1
  <2> QED BY <2>1, <2>2, NoProgressOK DEF ProgressOK
<1>10. QueuePart
  <2>1. 0 \in 0..MaxRows /\ 0 <= MaxRows
    BY LearnedAssumption
  <2> QED BY <2>1, NoneOK DEF Init, QueuePart, QueueOK
<1> QED BY <1>5, <1>6, <1>7, <1>8, <1>9, <1>10 DEF Parts

LEMMA ExecuteParts == Parts /\ Execute => Parts'
<1> SUFFICES ASSUME Parts, Execute PROVE Parts'
  OBVIOUS
<1>1. state = "APPROVED" /\ faults' = faults
  BY DEF Execute
<1>2. /\ ~port.open /\ ~attempted /\ drain # "pending" /\ port = ClosedPort /\ scene = "none" /\ ~cancelError
      /\ \A a \in Actuators, r \in Revisions : native[a][r].length = 0
  BY <1>1 DEF Parts, LifeOK
<1>3. native \in NativeType /\ StreamOK(native, port)
  BY DEF Parts, StreamPart
<1>4. \A a \in Actuators, r \in Revisions : native[a][r].goal = "unsent"
  BY <1>2, <1>3 DEF StreamOK, NativeOK
<1>5. StreamOK(native, OpenPort)
  <2>1. \A a \in Actuators, r \in Revisions : native[a][r].goal \notin Running
    BY <1>4 DEF Running
  <2>2. NativeOK(native, port)
    BY <1>3 DEF StreamOK
  <2> QED BY <2>1, <2>2, NewPortStream
<1>6. CASE Fault(native, ClosedPort, FALSE)
  <2>1. Faulting(native, ClosedPort, FALSE)
    BY <1>2, <1>3, <1>4, PortsAre DEF Faulting
  <2>2. faults' \in 0..MaxFaults
    BY <1>1 DEF Parts
  <2> QED BY <1>6, <2>1, <2>2, FaultParts
<1>7. CASE Fault(native, OpenPort, FALSE)
  <2>1. Faulting(native, OpenPort, FALSE)
    BY <1>3, <1>4, <1>5, PortsAre DEF Faulting
  <2>2. faults' \in 0..MaxFaults
    BY <1>1 DEF Parts
  <2> QED BY <1>7, <2>1, <2>2, FaultParts
<1>8. CASE /\ state' = "EXECUTING" /\ port' = OpenPort /\ StartGeometry
           /\ UNCHANGED <<native, cancelError, drain, attempted, scene, checked, cand, progress, queue, acked>>
  <2>1. /\ native' = native /\ cancelError' = cancelError /\ drain' = drain /\ attempted' = attempted
        /\ scene' = scene /\ checked' = checked /\ cand' = cand /\ progress' = progress /\ queue' = queue
        /\ acked' = acked /\ state' = "EXECUTING" /\ port' = OpenPort /\ geometry' = "pending"
    BY <1>8 DEF StartGeometry
  <2>2. StreamPart'
    BY <1>3, <1>5, <2>1, PortsAre DEF StreamPart
  <2>3. RunPart' /\ faults' \in 0..MaxFaults
    BY <1>1, <2>1 DEF Parts, RunPart
  <2>4. LifeOK'
    BY <1>2, <2>1, PortsAre DEF LifeOK
  <2>5. SceneOK'
    BY <1>2, <1>4, <2>1 DEF SceneOK
  <2>6. ProgressOK'
    BY <2>1, Zenon DEF Parts, ProgressOK
  <2>7. QueuePart'
    BY <2>1, Zenon DEF Parts, QueuePart, QueueOK
  <2> QED BY <2>2, <2>3, <2>4, <2>5, <2>6, <2>7 DEF Parts
<1> QED BY <1>6, <1>7, <1>8, Zenon DEF Execute

\* The owner's and the inference thread's steps change the queue, the
\* candidate and nothing else.
OwnerFrame ==
    /\ native' = native /\ port' = port /\ state' = state /\ cancelError' = cancelError /\ drain' = drain
    /\ attempted' = attempted /\ scene' = scene /\ geometry' = geometry /\ progress' = progress

LEMMA OwnerParts ==
  ASSUME Parts, OwnerFrame, faults' \in 0..MaxFaults, checked' \in BOOLEAN, QueuePart'
  PROVE  Parts'
<1>1. StreamPart'
  BY Zenon DEF Parts, OwnerFrame, StreamPart
<1>2. RunPart'
  BY Zenon DEF Parts, OwnerFrame, RunPart
<1>3. LifeOK'
  BY Zenon DEF Parts, OwnerFrame, LifeOK
<1>4. SceneOK'
  BY Zenon DEF Parts, OwnerFrame, SceneOK
<1>5. ProgressOK'
  BY Zenon DEF Parts, OwnerFrame, ProgressOK
<1> QED BY <1>1, <1>2, <1>3, <1>4, <1>5, Zenon DEF Parts

LEMMA NoCandidateQueue ==
  ASSUME QueuePart, cand' = NoCandidate, queue' = queue, acked' = acked
  PROVE  QueuePart'
<1>1. /\ queue' \in [rows : Seq(Rows), cursor : Nat, chunk : Nat]
      /\ Len(queue'.rows) <= queue'.chunk
      /\ queue'.cursor \in 0..Len(queue'.rows) /\ queue'.chunk \in 0..MaxRows /\ acked' \in 0..MaxRows
  BY Zenon DEF QueuePart, QueueOK
<1>2. /\ cand' \in [rows : Seq(Rows), status : {"none", "CHECKING", "CHECKED"},
                    predecessor : {None} \cup Revisions]
      /\ Len(cand'.rows) = 0 /\ cand'.status = "none"
  BY NoneOK
<1>3. Len(cand'.rows) <= MaxRows /\ (cand'.status # "none" => cand'.rows # <<>>)
  BY <1>2, LearnedAssumption
<1> QED BY <1>1, <1>2, <1>3, Zenon DEF QueuePart, QueueOK

\* the queue's sequences
LEMMA RemainingIs ==
  ASSUME QueuePart
  PROVE  /\ queue.rows \in Seq(Rows) /\ queue.cursor \in Nat /\ queue.chunk \in Nat /\ queue.chunk <= MaxRows
         /\ Remaining(queue) \in Seq(Rows) /\ Len(Remaining(queue)) = Len(queue.rows) - queue.cursor
         /\ Len(queue.rows) \in Nat /\ Len(queue.rows) <= queue.chunk /\ queue.cursor <= Len(queue.rows)
<1> DEFINE s == queue.rows
           l == Len(s)
           c == queue.cursor
<1>1. s \in Seq(Rows) /\ l <= queue.chunk /\ c \in 0..l /\ queue.chunk \in 0..MaxRows
  BY DEF QueuePart, QueueOK
<1>2. l \in Nat
  BY <1>1, LenProperties
<1>3. c \in Nat /\ c <= l /\ c + 1 \in Int /\ queue.chunk \in Nat /\ queue.chunk <= MaxRows
  BY <1>1, <1>2, LearnedAssumption
<1> HIDE DEF s, l, c
<1>4. SubSeq(s, c + 1, l) \in Seq(Rows) /\ Len(SubSeq(s, c + 1, l)) = l - c
  <2>1. \A i \in c + 1..l : s[i] \in Rows
    <3>1. \A i \in c + 1..l : i \in 1..Len(s)
      BY <1>2, <1>3 DEF l
    <3> QED BY <1>1, <3>1, ElementOfSeq
  <2>2. CASE c + 1 <= l
    BY <1>1, <1>2, <1>3, <2>1, <2>2, SubSeqProperties DEF l
  <2>3. CASE ~(c + 1 <= l)
    <3>1. l = c
      BY <1>2, <1>3, <2>3
    <3>2. SubSeq(s, c + 1, l) = <<>>
      BY <1>1, <1>2, <1>3, <2>3, SubSeqProperties
    <3> QED BY <3>1, <3>2, <1>3, EmptySeq
  <2> QED BY <2>2, <2>3
<1> QED BY <1>1, <1>2, <1>3, <1>4, Zenon DEF s, l, c, Remaining

LEMMA PrepareParts == Parts /\ Prepare => Parts'
<1> SUFFICES ASSUME Parts, Prepare PROVE Parts'
  OBVIOUS
<1>1. QueuePart /\ port \in PortType
  BY Zenon DEF Parts, StreamPart
<1>2. /\ checked' = TRUE /\ faults' = faults /\ OwnerFrame /\ queue' = queue /\ acked' = acked
  BY DEF Prepare, StartCheck, OwnerFrame, exec
<1> DEFINE s == Snapshot(queue)
<1>3. PICK rows \in Selections(s) : cand' = [rows |-> rows, status |-> "CHECKING", predecessor |-> port.current]
  BY Zenon DEF Prepare
<1>4. s \in Seq(Rows) /\ Len(s) \in Nat /\ Len(s) <= MaxRows
  <2>1. s = Remaining(queue)
    BY DEF Snapshot
  <2> HIDE DEF s
  <2> QED BY <1>1, <2>1, RemainingIs, LearnedAssumption
<1> HIDE DEF s
<1>5. PICK n \in 1..Len(s) : rows = SubSeq(s, 1, n)
  BY <1>3 DEF Selections
<1>6. rows \in Seq(Rows) /\ Len(rows) = n
  <2>1. \A i \in 1..n : i \in 1..Len(s)
    BY <1>4, <1>5
  <2>2. \A i \in 1..n : s[i] \in Rows
    BY <1>4, <2>1, ElementOfSeq
  <2>3. 1 \in Int /\ n \in Int /\ 1 <= n /\ n - 1 + 1 = n
    BY <1>4, <1>5
  <2> QED BY <1>5, <2>2, <2>3, SubSeqProperties
<1>7. rows # <<>> /\ Len(rows) <= MaxRows
  <2>1. n # 0 /\ n <= MaxRows
    BY <1>4, <1>5, LearnedAssumption
  <2> QED BY <1>6, <2>1, EmptySeq
<1>8. QueuePart'
  <2>1. port.current \in {None} \cup Revisions
    BY <1>1 DEF PortType
  <2>2. /\ cand' \in [rows : Seq(Rows), status : {"none", "CHECKING", "CHECKED"},
                      predecessor : {None} \cup Revisions]
        /\ cand'.rows = rows
    BY <1>3, <1>6, <2>1
  <2>3. Len(cand'.rows) <= MaxRows /\ (cand'.status # "none" => cand'.rows # <<>>)
    BY <1>7, <2>2
  <2>4. /\ queue' \in [rows : Seq(Rows), cursor : Nat, chunk : Nat]
        /\ Len(queue'.rows) <= queue'.chunk
        /\ queue'.cursor \in 0..Len(queue'.rows) /\ queue'.chunk \in 0..MaxRows /\ acked' \in 0..MaxRows
    BY <1>1, <1>2, Zenon DEF QueuePart, QueueOK
  <2> QED BY <2>2, <2>3, <2>4, Zenon DEF QueuePart, QueueOK
<1>9. faults' \in 0..MaxFaults /\ checked' \in BOOLEAN
  BY <1>2 DEF Parts
<1> QED BY <1>2, <1>8, <1>9, OwnerParts

LEMMA CommitSceneBusyParts == Parts /\ CommitSceneBusy => Parts'
<1> SUFFICES ASSUME Parts, CommitSceneBusy PROVE Parts'
  OBVIOUS
<1>1. /\ checked' = checked /\ faults' = faults /\ OwnerFrame
      /\ cand' = NoCandidate /\ queue' = queue /\ acked' = acked
  BY DEF CommitSceneBusy, OwnerFrame, exec
<1>2. QueuePart'
  BY <1>1, NoCandidateQueue DEF Parts
<1>3. faults' \in 0..MaxFaults /\ checked' \in BOOLEAN
  BY <1>1, Zenon DEF Parts, RunPart
<1> QED BY <1>1, <1>2, <1>3, OwnerParts

LEMMA CommitRefusedParts == Parts /\ CommitRefused => Parts'
<1> SUFFICES ASSUME Parts, CommitRefused PROVE Parts'
  OBVIOUS
<1>1. /\ checked' = FALSE /\ faults' = faults /\ OwnerFrame
      /\ cand' = NoCandidate /\ queue' = queue /\ acked' = acked
  BY DEF CommitRefused, ConsumeCheck, OwnerFrame, exec
<1>2. QueuePart'
  BY <1>1, NoCandidateQueue DEF Parts
<1>3. faults' \in 0..MaxFaults /\ checked' \in BOOLEAN
  BY <1>1, Zenon DEF Parts
<1> QED BY <1>1, <1>2, <1>3, OwnerParts

\* the parts of the queue that a step of its own changes
QueueValue(q) ==
    /\ q \in [rows : Seq(Rows), cursor : Nat, chunk : Nat]
    /\ Len(q.rows) <= q.chunk /\ q.cursor \in 0..Len(q.rows) /\ q.chunk \in 0..MaxRows

LEMMA QueueStep ==
  ASSUME QueuePart, cand' = cand, acked' \in 0..MaxRows, QueueValue(queue')
  PROVE  QueuePart'
BY Zenon DEF QueuePart, QueueOK, QueueValue

LEMMA InferParts == Parts /\ Infer => Parts'
<1> SUFFICES ASSUME Parts, Infer PROVE Parts'
  OBVIOUS
<1>1. QueuePart
  BY DEF Parts
<1>2. /\ checked' = checked /\ faults' = faults /\ OwnerFrame /\ cand' = cand /\ acked' = acked
  BY DEF Infer, OwnerFrame, exec
<1>3. PICK n \in 1..MaxRows - queue.chunk : queue' = Merge(queue, n)
  BY Zenon DEF Infer
<1>4. QueueValue(queue')
  <2> DEFINE c == queue.chunk
             left == Remaining(queue)
             new == [i \in 1..n |-> <<c + n, i - 1>>]
  <2>1. /\ left \in Seq(Rows) /\ Len(left) = Len(queue.rows) - queue.cursor /\ c \in Nat /\ c <= MaxRows
        /\ Len(queue.rows) \in Nat /\ Len(queue.rows) <= c /\ queue.cursor <= Len(queue.rows) /\ queue.cursor \in Nat
    BY <1>1, RemainingIs
  <2>2. n \in Nat /\ n >= 1 /\ c + n <= MaxRows
    BY <1>3, <2>1, LearnedAssumption
  <2>3. new \in Seq(Rows) /\ Len(new) = n
    <3>1. \A i \in 1..n : <<c + n, i - 1>> \in Rows
      <4>1. TAKE i \in 1..n
      <4>2. c + n \in Nat /\ i - 1 \in Nat
        BY <2>1, <2>2
      <4> QED BY <4>2 DEF Rows
    <3>2. new \in [1..n -> Rows]
      BY <3>1
    <3> HIDE DEF new
    <3>3. DOMAIN new = 1..n
      BY <3>2
    <3> QED BY <2>2, <3>2, <3>3, SeqDef, LenProperties
  <2>4. queue' = [rows |-> left \o new, cursor |-> 0, chunk |-> c + n]
    BY <1>3, Zenon DEF Merge
  <2> HIDE DEF left, new, c
  <2>5. left \o new \in Seq(Rows) /\ Len(left \o new) = Len(left) + n
    BY <2>1, <2>3, ConcatProperties
  <2> DEFINE both == left \o new
  <2>6. both \in Seq(Rows) /\ Len(both) \in Nat /\ Len(both) <= c + n
    <3> HIDE DEF both
    <3>1. both \in Seq(Rows) /\ Len(both) = Len(left) + n
      BY <2>5 DEF both
    <3>2. \A a, b \in Nat : b <= a /\ a <= c => a - b + n \in Nat /\ a - b + n <= c + n
      BY <2>1, <2>2
    <3>3. Len(left) + n \in Nat /\ Len(left) + n <= c + n
      BY <2>1, <3>2, Zenon
    <3> QED BY <3>1, <3>3
  <2>7. queue' = [rows |-> both, cursor |-> 0, chunk |-> c + n]
    BY <2>4
  <2> HIDE DEF both
  <2>8. /\ queue' \in [rows : Seq(Rows), cursor : Nat, chunk : Nat]
        /\ queue'.rows = both /\ queue'.cursor = 0 /\ queue'.chunk = c + n
    BY <2>1, <2>2, <2>6, <2>7
  <2>9. 0 \in 0..Len(both) /\ c + n \in 0..MaxRows
    BY <2>1, <2>2, <2>6, LearnedAssumption
  <2> QED BY <2>6, <2>8, <2>9 DEF QueueValue
<1>5. acked' \in 0..MaxRows
  BY <1>1, <1>2 DEF QueuePart
<1>6. QueuePart'
  BY <1>1, <1>2, <1>4, <1>5, QueueStep
<1>7. faults' \in 0..MaxFaults /\ checked' \in BOOLEAN
  BY <1>2, Zenon DEF Parts, RunPart
<1> QED BY <1>2, <1>6, <1>7, OwnerParts

LEMMA ResetParts == Parts /\ Reset => Parts'
<1> SUFFICES ASSUME Parts, Reset PROVE Parts'
  OBVIOUS
<1>1. QueuePart /\ faults \in 0..MaxFaults
  BY Zenon DEF Parts
<1>2. /\ checked' = checked /\ faults' = faults + 1 /\ faults < MaxFaults /\ OwnerFrame
      /\ cand' = cand /\ acked' = acked /\ queue' = Clear(queue)
  BY DEF Reset, Failing, CanFail, OwnerFrame, exec
<1>3. QueueValue(queue')
  <2>1. queue \in [rows : Seq(Rows), cursor : Nat, chunk : Nat] /\ queue.chunk \in 0..MaxRows
    BY <1>1, Zenon DEF QueuePart, QueueOK
  <2>2. <<>> \in Seq(Rows) /\ Len(<<>>) = 0
    BY EmptySeq
  <2>3. queue' = [queue EXCEPT !.rows = <<>>, !.cursor = 0]
    BY <1>2 DEF Clear
  <2>4. /\ queue' \in [rows : Seq(Rows), cursor : Nat, chunk : Nat]
        /\ queue'.rows = <<>> /\ queue'.cursor = 0 /\ queue'.chunk = queue.chunk
    BY <2>1, <2>2, <2>3
  <2>5. 0 <= queue.chunk
    BY <2>1
  <2> QED BY <2>1, <2>2, <2>4, <2>5 DEF QueueValue
<1>4. acked' \in 0..MaxRows
  BY <1>1, <1>2 DEF QueuePart
<1>5. QueuePart'
  BY <1>1, <1>2, <1>3, <1>4, QueueStep
<1>6. faults' \in 0..MaxFaults
  BY <1>1, <1>2, StreamAssumption
<1>7. checked' \in BOOLEAN
  BY <1>2, Zenon DEF Parts, RunPart
<1> QED BY <1>2, <1>5, <1>6, <1>7, OwnerParts

LEMMA MostIs ==
  ASSUME NEW S \in SUBSET Revisions, S # {}
  PROVE  Most(S) \in S
<1> DEFINE T == {MaxRevisions - r : r \in S}
<1>1. MaxRevisions \in Nat /\ \A r \in S : r \in Nat /\ r <= MaxRevisions
  BY StreamAssumption DEF Revisions
<1>2. T \in SUBSET Nat /\ T # {}
  BY <1>1
<1>3. PICK t \in T : \A u \in T : t <= u
  BY <1>2, LeastNatural
<1>4. PICK n \in S : t = MaxRevisions - n
  OBVIOUS
<1>5. \A m \in S : n >= m
  <2>1. TAKE m \in S
  <2>2. MaxRevisions - n <= MaxRevisions - m
    BY <1>3, <1>4
  <2> QED BY <1>1, <2>2
<1>6. \E k \in S : \A m \in S : k >= m
  BY <1>5
<1> QED BY <1>6, Zenon DEF Most

\* Rows are consumed from the front of the queue, as many as both references
\* have crossed of the revision last committed.
Acknowledging(r, n) ==
    LET pr == progress[r] IN
    /\ r \in Submissions /\ n \in acked + 1..pr.count
    /\ queue.cursor + (n - acked) <= Len(queue.rows)
    /\ SubSeq(queue.rows, queue.cursor + 1, queue.cursor + (n - acked)) =
          SubSeq(pr.rows, acked + 1, acked + (n - acked))
    /\ queue' = [queue EXCEPT !.cursor = @ + (n - acked)] /\ acked' = n

LEMMA AcknowledgeIs ==
  ASSUME Parts, Acknowledge
  PROVE  /\ \E r \in Revisions, n \in Nat : Acknowledging(r, n)
         /\ checked' = checked /\ faults' = faults /\ OwnerFrame /\ cand' = cand
<1>1. checked' = checked /\ faults' = faults /\ OwnerFrame /\ cand' = cand
  BY DEF Acknowledge, OwnerFrame, exec
<1> DEFINE r == Most(Submissions)
<1>2. r \in Submissions /\ r \in Revisions
  <2>1. Submissions \in SUBSET Revisions /\ Submissions # {}
    BY DEF Acknowledge, Submissions
  <2> QED BY <2>1, MostIs
<1>3. PICK n \in acked + 1..progress[r].count : AcknowledgeSelection(progress[r].rows, n)
  BY Zenon DEF Acknowledge
<1> HIDE DEF r
<1>4. acked \in Nat
  BY LearnedAssumption DEF Parts, QueuePart
<1>5. progress[r].count \in Nat
  BY <1>2 DEF Parts, ProgressOK, ProgressType
<1>6. n \in Nat
  BY <1>3, <1>4, <1>5
<1>7. /\ UnchangedPrefix(queue, progress[r].rows, acked, n - acked)
      /\ queue' = Advance(queue, n - acked) /\ acked' = n
  BY <1>3 DEF AcknowledgeSelection
<1>8. Acknowledging(r, n)
  BY <1>2, <1>3, <1>7, Zenon DEF Acknowledging, UnchangedPrefix, Advance
<1> QED BY <1>1, <1>2, <1>6, <1>8

\* the numbers of an acknowledgement
AckNumbers(r, n) ==
    /\ queue.rows \in Seq(Rows) /\ progress[r] \in OneProgress /\ RowsCrossed(progress[r], native, r)
    /\ queue.cursor \in Nat /\ acked \in Nat /\ acked < n
    /\ n <= progress[r].count /\ n <= Len(progress[r].rows) /\ Len(progress[r].rows) <= MaxRows
    /\ Len(queue.rows) \in Nat /\ Len(progress[r].rows) \in Nat

LEMMA AckNumbersAre ==
  ASSUME Parts, NEW r \in Revisions, NEW n \in Nat, Acknowledging(r, n)
  PROVE  AckNumbers(r, n)
<1>1. QueuePart /\ ProgressOK
  BY Zenon DEF Parts
<1>2. queue.rows \in Seq(Rows) /\ queue.cursor \in Nat /\ Len(queue.rows) \in Nat
  BY <1>1, RemainingIs
<1>3. progress[r] \in OneProgress /\ RowsCrossed(progress[r], native, r)
  <2>1. progress \in [Revisions -> OneProgress]
    BY <1>1, Zenon DEF ProgressOK, ProgressType, OneProgress
  <2> QED BY <1>1, <2>1 DEF ProgressOK
<1>4. acked \in Nat
  BY <1>1, LearnedAssumption DEF QueuePart
<1>5. progress[r].count \in 0..Len(progress[r].rows)
  BY <1>3, CountBound
<1>6. Len(progress[r].rows) \in Nat /\ Len(progress[r].rows) <= MaxRows
  <2>1. progress[r].rows \in Seq(Rows)
    BY <1>3 DEF OneProgress
  <2> QED BY <1>3, <2>1, LenProperties DEF RowsCrossed
<1>7. n \in acked + 1..progress[r].count
  BY DEF Acknowledging
<1>8. acked < n /\ n <= progress[r].count /\ n <= Len(progress[r].rows)
  BY <1>4, <1>5, <1>6, <1>7
<1> QED BY <1>2, <1>3, <1>4, <1>6, <1>8 DEF AckNumbers

LEMMA AcknowledgeParts == Parts /\ Acknowledge => Parts'
<1> SUFFICES ASSUME Parts, Acknowledge PROVE Parts'
  OBVIOUS
<1>1. checked' = checked /\ faults' = faults /\ OwnerFrame /\ cand' = cand
  BY AcknowledgeIs
<1>2. PICK r \in Revisions, n \in Nat : Acknowledging(r, n)
  BY AcknowledgeIs
<1>3. AckNumbers(r, n)
  BY <1>2, AckNumbersAre
<1>4. QueuePart
  BY DEF Parts
<1>5. QueueValue(queue')
  <2>1. /\ queue \in [rows : Seq(Rows), cursor : Nat, chunk : Nat] /\ Len(queue.rows) <= queue.chunk
        /\ queue.chunk \in 0..MaxRows
    BY <1>4, Zenon DEF QueuePart, QueueOK
  <2> DEFINE c == queue.cursor + (n - acked)
  <2>2. queue' = [queue EXCEPT !.cursor = c] /\ c <= Len(queue.rows)
    BY <1>2, <2>1 DEF Acknowledging
  <2>3. c \in Nat
    BY <1>3 DEF AckNumbers
  <2> HIDE DEF c
  <2>4. /\ queue' \in [rows : Seq(Rows), cursor : Nat, chunk : Nat]
        /\ queue'.rows = queue.rows /\ queue'.cursor = c /\ queue'.chunk = queue.chunk
    BY <2>1, <2>2, <2>3
  <2>5. c \in 0..Len(queue.rows)
    BY <1>3, <2>2, <2>3 DEF AckNumbers
  <2> QED BY <2>1, <2>4, <2>5 DEF QueueValue
<1>6. acked' \in 0..MaxRows
  <2>1. acked' = n
    BY <1>2 DEF Acknowledging
  <2> QED BY <1>3, <2>1, LearnedAssumption DEF AckNumbers
<1>7. QueuePart'
  BY <1>1, <1>4, <1>5, <1>6, QueueStep
<1>8. faults' \in 0..MaxFaults /\ checked' \in BOOLEAN
  BY <1>1, Zenon DEF Parts, RunPart
<1> QED BY <1>1, <1>7, <1>8, OwnerParts

LEMMA SubSeqItem ==
  ASSUME NEW S, NEW s \in Seq(S), NEW c \in Nat, NEW k \in Nat, c + k <= Len(s), NEW m \in 1..k
  PROVE  SubSeq(s, c + 1, c + k)[m] = s[c + m]
<1> DEFINE a == c + 1
           b == c + k
<1>1. Len(s) \in Nat
  BY LenProperties
<1>2. \A i \in a..b : i \in 1..Len(s)
  BY <1>1
<1>3. \A i \in a..b : s[i] \in S
  BY <1>2, ElementOfSeq
<1>4. a \in Int /\ b \in Int /\ m \in 1..b - a + 1 /\ a + m - 1 = c + m
  OBVIOUS
<1> HIDE DEF a, b
<1>5. \A i \in 1..b - a + 1 : SubSeq(s, a, b)[i] = s[a + i - 1]
  BY <1>3, <1>4, SubSeqProperties
<1>6. SubSeq(s, a, b)[m] = s[a + m - 1]
  BY <1>4, <1>5, Zenon
<1> QED BY <1>4, <1>6, Zenon DEF a, b

\* What is consumed was crossed.
Earned ==
    \A i \in queue.cursor + 1..queue'.cursor : \E r \in Submissions :
        \E j \in 1..Len(progress[r].rows) :
            progress[r].rows[j] = queue.rows[i] /\ \A a \in Actuators : Crossed(a, r, j)

LEMMA AcknowledgeEarned == Parts /\ Acknowledge => Earned
<1> SUFFICES ASSUME Parts, Acknowledge, NEW i \in queue.cursor + 1..queue'.cursor
             PROVE  \E r \in Submissions : \E j \in 1..Len(progress[r].rows) :
                        progress[r].rows[j] = queue.rows[i] /\ \A a \in Actuators : Crossed(a, r, j)
  BY DEF Earned
<1>1. PICK r \in Revisions, n \in Nat : Acknowledging(r, n)
  BY AcknowledgeIs
<1>2. AckNumbers(r, n)
  BY <1>1, AckNumbersAre
<1> DEFINE s == queue.rows
           t == progress[r].rows
           c == queue.cursor
           k == n - acked
           j == acked + (i - c)
<1>3. /\ s \in Seq(Rows) /\ t \in Seq(Rows) /\ c \in Nat /\ acked \in Nat /\ k \in Nat /\ k >= 1
      /\ Len(s) \in Nat /\ Len(t) \in Nat /\ acked + k = n /\ n <= Len(t)
  BY <1>2 DEF AckNumbers, OneProgress
<1>4. /\ r \in Submissions /\ c + k <= Len(s) /\ SubSeq(s, c + 1, c + k) = SubSeq(t, acked + 1, acked + k)
  BY <1>1 DEF Acknowledging
<1>5. queue'.cursor = c + k
  <2>1. queue \in [rows : Seq(Rows), cursor : Nat, chunk : Nat]
    BY Zenon DEF Parts, QueuePart, QueueOK
  <2>2. queue' = [queue EXCEPT !.cursor = c + k]
    BY <1>1, <2>1 DEF Acknowledging
  <2> HIDE DEF c, k
  <2> QED BY <2>1, <2>2
<1>6. i \in c + 1..c + k
  BY <1>5
<1> HIDE DEF s, t, c, k
<1>7. /\ i - c \in 1..k /\ j \in acked + 1..acked + k /\ j \in 1..Len(t) /\ j <= n
      /\ c + (i - c) = i /\ acked + (i - c) = j
  BY <1>3, <1>6
<1>8. SubSeq(s, c + 1, c + k)[i - c] = s[c + (i - c)]
  <2>1. s \in Seq(Rows) /\ c \in Nat /\ k \in Nat /\ c + k <= Len(s) /\ i - c \in 1..k
    BY <1>3, <1>4, <1>7
  <2> QED BY <2>1, SubSeqItem
<1>9. SubSeq(t, acked + 1, acked + k)[i - c] = t[acked + (i - c)]
  <2>1. t \in Seq(Rows) /\ acked \in Nat /\ k \in Nat /\ acked + k <= Len(t) /\ i - c \in 1..k
    BY <1>3, <1>7
  <2> QED BY <2>1, SubSeqItem
<1> HIDE DEF j
<1>10. t[j] = s[i]
  BY <1>4, <1>7, <1>8, <1>9
<1>11. \A a \in Actuators : Crossed(a, r, j)
  <2>1. TAKE a \in Actuators
  <2>2. progress[r].rows # <<>>
    BY <1>4 DEF Submissions
  <2>3. /\ progress[r].elapsed[a] <= native[a][r].heard \/ native[a][r].goal = "succeeded"
        /\ progress[r].count <= progress[r].elapsed[a]
    BY <1>2, <2>2 DEF AckNumbers, RowsCrossed
  <2>4. n <= progress[r].count /\ progress[r].count \in Nat /\ progress[r].elapsed[a] \in Nat
    BY <1>2 DEF AckNumbers, OneProgress
  <2>5. native[a][r].heard \in Nat
    BY DEF Parts, StreamPart, NativeType
  <2>6. j \in Nat /\ n \in Nat
    BY <1>3, <1>7
  <2> DEFINE e == progress[r].elapsed[a]
             h == native[a][r].heard
             m == progress[r].count
  <2>7. CASE e <= h
    <3>1. h >= j
      <4>1. e <= h /\ m <= e /\ n <= m /\ m \in Nat /\ e \in Nat /\ h \in Nat
        BY <2>3, <2>4, <2>5, <2>7
      <4> HIDE DEF e, h, m
      <4> QED BY <1>7, <2>6, <4>1
    <3> QED BY <3>1 DEF Crossed
  <2>8. CASE native[a][r].goal = "succeeded"
    BY <2>8 DEF Crossed
  <2> QED BY <2>3, <2>7, <2>8
<1> QED BY <1>4, <1>7, <1>10, <1>11 DEF s, t

LEMMA StopParts == Parts /\ Stop => Parts'
<1> SUFFICES ASSUME Parts, Stop PROVE Parts'
  OBVIOUS
<1>1. state = "EXECUTING" /\ Fault(native, port, attempted) /\ faults' = faults
  BY DEF Stop
<1>2. port.open
  BY <1>1 DEF Parts, LifeOK
<1>3. Faulting(native, port, attempted)
  <2>1. StreamPart /\ attempted \in BOOLEAN /\ SceneOK
    BY Zenon DEF Parts, RunPart
  <2> QED BY <1>2, <2>1 DEF StreamPart, Faulting, SceneOK
<1>4. faults' \in 0..MaxFaults
  BY <1>1 DEF Parts
<1> QED BY <1>1, <1>3, <1>4, FaultParts

\* what a controller's step does to one goal
GoalTo(n, m, a, r, g) == m = [n EXCEPT ![a][r].goal = g]
GoalChanged(n, m, a, r, g) ==
    /\ m \in NativeType /\ m[a][r].goal = g
    /\ \A b \in Actuators, t \in Revisions :
          /\ m[b][t].length = n[b][t].length /\ m[b][t].heard = n[b][t].heard
          /\ b # a \/ t # r => m[b][t] = n[b][t]

LEMMA GoalIs ==
  ASSUME NEW n \in NativeType, NEW m, NEW a \in Actuators, NEW r \in Revisions,
         NEW g \in {"unsent", "refused", "unread"} \cup Running \cup Ended,
         GoalTo(n, m, a, r, g)
  PROVE  GoalChanged(n, m, a, r, g)
<1> DEFINE Goals == {"unsent", "refused", "unread"} \cup Running \cup Ended
           GoalType == [goal : Goals, heard : Nat, length : Nat]
           i == [n[a][r] EXCEPT !.goal = g]
           f == [n[a] EXCEPT ![r] = i]
<1>1. NativeType = [Actuators -> [Revisions -> GoalType]]
  BY DEF NativeType
<1>2. g \in Goals
  OBVIOUS
<1> HIDE DEF Goals
<1>3. n \in [Actuators -> [Revisions -> GoalType]]
  BY <1>1
<1>4. n[a][r] \in GoalType
  BY <1>3
<1>5. i \in GoalType /\ i.goal = g /\ i.length = n[a][r].length /\ i.heard = n[a][r].heard
  BY <1>2, <1>4
<1>6. m = [n EXCEPT ![a] = f]
  BY <1>3 DEF GoalTo
<1> HIDE DEF i
<1>7. f \in [Revisions -> GoalType] /\ f[r] = i /\ \A t \in Revisions \ {r} : f[t] = n[a][t]
  BY <1>3, <1>5
<1> HIDE DEF f
<1>8. m \in [Actuators -> [Revisions -> GoalType]] /\ m[a] = f /\ \A b \in Actuators \ {a} : m[b] = n[b]
  BY <1>3, <1>6, <1>7
<1> QED BY <1>1, <1>5, <1>7, <1>8 DEF GoalChanged

\* A controller's step hears no less and takes no success back.
Onward(n, m) ==
    /\ Moved(n, m)
    /\ \A a \in Actuators, r \in Revisions :
          /\ n[a][r].heard <= m[a][r].heard
          /\ n[a][r].goal = "succeeded" => m[a][r].goal = "succeeded"
          /\ n[a][r].goal = "unsent" => m[a][r].goal = "unsent"

LEMMA RowsOnward ==
  ASSUME NEW n \in NativeType, NEW m \in NativeType, Onward(n, m), NEW r \in Revisions, NEW pr \in OneProgress,
         RowsCrossed(pr, n, r)
  PROVE  RowsCrossed(pr, m, r)
<1>1. ASSUME pr.rows # <<>>, NEW a \in Actuators
      PROVE  /\ m[a][r].length = Len(pr.rows) /\ pr.elapsed[a] <= Len(pr.rows)
             /\ pr.elapsed[a] <= m[a][r].heard \/ m[a][r].goal = "succeeded"
             /\ pr.count <= pr.elapsed[a]
  <2>1. /\ n[a][r].length = Len(pr.rows) /\ pr.elapsed[a] <= Len(pr.rows)
        /\ pr.elapsed[a] <= n[a][r].heard \/ n[a][r].goal = "succeeded"
        /\ pr.count <= pr.elapsed[a]
    BY <1>1 DEF RowsCrossed
  <2>2. /\ m[a][r].length = n[a][r].length /\ n[a][r].heard <= m[a][r].heard
        /\ n[a][r].goal = "succeeded" => m[a][r].goal = "succeeded"
    BY DEF Onward, Moved
  <2>3. pr.elapsed[a] \in Nat /\ n[a][r].heard \in Nat /\ m[a][r].heard \in Nat
    BY DEF OneProgress, NativeType
  <2>4. pr.elapsed[a] <= n[a][r].heard => pr.elapsed[a] <= m[a][r].heard
    BY <2>2, <2>3
  <2> QED BY <2>1, <2>2, <2>4
<1>2. (pr.rows = <<>> => pr.count = 0) /\ Len(pr.rows) <= MaxRows
  BY DEF RowsCrossed
<1> QED BY <1>1, <1>2, Zenon DEF RowsCrossed

LEMMA ControllerKeeps ==
  ASSUME Parts, Onward(native, native'), native' \in NativeType, faults' \in 0..MaxFaults, port' = port, Around
  PROVE  Parts'
<1>1. /\ state' = state /\ cancelError' = cancelError /\ drain' = drain /\ attempted' = attempted /\ scene' = scene
      /\ geometry' = geometry /\ checked' = checked /\ cand' = cand /\ progress' = progress /\ queue' = queue
      /\ acked' = acked
  BY DEF Around, exec
<1>2. StreamPart'
  <2>1. StreamPart
    BY DEF Parts
  <2>2. StreamOK(native', port)
    BY <2>1, StreamMoved DEF StreamPart, Onward
  <2>3. port' \in PortType
    BY <2>1 DEF StreamPart
  <2> QED BY <2>2, <2>3 DEF StreamPart
<1>3. RunPart'
  BY <1>1, Zenon DEF Parts, RunPart
<1>4. LifeOK'
  <2>1. LifeOK
    BY DEF Parts
  <2>2. \A a \in Actuators, r \in Revisions : native'[a][r].length = native[a][r].length
    BY DEF Onward, Moved
  <2>3. state = "APPROVED" => \A a \in Actuators, r \in Revisions : native'[a][r].length = 0
    BY <2>1, <2>2 DEF LifeOK
  <2> QED BY <1>1, <2>1, <2>3, Zenon DEF LifeOK
<1>5. SceneOK'
  <2>1. SceneOK
    BY DEF Parts
  <2>2. ~attempted => \A a \in Actuators, r \in Revisions : native'[a][r].goal = "unsent"
    BY <2>1 DEF SceneOK, Onward
  <2> QED BY <1>1, <2>1, <2>2, Zenon DEF SceneOK
<1>6. ProgressOK'
  <2>1. progress \in [Revisions -> OneProgress] /\ \A r \in Revisions : RowsCrossed(progress[r], native, r)
    BY Zenon DEF Parts, ProgressOK, ProgressType, OneProgress
  <2>2. native \in NativeType
    BY DEF Parts, StreamPart
  <2>3. \A r \in Revisions : RowsCrossed(progress[r], native', r)
    BY <2>1, <2>2, RowsOnward
  <2>4. progress \in ProgressType
    BY DEF Parts, ProgressOK
  <2> QED BY <1>1, <2>3, <2>4, Zenon DEF ProgressOK
<1>7. QueuePart'
  BY <1>1, Zenon DEF Parts, QueuePart, QueueOK
<1> QED BY <1>2, <1>3, <1>4, <1>5, <1>6, <1>7, Zenon DEF Parts

LEMMA GoalOnward ==
  ASSUME NEW n \in NativeType, NEW a \in Actuators, NEW r \in Revisions,
         NEW g \in {"unsent", "refused", "unread"} \cup Running \cup Ended,
         NEW m, GoalTo(n, m, a, r, g), NEW p, NativeOK(n, p),
         n[a][r].goal \in Running
  PROVE  m \in NativeType /\ Onward(n, m)
<1>0. GoalChanged(n, m, a, r, g)
  BY GoalIs
<1>1. /\ m \in NativeType /\ m[a][r].goal = g
      /\ \A b \in Actuators, t \in Revisions :
            /\ m[b][t].length = n[b][t].length /\ m[b][t].heard = n[b][t].heard
            /\ b # a \/ t # r => m[b][t] = n[b][t]
  BY <1>0, Zenon DEF GoalChanged
<1>2. n[a][r].goal # "succeeded" /\ n[a][r].goal # "unsent" /\ n[a][r].length # 0
  BY DEF Running, NativeOK
<1>3. \A b \in Actuators, t \in Revisions :
         /\ n[b][t].heard <= n[b][t].length /\ n[b][t].length = 0 => n[b][t].goal = "unsent"
         /\ n[b][t].heard \in Nat
  BY DEF NativeOK, NativeType
<1>4. ASSUME NEW b \in Actuators, NEW t \in Revisions
      PROVE  /\ m[b][t].length = n[b][t].length /\ m[b][t].heard <= m[b][t].length
             /\ m[b][t].goal \in Running => n[b][t].goal \in Running
             /\ m[b][t].length = 0 => m[b][t].goal = "unsent"
             /\ n[b][t].heard <= m[b][t].heard
             /\ n[b][t].goal = "succeeded" => m[b][t].goal = "succeeded"
             /\ n[b][t].goal = "unsent" => m[b][t].goal = "unsent"
  <2>1. n[b][t].heard <= n[b][t].length /\ n[b][t].heard <= n[b][t].heard
    BY <1>3 DEF NativeOK
  <2>2. CASE b = a /\ t = r
    BY <1>1, <1>2, <2>1, <2>2
  <2>3. CASE b # a \/ t # r
    BY <1>1, <1>3, <2>1, <2>3
  <2> QED BY <2>2, <2>3
<1>5. Moved(n, m)
  BY <1>4 DEF Moved
<1> QED BY <1>1, <1>4, <1>5 DEF Onward

LEMMA ControllerParts ==
  ASSUME Parts, NEW a \in Actuators, NEW r \in Revisions, Controller(a, r)
  PROVE  Parts'
<1>1. native \in NativeType /\ NativeOK(native, port) /\ faults \in 0..MaxFaults
  BY DEF Parts, StreamPart, StreamOK
<1>2. Around
  BY DEF Controller
<1>3. Failing => faults' \in 0..MaxFaults
  BY <1>1, StreamAssumption DEF Failing, CanFail
<1>4. ASSUME NEW g \in {"unsent", "refused", "unread"} \cup Running \cup Ended, Goal(a, r, g),
             native[a][r].goal \in Running, faults' = faults \/ Failing, port' = port
      PROVE  Parts'
  <2>1. GoalTo(native, native', a, r, g)
    BY <1>4 DEF Goal, GoalTo
  <2>2. native' \in NativeType /\ Onward(native, native')
    BY <1>1, <1>4, <2>1, GoalOnward
  <2>3. faults' \in 0..MaxFaults
    BY <1>1, <1>3, <1>4
  <2> QED BY <1>2, <1>4, <2>2, <2>3, ControllerKeeps
<1>5. CASE Answer(a, r)
  <2>1. /\ native[a][r].goal \in Running /\ port' = port
        /\ \/ Goal(a, r, "moving") /\ faults' = faults
           \/ \E bad \in {"refused", "mute"} : Goal(a, r, bad) /\ Failing
    BY <1>5 DEF Answer, Running
  <2>2. "moving" \in Running /\ {"refused", "mute"} \subseteq {"unsent", "refused", "unread"} \cup Running \cup Ended
    BY DEF Running
  <2> QED BY <1>4, <2>1, <2>2
<1>6. CASE End(a, r)
  <2>1. /\ native[a][r].goal \in Running /\ port' = port
        /\ \/ Goal(a, r, "succeeded") /\ faults' = faults
           \/ Goal(a, r, "canceled") /\ faults' = faults
           \/ \E bad \in {"aborted", "unread"} : Goal(a, r, bad) /\ Failing
    BY <1>6 DEF End, Running
  <2>2. {"succeeded", "canceled"} \subseteq Ended /\ {"aborted", "unread"} \subseteq {"unread"} \cup Ended
    BY DEF Ended
  <2> QED BY <1>4, <2>1, <2>2
<1>7. CASE Move(a, r)
  <2> DEFINE h == native[a][r].heard + 1
             Goals == {"unsent", "refused", "unread"} \cup Running \cup Ended
             GoalType == [goal : Goals, heard : Nat, length : Nat]
             i == [native[a][r] EXCEPT !.heard = h]
             f == [native[a] EXCEPT ![r] = i]
  <2>1. /\ native[a][r].goal = "moving" /\ native[a][r].heard < native[a][r].length
        /\ native' = [native EXCEPT ![a][r].heard = @ + 1] /\ port' = port /\ faults' = faults
    BY <1>7 DEF Move
  <2>2. NativeType = [Actuators -> [Revisions -> GoalType]]
    BY DEF NativeType
  <2> HIDE DEF Goals
  <2>3. native \in [Actuators -> [Revisions -> GoalType]] /\ native[a][r] \in GoalType
    BY <1>1, <2>2
  <2>4. native' = [native EXCEPT ![a] = f]
    BY <2>1, <2>3
  <2>5. h \in Nat /\ h <= native[a][r].length /\ native[a][r].heard <= h
    BY <2>1, <2>3
  <2> HIDE DEF h
  <2>6. i \in GoalType /\ i.goal = native[a][r].goal /\ i.length = native[a][r].length /\ i.heard = h
    BY <2>3, <2>5
  <2> HIDE DEF i
  <2>7. f \in [Revisions -> GoalType] /\ f[r] = i /\ \A t \in Revisions \ {r} : f[t] = native[a][t]
    BY <2>3, <2>6
  <2> HIDE DEF f
  <2>8. /\ native' \in [Actuators -> [Revisions -> GoalType]] /\ native'[a] = f
        /\ \A b \in Actuators \ {a} : native'[b] = native[b]
    BY <2>3, <2>4, <2>7
  <2>9. ASSUME NEW b \in Actuators, NEW t \in Revisions
        PROVE  /\ native'[b][t].length = native[b][t].length /\ native'[b][t].heard <= native'[b][t].length
               /\ native'[b][t].goal = native[b][t].goal
               /\ native[b][t].heard <= native'[b][t].heard
    <3>1. native[b][t].heard <= native[b][t].length /\ native[b][t].heard \in Nat
      BY <1>1 DEF NativeOK, NativeType
    <3>2. native[b][t].heard <= native[b][t].heard
      BY <3>1
    <3>3. CASE b = a /\ t = r
      BY <2>5, <2>6, <2>7, <2>8, <3>3
    <3>4. CASE b # a \/ t # r
      <4>1. native'[b][t] = native[b][t]
        BY <2>7, <2>8, <3>4
      <4> QED BY <3>1, <3>2, <4>1
    <3> QED BY <3>3, <3>4
  <2>10. \A b \in Actuators, t \in Revisions : native[b][t].length = 0 => native[b][t].goal = "unsent"
    BY <1>1 DEF NativeOK
  <2>11. Onward(native, native')
    BY <2>9, <2>10 DEF Onward, Moved
  <2>12. native' \in NativeType /\ faults' \in 0..MaxFaults
    BY <1>1, <2>1, <2>2, <2>8
  <2> QED BY <1>2, <2>1, <2>11, <2>12, ControllerKeeps
<1> QED BY <1>5, <1>6, <1>7 DEF Controller

\* A poll of an open port keeps the stream, whatever request raises in it.
MayRaise == {NoRaise} \cup (IF CanFail THEN Raising(port) ELSE {})
RaiseCounted(raises) == faults' = IF raises = NoRaise THEN faults ELSE faults + 1

LEMMA PortPolled ==
  ASSUME Parts, port.open, NEW raises \in MayRaise, RaiseCounted(raises)
  PROVE  Polled(Poll(port, raises)) /\ faults' \in 0..MaxFaults
<1>1. raises \in Raises
  BY RaisesAre DEF MayRaise
<1>2. native \in NativeType /\ port \in PortType /\ StreamOK(native, port)
  BY DEF Parts, StreamPart
<1>3. Polled(Poll(port, raises))
  BY <1>1, <1>2, PollPolled
<1>4. faults' \in 0..MaxFaults
  <2>1. faults \in 0..MaxFaults
    BY DEF Parts
  <2>2. CASE raises = NoRaise
    BY <2>1, <2>2 DEF RaiseCounted
  <2>3. CASE raises # NoRaise
    <3>1. CanFail /\ faults' = faults + 1
      BY <2>3 DEF MayRaise, RaiseCounted
    <3> QED BY <2>1, <3>1, StreamAssumption DEF CanFail
  <2> QED BY <2>2, <2>3
<1> QED BY <1>3, <1>4

\* the candidate's report
LEMMA ReportQueue ==
  ASSUME QueuePart, checked \in BOOLEAN, CandidateReport, queue' = queue, acked' = acked
  PROVE  QueuePart' /\ checked' \in BOOLEAN
<1>1. checked' \in BOOLEAN
  BY DEF CandidateReport, PollCheck
<1>2. /\ cand' = cand \/ cand' = NoCandidate
         \/ (cand.status = "CHECKING" /\ cand' = [cand EXCEPT !.status = "CHECKED"])
  BY Zenon DEF CandidateReport
<1>3. CASE cand' = cand
  BY <1>1, <1>3, Zenon DEF QueuePart, QueueOK
<1>4. CASE cand' = NoCandidate
  BY <1>1, <1>4, NoCandidateQueue
<1>5. CASE cand.status = "CHECKING" /\ cand' = [cand EXCEPT !.status = "CHECKED"]
  <2>1. /\ cand \in [rows : Seq(Rows), status : {"none", "CHECKING", "CHECKED"},
                     predecessor : {None} \cup Revisions]
        /\ Len(cand.rows) <= MaxRows /\ cand.rows # <<>>
    BY <1>5 DEF QueuePart, QueueOK
  <2>2. /\ cand' \in [rows : Seq(Rows), status : {"none", "CHECKING", "CHECKED"},
                      predecessor : {None} \cup Revisions]
        /\ cand'.rows = cand.rows
    BY <1>5, <2>1
  <2>3. /\ queue' \in [rows : Seq(Rows), cursor : Nat, chunk : Nat]
        /\ Len(queue'.rows) <= queue'.chunk
        /\ queue'.cursor \in 0..Len(queue'.rows) /\ queue'.chunk \in 0..MaxRows /\ acked' \in 0..MaxRows
    BY Zenon DEF QueuePart, QueueOK
  <2>4. Len(cand'.rows) <= MaxRows /\ cand'.rows # <<>>
    BY <2>1, <2>2
  <2> QED BY <1>1, <2>2, <2>3, <2>4, Zenon DEF QueuePart, QueueOK
<1> QED BY <1>1, <1>2, <1>3, <1>4, <1>5

\* what a tick does with its poll x and the observation o of its events
TickClean(x, o) ==
    /\ ~o.raised /\ port' = x.port /\ progress' = o.progress /\ GeometrySetup /\ CandidateReport
    /\ native' = native /\ state' = state /\ cancelError' = cancelError /\ drain' = drain
    /\ attempted' = attempted /\ scene' = scene /\ queue' = queue /\ acked' = acked
Ticks(x, o) == TickClean(x, o) \/ Fault(native, x.port, attempted)

LEMMA TickIs ==
  ASSUME Tick
  PROVE  \E raises \in MayRaise :
            RaiseCounted(raises) /\ Ticks(Poll(port, raises), Observe(Poll(port, raises).events))
BY Zenon DEF Tick, MayRaise, RaiseCounted, Ticks, TickClean

LEMMA TickParts == Parts /\ Tick => Parts'
<1> SUFFICES ASSUME Parts, Tick PROVE Parts'
  OBVIOUS
<1>1. state = "EXECUTING" /\ port.open
  <2>1. state = "EXECUTING"
    BY Zenon DEF Tick
  <2> QED BY <2>1 DEF Parts, LifeOK
<1>2. PICK raises \in MayRaise :
         RaiseCounted(raises) /\ Ticks(Poll(port, raises), Observe(Poll(port, raises).events))
  BY TickIs
<1> DEFINE x == Poll(port, raises)
           o == Observe(x.events)
<1>3. Polled(x) /\ faults' \in 0..MaxFaults
  BY <1>1, <1>2, PortPolled
<1>4. Ticks(x, o)
  BY <1>2
<1> HIDE DEF x
<1>5. x.port \in PortType /\ x.port.open /\ StreamOK(native, x.port) /\ x.events \in Seq(TrueEvents)
  BY <1>3 DEF Polled, PollType
<1>6. /\ StreamPart /\ RunPart /\ LifeOK /\ SceneOK /\ ProgressOK /\ QueuePart
      /\ native \in NativeType /\ NativeOK(native, port)
  BY DEF Parts, StreamPart, StreamOK
<1>7. ~o.raised => o.progress \in Kept0
  <2>1. progress \in AllCounted
    BY <1>6, Zenon DEF ProgressOK, AllCounted
  <2> QED BY <1>5, <1>6, <2>1, ObserveKeeps
<1> HIDE DEF o
<1>8. CASE Fault(native, x.port, attempted)
  <2>1. Faulting(native, x.port, attempted)
    <3>1. attempted \in BOOLEAN
      BY <1>6 DEF RunPart
    <3>2. ~attempted => \A a \in Actuators, r \in Revisions : native[a][r].goal = "unsent"
      BY <1>6 DEF SceneOK
    <3> QED BY <1>5, <1>6, <3>1, <3>2 DEF Faulting
  <2> QED BY <1>3, <1>8, <2>1, FaultParts
<1>9. CASE TickClean(x, o)
  <2>1. /\ port' = x.port /\ progress' = o.progress /\ o.progress \in Kept0
        /\ native' = native /\ state' = state /\ cancelError' = cancelError /\ drain' = drain
        /\ attempted' = attempted /\ scene' = scene /\ queue' = queue /\ acked' = acked
        /\ GeometrySetup /\ CandidateReport
    BY <1>7, <1>9, Zenon DEF TickClean
  <2>2. StreamPart'
    BY <1>5, <1>6, <2>1, Zenon DEF StreamPart
  <2>3. QueuePart' /\ checked' \in BOOLEAN
    BY <1>6, <2>1, ReportQueue DEF RunPart
  <2>4. RunPart'
    <3>1. geometry' \in {"none", "pending", "ready"}
      BY <1>6, <2>1 DEF GeometrySetup, RunPart
    <3> QED BY <1>6, <2>1, <2>3, <3>1, Zenon DEF RunPart
  <2>5. LifeOK'
    <3>1. ~cancelError /\ scene = "none" /\ drain # "pending"
      BY <1>1, <1>6 DEF LifeOK
    <3>2. state' = "EXECUTING" /\ port'.open
      BY <1>1, <1>5, <2>1
    <3> QED BY <2>1, <3>1, <3>2 DEF LifeOK
  <2>6. SceneOK'
    BY <1>6, <2>1, Zenon DEF SceneOK
  <2>7. ProgressOK'
    BY <2>1, Zenon DEF ProgressOK, Kept0, AllCounted
  <2> QED BY <1>3, <2>2, <2>3, <2>4, <2>5, <2>6, <2>7, Zenon DEF Parts
<1> QED BY <1>4, <1>8, <1>9 DEF Ticks

\* a drain tick closes a port that owns nothing, or leaves it polled
DrainTicks(p) ==
    \/ /\ MayClose(p) /\ port' = ClosedPort /\ drain' = "terminal" /\ cancelError' = FALSE /\ geometry' = "none"
    \/ /\ port' = p /\ drain' = drain /\ cancelError' = cancelError /\ geometry' = geometry

LEMMA DrainTickIs ==
  ASSUME DrainTick
  PROVE  /\ drain = "pending" /\ native' = native /\ state' = state /\ attempted' = attempted /\ scene' = scene
         /\ checked' = checked /\ cand' = cand /\ progress' = progress /\ queue' = queue /\ acked' = acked
         /\ \E raises \in MayRaise : RaiseCounted(raises) /\ DrainTicks(Poll(port, raises).port)
BY Zenon DEF DrainTick, MayRaise, RaiseCounted, DrainTicks

LEMMA DrainTickParts == Parts /\ DrainTick => Parts'
<1> SUFFICES ASSUME Parts, DrainTick PROVE Parts'
  OBVIOUS
<1>1. /\ drain = "pending" /\ native' = native /\ state' = state /\ attempted' = attempted /\ scene' = scene
      /\ checked' = checked /\ cand' = cand /\ progress' = progress /\ queue' = queue /\ acked' = acked
  BY DrainTickIs
<1>2. /\ StreamPart /\ RunPart /\ LifeOK /\ SceneOK /\ ProgressOK /\ QueuePart /\ native \in NativeType
  BY DEF Parts, StreamPart
<1>3. port.open /\ state = "BLOCKED" /\ cancelError
  BY <1>1, <1>2 DEF LifeOK, RunPart
<1>4. PICK raises \in MayRaise : RaiseCounted(raises) /\ DrainTicks(Poll(port, raises).port)
  BY DrainTickIs
<1> DEFINE x == Poll(port, raises)
           p == x.port
<1>5. Polled(x) /\ faults' \in 0..MaxFaults
  BY <1>3, <1>4, PortPolled
<1>6. DrainTicks(p)
  BY <1>4
<1> HIDE DEF x
<1>7. p \in PortType /\ p.open /\ StreamOK(native, p)
  BY <1>5 DEF Polled, PollType
<1> HIDE DEF p
<1>8. SceneOK' /\ ProgressOK' /\ QueuePart'
  BY <1>1, <1>2, Zenon DEF SceneOK, ProgressOK, QueuePart, QueueOK
<1>9. CASE MayClose(p) /\ port' = ClosedPort /\ drain' = "terminal" /\ cancelError' = FALSE /\ geometry' = "none"
  <2>1. \A a \in Actuators, r \in Revisions : native[a][r].goal \notin Running
    BY <1>7, <1>9 DEF MayClose, OwnsGoals, StreamOK, ChildOK, ChildOwns
  <2>2. StreamOK(native, ClosedPort)
    BY <1>7, <2>1, NewPortStream DEF StreamOK
  <2>3. StreamPart'
    BY <1>1, <1>2, <1>9, <2>2, PortsAre DEF StreamPart
  <2>4. RunPart'
    BY <1>1, <1>2, <1>9 DEF RunPart
  <2>5. LifeOK'
    BY <1>1, <1>3, <1>9, PortsAre DEF LifeOK
  <2> QED BY <1>5, <1>8, <2>3, <2>4, <2>5, Zenon DEF Parts
<1>10. CASE port' = p /\ drain' = drain /\ cancelError' = cancelError /\ geometry' = geometry
  <2>1. StreamPart'
    BY <1>1, <1>2, <1>7, <1>10 DEF StreamPart
  <2>2. RunPart'
    BY <1>1, <1>2, <1>10, Zenon DEF RunPart
  <2>3. LifeOK'
    BY <1>1, <1>3, <1>7, <1>10 DEF LifeOK
  <2> QED BY <1>5, <1>8, <2>1, <2>2, <2>3, Zenon DEF Parts
<1> QED BY <1>6, <1>9, <1>10 DEF DrainTicks

\* what a submission does with the port p and the controllers n
SentClean(r, p, n) ==
    /\ native' = n /\ port' = p /\ attempted' = TRUE /\ checked' = FALSE /\ cand' = NoCandidate
    /\ progress' = [progress EXCEPT ![r] =
           [NoProgress EXCEPT !.rows = cand.rows, !.predecessor = cand.predecessor]]
    /\ acked' = 0 /\ state' = state /\ cancelError' = cancelError /\ drain' = drain /\ scene' = scene
    /\ geometry' = geometry /\ queue' = queue
SentNone(p, n) ==
    /\ native' = n /\ port' = p /\ checked' = FALSE /\ cand' = NoCandidate
    /\ state' = state /\ cancelError' = cancelError /\ drain' = drain /\ attempted' = attempted
    /\ scene' = scene /\ geometry' = geometry /\ progress' = progress /\ queue' = queue /\ acked' = acked
SentAs(send, r, p, n) ==
    \/ SentClean(r, p, n)
    \/ Fault(n, p, TRUE)
    \/ send.entered = {} /\ SentNone(p, n)
LossCounted(send) == IF send.lost = {} THEN faults' = faults ELSE Failing

LEMMA CommitSentIs ==
  ASSUME CommitSent
  PROVE  /\ state = "EXECUTING" /\ cand.status = "CHECKED" /\ SubmitReady(port) /\ NextRevision \in Revisions
         /\ \E send \in Sends, arrives \in BOOLEAN :
               /\ LossCounted(send)
               /\ SentAs(send, NextRevision, Submitted(port, NextRevision, send),
                         Delivered(NextRevision, Len(cand.rows), send, arrives))
<1>1. state = "EXECUTING" /\ cand.status = "CHECKED" /\ SubmitReady(port) /\ NextRevision \in Revisions
  BY Zenon DEF CommitSent, MayCommit, OwnsRun
<1> DEFINE r == NextRevision
           k == Len(cand.rows)
<1>2. PICK send \in Sends, arrives \in BOOLEAN :
         LET p == Submitted(port, r, send)
             n == Delivered(r, k, send, arrives)
         IN
         /\ IF send.lost = {} THEN UNCHANGED faults ELSE Failing
         /\ \/ /\ CleanSend(send)
               /\ native' = n /\ port' = p /\ attempted' = TRUE /\ ConsumeCheck /\ cand' = NoCandidate
               /\ progress' = [progress EXCEPT ![r] =
                       [NoProgress EXCEPT !.rows = cand.rows, !.predecessor = cand.predecessor]]
               /\ acked' = 0
               /\ UNCHANGED <<state, cancelError, drain, scene, geometry, queue>>
            \/ /\ ~CleanSend(send) /\ send.entered # {}
               /\ Fault(n, p, TRUE)
            \/ /\ send.entered = {}
               /\ native' = n /\ port' = p /\ ConsumeCheck /\ cand' = NoCandidate
               /\ UNCHANGED <<state, cancelError, drain, attempted, scene, geometry, progress, queue, acked>>
  BY Zenon DEF CommitSent
<1> HIDE DEF r, k
<1>3. SentAs(send, r, Submitted(port, r, send), Delivered(r, k, send, arrives))
  BY <1>2, Zenon DEF SentAs, SentClean, SentNone, ConsumeCheck
<1>4. LossCounted(send)
  BY <1>2, Zenon DEF LossCounted
<1> QED BY <1>1, <1>3, <1>4, Zenon DEF r, k

\* the progress of a revision whose goals stay, and of one just sent
LEMMA RowsSame ==
  ASSUME NEW n, NEW m, NEW t, NEW pr, RowsCrossed(pr, n, t), \A a \in Actuators : m[a][t] = n[a][t]
  PROVE  RowsCrossed(pr, m, t)
BY DEF RowsCrossed

NewProgress == [NoProgress EXCEPT !.rows = cand.rows, !.predecessor = cand.predecessor]

LEMMA NewProgressOK ==
  ASSUME QueuePart, NEW n \in NativeType, NEW r \in Revisions,
         \A a \in Actuators : n[a][r].length = Len(cand.rows)
  PROVE  NewProgress \in OneProgress /\ RowsCrossed(NewProgress, n, r)
<1>1. /\ cand.rows \in Seq(Rows) /\ cand.predecessor \in {None} \cup Revisions /\ Len(cand.rows) <= MaxRows
  BY DEF QueuePart, QueueOK
<1> DEFINE f == [a \in Actuators |-> 0]
           s == cand.rows
           q == cand.predecessor
<1>2. NoProgress = [rows |-> <<>>, predecessor |-> None, retired |-> {}, accepted |-> FALSE,
                    failed |-> {}, elapsed |-> f, count |-> 0]
  BY Zenon DEF NoProgress
<1>3. f \in [Actuators -> Nat] /\ \A a \in Actuators : f[a] = 0
  OBVIOUS
<1> HIDE DEF f
<1>4. NoProgress \in OneProgress /\ NoProgress.elapsed = f /\ NoProgress.count = 0
  BY <1>2, NoneOK
<1>5. NewProgress = [NoProgress EXCEPT !.rows = s, !.predecessor = q]
  BY DEF NewProgress
<1>6. s \in Seq(Rows) /\ q \in {None} \cup Revisions
  BY <1>1
<1> HIDE DEF s, q
<1>7. /\ NewProgress \in OneProgress /\ NewProgress.rows = s /\ NewProgress.elapsed = f
      /\ NewProgress.count = 0
  BY <1>4, <1>5, <1>6 DEF OneProgress
<1>8. NewProgress \in OneProgress /\ NewProgress.rows = cand.rows /\ NewProgress.elapsed = f
      /\ NewProgress.count = 0
  BY <1>7 DEF s
<1>9. ASSUME NEW a \in Actuators
      PROVE  /\ n[a][r].length = Len(cand.rows) /\ f[a] <= Len(cand.rows) /\ f[a] <= n[a][r].heard /\ 0 <= f[a]
  <2>1. n[a][r].heard \in Nat /\ Len(cand.rows) \in Nat
    BY <1>1, LenProperties DEF NativeType
  <2> QED BY <1>3, <2>1
<1> QED BY <1>1, <1>8, <1>9 DEF RowsCrossed

LEMMA CommitSentParts == Parts /\ CommitSent => Parts'
<1> SUFFICES ASSUME Parts, CommitSent PROVE Parts'
  OBVIOUS
<1> DEFINE r == NextRevision
           k == Len(cand.rows)
<1>1. state = "EXECUTING" /\ cand.status = "CHECKED" /\ SubmitReady(port) /\ r \in Revisions
  BY CommitSentIs
<1>2. PICK send \in Sends, arrives \in BOOLEAN :
         LossCounted(send) /\ SentAs(send, r, Submitted(port, r, send), Delivered(r, k, send, arrives))
  BY CommitSentIs
<1>3. /\ StreamPart /\ RunPart /\ LifeOK /\ SceneOK /\ ProgressOK /\ QueuePart
      /\ native \in NativeType /\ port \in PortType /\ StreamOK(native, port) /\ faults \in 0..MaxFaults
  BY DEF Parts, StreamPart
<1>4. Fresh(native, port, r)
  BY <1>1, <1>3, NextIsFresh
<1>5. k \in Nat /\ k > 0
  <2>1. cand.rows \in Seq(Rows) /\ cand.rows # <<>>
    BY <1>1, <1>3 DEF QueuePart, QueueOK
  <2>2. Len(cand.rows) \in Nat /\ Len(cand.rows) # 0
    BY <2>1, LenProperties, EmptySeq
  <2> QED BY <2>2
<1> HIDE DEF r, k
<1> DEFINE p == Submitted(port, r, send)
           n == Delivered(r, k, send, arrives)
<1>6. SubmitChanged(port, p, r, send.entered)
  BY <1>1, <1>3, <1>4, SubmittedIs
<1>7. /\ n \in NativeType /\ SendChanged(native, n, r, send.entered)
      /\ \A a \in Actuators : n[a][r].length = k
      /\ send.entered = {} => \A a \in Actuators, t \in Revisions : n[a][t].goal = native[a][t].goal
  BY <1>1, <1>3, <1>4, <1>5, DeliveredIs
<1>8. SentAs(send, r, p, n)
  BY <1>2
<1> HIDE DEF p, n
<1>9. p \in PortType /\ p.open /\ StreamOK(n, p)
  <2>1. p \in PortType /\ p.open
    BY <1>1, <1>6 DEF SubmitChanged, SubmitReady
  <2> QED BY <1>1, <1>3, <1>4, <1>6, <1>7, <2>1, StreamSubmitted
<1>10. faults' \in 0..MaxFaults
  <2>1. faults' = faults \/ Failing
    BY <1>2 DEF LossCounted
  <2> QED BY <1>3, <2>1, StreamAssumption DEF Failing, CanFail
<1>11. progress \in [Revisions -> OneProgress] /\ \A t \in Revisions : RowsCrossed(progress[t], native, t)
  BY <1>3, Zenon DEF ProgressOK, ProgressType, OneProgress
<1>12. \A t \in Revisions \ {r} : RowsCrossed(progress[t], n, t)
  <2>1. TAKE t \in Revisions \ {r}
  <2>2. \A a \in Actuators : n[a][t] = native[a][t]
    BY <1>7 DEF SendChanged
  <2> QED BY <1>11, <2>2, RowsSame
<1>13. ~cancelError /\ scene = "none" /\ drain # "pending"
  BY <1>1, <1>3 DEF LifeOK
<1>14. CASE SentClean(r, p, n)
  <2>1. /\ native' = n /\ port' = p /\ attempted' = TRUE /\ checked' = FALSE /\ cand' = NoCandidate
        /\ progress' = [progress EXCEPT ![r] = NewProgress]
        /\ acked' = 0 /\ state' = state /\ cancelError' = cancelError /\ drain' = drain /\ scene' = scene
        /\ geometry' = geometry /\ queue' = queue
    BY <1>14, Zenon DEF SentClean, NewProgress
  <2>2. StreamPart'
    BY <1>7, <1>9, <2>1 DEF StreamPart
  <2>3. RunPart'
    BY <1>3, <2>1 DEF RunPart
  <2>4. LifeOK'
    BY <1>1, <1>9, <1>13, <2>1 DEF LifeOK
  <2>5. SceneOK'
    BY <1>13, <2>1 DEF SceneOK
  <2>6. ProgressOK'
    <3>1. NewProgress \in OneProgress /\ RowsCrossed(NewProgress, n, r)
      BY <1>1, <1>3, <1>7, NewProgressOK DEF k
    <3>2. /\ progress' \in [Revisions -> OneProgress] /\ progress'[r] = NewProgress
          /\ \A t \in Revisions \ {r} : progress'[t] = progress[t]
      BY <1>1, <1>11, <2>1, <3>1
    <3>3. \A t \in Revisions : RowsCrossed(progress'[t], native', t)
      BY <1>12, <2>1, <3>1, <3>2
    <3>4. progress' \in ProgressType
      BY <3>2, Zenon DEF ProgressType, OneProgress
    <3> QED BY <3>3, <3>4, Zenon DEF ProgressOK
  <2>7. QueuePart'
    <3>1. /\ cand' \in [rows : Seq(Rows), status : {"none", "CHECKING", "CHECKED"},
                        predecessor : {None} \cup Revisions]
          /\ Len(cand'.rows) = 0 /\ cand'.status = "none"
      BY <2>1, NoneOK
    <3>2. Len(cand'.rows) <= MaxRows /\ (cand'.status # "none" => cand'.rows # <<>>) /\ acked' \in 0..MaxRows
      BY <2>1, <3>1, LearnedAssumption
    <3>3. /\ queue' \in [rows : Seq(Rows), cursor : Nat, chunk : Nat]
          /\ Len(queue'.rows) <= queue'.chunk
          /\ queue'.cursor \in 0..Len(queue'.rows) /\ queue'.chunk \in 0..MaxRows
      BY <1>3, <2>1, Zenon DEF QueuePart, QueueOK
    <3> QED BY <3>1, <3>2, <3>3, Zenon DEF QueuePart, QueueOK
  <2> QED BY <1>10, <2>2, <2>3, <2>4, <2>5, <2>6, <2>7, Zenon DEF Parts
<1>15. CASE Fault(n, p, TRUE)
  <2>1. Faulting(n, p, TRUE)
    BY <1>7, <1>9 DEF Faulting
  <2> QED BY <1>10, <1>15, <2>1, FaultParts
<1>16. CASE send.entered = {} /\ SentNone(p, n)
  <2>1. /\ native' = n /\ port' = p /\ checked' = FALSE /\ cand' = NoCandidate
        /\ state' = state /\ cancelError' = cancelError /\ drain' = drain /\ attempted' = attempted
        /\ scene' = scene /\ geometry' = geometry /\ progress' = progress /\ queue' = queue /\ acked' = acked
        /\ send.entered = {}
    BY <1>16, Zenon DEF SentNone
  <2>2. StreamPart'
    BY <1>7, <1>9, <2>1 DEF StreamPart
  <2>3. RunPart'
    BY <1>3, <2>1 DEF RunPart
  <2>4. LifeOK'
    BY <1>1, <1>9, <1>13, <2>1 DEF LifeOK
  <2>5. SceneOK'
    <3>1. \A a \in Actuators, t \in Revisions : n[a][t].goal = native[a][t].goal
      BY <1>7, <2>1
    <3> QED BY <1>3, <2>1, <3>1 DEF SceneOK
  <2>6. ProgressOK'
    \* nothing was known of the revision
    <3>1. RowsCrossed(progress[r], n, r)
      <4>1. progress[r] \in OneProgress /\ RowsCrossed(progress[r], native, r)
        BY <1>1, <1>11
      <4>2. progress[r].rows = <<>>
        <5>1. SUFFICES ASSUME progress[r].rows # <<>> PROVE FALSE
          OBVIOUS
        <5>2. "arm" \in Actuators
          BY DEF Actuators
        <5>3. native["arm"][r].length = 0 /\ native["arm"][r].length = Len(progress[r].rows)
          BY <1>4, <4>1, <5>1, <5>2 DEF Fresh, RowsCrossed
        <5>4. progress[r].rows \in Seq(Rows)
          BY <4>1 DEF OneProgress
        <5> QED BY <5>1, <5>3, <5>4, EmptySeq
      <4> QED BY <4>1, <4>2 DEF RowsCrossed
    <3>2. \A t \in Revisions : RowsCrossed(progress[t], n, t)
      BY <1>12, <3>1
    <3> QED BY <1>3, <2>1, <3>2, Zenon DEF ProgressOK
  <2>7. QueuePart'
    BY <1>3, <2>1, NoCandidateQueue
  <2> QED BY <1>10, <2>2, <2>3, <2>4, <2>5, <2>6, <2>7, Zenon DEF Parts
<1> QED BY <1>8, <1>14, <1>15, <1>16 DEF SentAs

(***************************************************************************)
(* 6. The theorems                                                         *)
(***************************************************************************)
LEMMA StutterParts ==
  ASSUME Parts, UNCHANGED vars
  PROVE  Parts'
<1>1. /\ native' = native /\ port' = port /\ faults' = faults /\ state' = state /\ cancelError' = cancelError
      /\ drain' = drain /\ attempted' = attempted /\ scene' = scene /\ geometry' = geometry
      /\ checked' = checked /\ cand' = cand /\ progress' = progress /\ queue' = queue /\ acked' = acked
  BY DEF vars
<1>2. OwnerFrame
  BY <1>1, Zenon DEF OwnerFrame
<1>3. QueuePart' /\ faults' \in 0..MaxFaults /\ checked' \in BOOLEAN
  BY <1>1, Zenon DEF Parts, RunPart, QueuePart, QueueOK
<1> QED BY <1>2, <1>3, OwnerParts

LEMMA StepParts == Parts /\ [Next]_vars => Parts'
<1> SUFFICES ASSUME Parts, [Next]_vars PROVE Parts'
  OBVIOUS
<1>1. CASE Execute
  BY <1>1, ExecuteParts
<1>2. CASE Prepare
  BY <1>2, PrepareParts
<1>3. CASE CommitSceneBusy
  BY <1>3, CommitSceneBusyParts
<1>4. CASE CommitRefused
  BY <1>4, CommitRefusedParts
<1>5. CASE CommitSent
  BY <1>5, CommitSentParts
<1>6. CASE Tick
  BY <1>6, TickParts
<1>7. CASE Stop
  BY <1>7, StopParts
<1>8. CASE DrainTick
  BY <1>8, DrainTickParts
<1>9. CASE Infer
  BY <1>9, InferParts
<1>10. CASE Reset
  BY <1>10, ResetParts
<1>11. CASE Acknowledge
  BY <1>11, AcknowledgeParts
<1>12. ASSUME NEW a \in Actuators, NEW r \in Revisions, Controller(a, r) PROVE Parts'
  BY <1>12, ControllerParts
<1>13. CASE UNCHANGED vars
  BY <1>13, StutterParts
<1> QED BY <1>1, <1>2, <1>3, <1>4, <1>5, <1>6, <1>7, <1>8, <1>9, <1>10, <1>11, <1>12, <1>13 DEF Next

\* The inductive invariant holds: whatever the controllers, the policy, the
\* owner and the faults do, for every bound on them.
THEOREM Invariance == Spec => []Inv
<1>1. Init => Inv
  BY InitParts, PartsInv
<1>2. Inv /\ [Next]_vars => Inv'
  <2>1. Inv /\ [Next]_vars => Parts'
    BY InvParts, StepParts
  <2>2. Parts' => Inv'
    BY PartsInv, PTL
  <2> QED BY <2>1, <2>2
<1> QED BY <1>1, <1>2, PTL DEF Spec

\* Every variable of a learned task has its type.
THEOREM TypeCorrect == Spec => []TypeOK
<1>1. Inv => TypeOK
  BY DEF Inv
<1> QED BY <1>1, Invariance, PTL

\* A goal a controller may be moving for is held by the stream that can cancel
\* it and hear its end (ActuatorStream._pairs, ArmStream._current, _pending and
\* _retiring), whatever was replaced, refused, lost or canceled.
THEOREM OwnedGoals == Spec => []GoalsAreOwned
<1>1. Inv => GoalsAreOwned
  <2> SUFFICES ASSUME Inv PROVE GoalsAreOwned
    OBVIOUS
  <2>1. StreamOK(native, port) /\ LifeOK /\ port \in PortType
    <3>1. Parts
      BY InvParts
    <3> QED BY <3>1 DEF Parts, StreamPart
  <2>2. ASSUME NEW a \in Actuators, NEW r \in Revisions, native[a][r].goal \in Running
        PROVE  port.open /\ r \in Owned(port, a)
    <3>1. r \in Owned(port, a)
      BY <2>1, <2>2 DEF StreamOK, ChildOK, ChildOwns
    <3>2. ~port.open => Owned(port, a) = {}
      BY <2>1, NewPortIs DEF LifeOK
    <3> QED BY <3>1, <3>2
  <2>3. \A a \in Actuators : \A r \in Owned(port, a) : port.pair[r].live
    BY <2>1 DEF StreamOK, ChildOK, ChildOwns
  <2>4. ASSUME ~Fenced(port), port.pending = None, NEW a \in Actuators
        PROVE  port.slot[a]["pend"] = None /\ port.slot[a]["cur"] \in {None, port.current}
    BY <2>1, <2>4 DEF StreamOK, ChildOK, ChildUnfenced
  <2> QED BY <2>2, <2>3, <2>4 DEF GoalsAreOwned
<1> QED BY <1>1, Invariance, PTL

\* A blocked run reports a certain end only when nothing moves or can, and
\* reports an object as untouched only when no goal was ever sent for it
\* (PickupExecutor._fault and _drain_actuator_stream).
THEOREM HonestReport == Spec => []ReportIsHonest
<1>1. Inv => ReportIsHonest
  <2> SUFFICES ASSUME Inv PROVE ReportIsHonest
    OBVIOUS
  <2>1. StreamOK(native, port) /\ LifeOK /\ SceneOK
    BY DEF Inv
  <2>2. ASSUME state = "BLOCKED", ~cancelError, NEW a \in Actuators, NEW r \in Revisions
        PROVE  native[a][r].goal \notin Running
    <3>1. Owned(port, a) = {}
      BY <2>1, <2>2, NewPortIs DEF LifeOK
    <3> QED BY <2>1, <3>1 DEF StreamOK, ChildOK, ChildOwns
  <2>3. scene = "NO_DISPATCH" => \A a \in Actuators, r \in Revisions : native[a][r].goal = "unsent"
    BY <2>1 DEF SceneOK
  <2> QED BY <2>2, <2>3 DEF ReportIsHonest
<1> QED BY <1>1, Invariance, PTL

\* the steps other than an acknowledgement consume nothing
LEMMA NothingConsumed ==
  ASSUME Parts, [Next]_vars, ~Acknowledge
  PROVE  queue'.cursor = queue.cursor \/ queue'.cursor = 0
<1>1. Prepare \/ CommitSceneBusy \/ CommitRefused \/ DrainTick \/ UNCHANGED vars => queue' = queue
  BY DEF Prepare, CommitSceneBusy, CommitRefused, DrainTick, vars
<1>2. ASSUME NEW a \in Actuators, NEW r \in Revisions, Controller(a, r) PROVE queue' = queue
  BY <1>2 DEF Controller, Around
<1>3. ASSUME NEW n, NEW p, NEW tried, Fault(n, p, tried) PROVE queue'.cursor = 0
  BY <1>3, NoneOK DEF Fault, Retired
<1>4. Execute => queue' = queue \/ queue'.cursor = 0
  BY <1>3 DEF Execute
<1>5. Stop => queue'.cursor = 0
  BY <1>3 DEF Stop
<1>6. CASE Tick
  <2>1. PICK x, o : Ticks(x, o)
    BY <1>6, TickIs
  <2> QED BY <1>3, <2>1 DEF Ticks, TickClean
<1>7. CASE CommitSent
  <2>1. PICK send, r, p, n : SentAs(send, r, p, n)
    BY <1>7, CommitSentIs
  <2> QED BY <1>3, <2>1 DEF SentAs, SentClean, SentNone
<1>8. CASE Infer
  <2>1. PICK n : queue' = Merge(queue, n)
    BY <1>8, Zenon DEF Infer
  <2> DEFINE rows == Remaining(queue) \o [i \in 1..n |-> <<queue.chunk + n, i - 1>>]
  <2>2. queue' = [rows |-> rows, cursor |-> 0, chunk |-> queue.chunk + n]
    BY <2>1, Zenon DEF Merge
  <2> HIDE DEF rows
  <2> QED BY <2>2
<1>9. CASE Reset
  <2>1. queue' = [queue EXCEPT !.rows = <<>>, !.cursor = 0]
    BY <1>9 DEF Reset, Clear
  <2>2. queue \in [rows : Seq(Rows), cursor : Nat, chunk : Nat]
    BY Zenon DEF Parts, QueuePart, QueueOK
  <2> QED BY <2>1, <2>2
<1> QED BY <1>1, <1>2, <1>4, <1>5, <1>6, <1>7, <1>8, <1>9 DEF Next

\* Every row that leaves the queue is a row of a committed revision that the
\* references of both actuators have crossed (acknowledge_stream_selection and
\* ReferenceProgress._update), whatever was inferred, replaced or canceled.
THEOREM EarnedAck == Spec => AckIsEarned
<1> DEFINE Step == queue'.cursor > queue.cursor => Earned
<1>1. Inv /\ [Next]_vars => [Step]_vars
  <2> SUFFICES ASSUME Inv, [Next]_vars PROVE Step
    OBVIOUS
  <2>1. Parts
    BY InvParts
  <2>2. CASE Acknowledge
    BY <2>1, <2>2, AcknowledgeEarned
  <2>3. CASE ~Acknowledge
    <3>1. queue'.cursor = queue.cursor \/ queue'.cursor = 0
      BY <2>1, <2>3, NothingConsumed
    <3>2. queue.cursor \in Nat
      BY <2>1, RemainingIs DEF Parts
    <3>3. ~(queue'.cursor > queue.cursor)
      BY <3>1, <3>2
    <3> QED BY <3>3
  <2> QED BY <2>2, <2>3
<1>2. [Step]_vars =>
        [queue'.cursor > queue.cursor =>
            \A i \in queue.cursor + 1..queue'.cursor : \E r \in Submissions :
                \E j \in 1..Len(progress[r].rows) :
                    /\ progress[r].rows[j] = queue.rows[i]
                    /\ \A a \in Actuators : Crossed(a, r, j)]_vars
  BY Zenon DEF Earned
<1> HIDE DEF Step
<1> QED BY <1>1, <1>2, Invariance, PTL DEF Spec, AckIsEarned

===============================================================================
