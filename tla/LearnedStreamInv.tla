-------------------------- MODULE LearnedStreamInv ---------------------------
(***************************************************************************)
(* The inductive invariant of a learned task: what a poll, a submission, a *)
(* fault and the controllers keep of the port (StreamOK), and what the     *)
(* owner, the inference thread and the ticks keep of the progress and of   *)
(* the queue.                                                              *)
(*                                                                         *)
(* The port's part is stated of any native controllers n and port p, since *)
(* a step of the owner or of a tick changes both at once.  What one child  *)
(* keeps takes the revisions it has accepted and is done with, and whether *)
(* the stream is fenced, as parameters: in the middle of a poll these are  *)
(* not yet written in the pairs, only in the events the child has said.    *)
(***************************************************************************)
EXTENDS LearnedStream

Rows == Nat \X Nat

(***************************************************************************)
(* The port and the controllers                                            *)
(***************************************************************************)
NativeType ==
    [Actuators -> [Revisions -> [goal : {"unsent", "refused", "unread"} \cup Running \cup Ended,
                                 heard : Nat, length : Nat]]]
PairType ==
    [live : BOOLEAN, accepted : SUBSET Actuators, done : SUBSET Actuators,
     succeeded : SUBSET Actuators, rejected : BOOLEAN, emitted : BOOLEAN,
     predecessor : {None} \cup Revisions]
ItemType == [handle : {"none", "lost", "held", "attached"}, asked : {"no", "yes", "failed"}]
PortType ==
    [open : BOOLEAN, fenced : [Actuators -> BOOLEAN], current : {None} \cup Revisions,
     pending : {None} \cup Revisions, slot : [Actuators -> [Slots -> {None} \cup Revisions]],
     item : [Actuators -> [Revisions -> ItemType]], pair : [Revisions -> PairType]]

AcceptedOf(p, a) == {r \in Revisions : a \in p.pair[r].accepted}
DoneOf(p, a) == {r \in Revisions : a \in p.pair[r].done}

\* the revisions submitted are the first ones; nothing is known of the others,
\* and a row is only heard of a goal that is long enough
NativeOK(n, p) ==
    /\ \E k \in 0..MaxRevisions : \A a \in Actuators, r \in Revisions : n[a][r].length > 0 <=> r <= k
    /\ \A a \in Actuators, r \in Revisions :
          /\ n[a][r].length = 0 => n[a][r].goal = "unsent" /\ p.item[a][r].handle = "none"
          /\ n[a][r].heard <= n[a][r].length

\* a goal that may move is in a slot; a slot's revision is submitted, its pair
\* known and the child not done with it; no revision is in two slots, and
\* nothing retires while a goal is pending
ChildOwns(n, p, a, done) ==
    /\ \A r \in Revisions : n[a][r].goal \in Running => r \in Owned(p, a)
    /\ \A r \in Owned(p, a) : n[a][r].length > 0 /\ p.pair[r].live /\ r \notin done
    /\ \A s \in Slots, t \in Slots : p.slot[a][s] = p.slot[a][t] /\ p.slot[a][s] # None => s = t
    /\ p.slot[a]["pend"] # None => p.slot[a]["ret"] = None

\* a goal has a handle only once it was accepted, and a child that is done
\* with a revision had accepted it, or the stream is fenced
ChildHeard(p, a, accepted, done, fenced) ==
    /\ \A r \in Owned(p, a) : p.item[a][r].handle \in {"held", "attached"} => r \in accepted
    /\ ~fenced => done \subseteq accepted

\* unless the stream is fenced, a child waits for the pending pair only, and
\* runs that one, the current one or nothing
ChildUnfenced(p, a, accepted) ==
    /\ p.slot[a]["pend"] \in {None, p.pending}
    /\ p.slot[a]["cur"] \in {None, p.current, p.pending}
    /\ p.pending # None /\ p.pending \in accepted =>
          p.slot[a]["pend"] = None /\ p.slot[a]["cur"] \in {None, p.pending}

ChildOK(n, p, a, accepted, done, fenced) ==
    /\ ChildOwns(n, p, a, done)
    /\ ChildHeard(p, a, accepted, done, fenced)
    /\ ~fenced => ChildUnfenced(p, a, accepted)

\* one pair at most waits for its acceptance, and a rejected one has fenced
\* the stream
PairsOK(p, fenced) ==
    /\ \A r \in Revisions : p.pair[r].live /\ ~p.pair[r].emitted <=> r = p.pending
    /\ \A r \in Revisions : p.pair[r].rejected => fenced

StreamOK(n, p) ==
    /\ NativeOK(n, p)
    /\ \A a \in Actuators : ChildOK(n, p, a, AcceptedOf(p, a), DoneOf(p, a), Fenced(p))
    /\ PairsOK(p, Fenced(p))

(***************************************************************************)
(* The run                                                                 *)
(***************************************************************************)
\* the port is open from the start of the run to the end of its drain; an
\* uncertain cancellation is reported as long as it is open
LifeOK ==
    /\ ~port.open => port = ClosedPort
    /\ state = "APPROVED" =>
          /\ ~port.open /\ ~attempted
          /\ \A a \in Actuators, r \in Revisions : native[a][r].length = 0
    /\ state # "BLOCKED" => ~cancelError /\ scene = "none" /\ drain # "pending"
    /\ state = "EXECUTING" => port.open
    /\ state = "BLOCKED" /\ ~cancelError => ~port.open
    /\ drain = "pending" => port.open

\* what is not attempted was not sent, and the object is left alone only then
SceneOK ==
    /\ ~attempted => \A a \in Actuators, r \in Revisions : native[a][r].goal = "unsent"
    /\ scene = "NO_DISPATCH" => ~attempted

ProgressType ==
    [Revisions -> [rows : Seq(Rows), predecessor : {None} \cup Revisions, retired : SUBSET Actuators,
                   accepted : BOOLEAN, failed : SUBSET Actuators, elapsed : [Actuators -> Nat],
                   count : Nat]]

\* no more rows are counted than both references have crossed
RowsCrossed(pr, n, r) ==
    /\ pr.rows = <<>> => pr.count = 0
    /\ Len(pr.rows) <= MaxRows
    /\ pr.rows # <<>> =>
          \A a \in Actuators :
             /\ n[a][r].length = Len(pr.rows)
             /\ pr.elapsed[a] <= Len(pr.rows)
             /\ pr.elapsed[a] <= n[a][r].heard \/ n[a][r].goal = "succeeded"
             /\ pr.count <= pr.elapsed[a]

ProgressOK ==
    /\ progress \in ProgressType
    /\ \A r \in Revisions : RowsCrossed(progress[r], native, r)

QueueOK ==
    /\ queue \in [rows : Seq(Rows), cursor : Nat, chunk : Nat]
    /\ Len(queue.rows) <= queue.chunk
    /\ cand \in [rows : Seq(Rows), status : {"none", "CHECKING", "CHECKED"},
                 predecessor : {None} \cup Revisions]
    /\ Len(cand.rows) <= MaxRows
    /\ cand.status # "none" => cand.rows # <<>>

Inv ==
    /\ TypeOK
    /\ StreamOK(native, port)
    /\ LifeOK
    /\ SceneOK
    /\ ProgressOK
    /\ QueueOK

===============================================================================
