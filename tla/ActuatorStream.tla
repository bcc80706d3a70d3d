---------------------------- MODULE ActuatorStream ----------------------------
(***************************************************************************)
(* The native actuator stream of a learned task: one logical motion slot   *)
(* whose revisions are each a pair of goals, one for the arm's trajectory  *)
(* controller and one for the gripper's.  A new revision replaces the      *)
(* running one without a stop between them.                                *)
(*                                                                         *)
(*   ArmStream        motion/arm_stream.py: one client; a goal is pending  *)
(*                    until it is answered, then current; the one it       *)
(*                    replaced is retiring until its result arrives        *)
(*   ActuatorStream   motion/actuator_stream.py: the two children, the     *)
(*                    pairs, and the events a poll hands to the executor   *)
(*   native           the two controllers, outside the repository: they    *)
(*                    decide, replace, move, end and answer in any order   *)
(*                                                                         *)
(* Revision r is the r-th submission.  native is what has reached the      *)
(* client, so a late message is a controller that has not taken the step:  *)
(* a goal is sent until its answer arrives (mute: one that cannot be       *)
(* read), and moving until its result arrives (unread: one that cannot be  *)
(* read); heard is how many rows of the revision the newest delivered      *)
(* feedback lies past.                                                     *)
(***************************************************************************)
EXTENDS Naturals, Sequences, FiniteSets

CONSTANTS
    MaxRevisions,   \* bound on the revisions submitted
    MaxFaults       \* bound on refusals, aborts, failed calls, lost answers and resets

ASSUME StreamAssumption == MaxRevisions \in Nat /\ MaxFaults \in Nat

VARIABLES
    native,     \* per actuator and revision: the goal and its feedback
    port,       \* MoveItTransport._active: the ActuatorStream
    faults

Actuators == {"arm", "gripper"}
Revisions == 1..MaxRevisions
None == 0
Slots == {"cur", "pend", "ret"}

Running == {"sent", "mute", "moving"}
Ended == {"succeeded", "canceled", "aborted"}

Event(kind, a, r, value) == [event |-> kind, actuator |-> a, revision |-> r, value |-> value]

\* the item of a goal: its handle (lost: no response was obtained; held: the
\* result was never requested) and whether its cancellation was asked for
NewItem == [handle |-> "none", asked |-> "no"]

\* a revision's _Pair; live while it is in _pairs
NewPair == [live |-> FALSE, accepted |-> {}, done |-> {}, succeeded |-> {},
            rejected |-> FALSE, emitted |-> FALSE, predecessor |-> None]

ClosedPort ==
    [open |-> FALSE, fenced |-> [a \in Actuators |-> FALSE], current |-> None, pending |-> None,
     slot |-> [a \in Actuators |-> [s \in Slots |-> None]],
     item |-> [a \in Actuators |-> [r \in Revisions |-> NewItem]],
     pair |-> [r \in Revisions |-> NewPair]]

OpenPort == [ClosedPort EXCEPT !.open = TRUE]

Owned(p, a) == {p.slot[a][s] : s \in Slots} \ {None}
OwnsGoals(p) == \E a \in Actuators : Owned(p, a) # {}
Fenced(p) == \E a \in Actuators : p.fenced[a]

StreamInit ==
    /\ native = [a \in Actuators |-> [r \in Revisions |->
                    [goal |-> "unsent", heard |-> 0, length |-> 0]]]
    /\ port = ClosedPort
    /\ faults = 0

CanFail == faults < MaxFaults

(***************************************************************************)
(* Submission                                                              *)
(***************************************************************************)
Cancel(p) == [p EXCEPT !.fenced = [a \in Actuators |-> TRUE]]

\* child_ready: the child runs the current revision, or has finished it well
Ready(p, a) ==
    /\ p.slot[a]["pend"] = None /\ p.slot[a]["ret"] = None
    /\ \/ p.slot[a]["cur"] = p.current
       \/ /\ p.slot[a]["cur"] = None /\ p.current # None
          /\ a \in p.pair[p.current].succeeded

SubmitReady(p) ==
    p.open /\ ~Fenced(p) /\ p.pending = None /\ \A a \in Actuators : Ready(p, a)

\* entered: the clients whose send was called; lost: the one whose call
\* raised.  The arm is first, and the gripper is tried only after it.
Sends == {[entered |-> {}, lost |-> {}], [entered |-> {"arm"}, lost |-> {}],
          [entered |-> {"arm"}, lost |-> {"arm"}], [entered |-> Actuators, lost |-> {"gripper"}],
          [entered |-> Actuators, lost |-> {}]}
CleanSend(send) == send.entered = Actuators /\ send.lost = {}

\* _submit: the pair is registered before the first send and the item is
\* owned before its own; a child that raises fences both
Submitted(p, r, send) ==
    LET q == [p EXCEPT !.pending = r,
                       !.pair[r] = [NewPair EXCEPT !.live = TRUE, !.predecessor = p.current],
                       !.slot = [a \in Actuators |->
                                    IF a \in send.entered THEN [p.slot[a] EXCEPT !["pend"] = r] ELSE p.slot[a]],
                       !.item = [a \in Actuators |->
                                    IF a \in send.lost THEN [p.item[a] EXCEPT ![r].handle = "lost"] ELSE p.item[a]]]
    IN IF CleanSend(send) THEN q ELSE Cancel(q)

\* a send that raised may still have reached the controller
Delivered(r, n, send, arrives) ==
    [a \in Actuators |->
        IF a \in send.entered /\ (a \in send.lost => arrives)
        THEN [native[a] EXCEPT ![r] = [@ EXCEPT !.goal = "sent", !.length = n]]
        ELSE [native[a] EXCEPT ![r].length = n]]

(***************************************************************************)
(* Polling.  x carries the port, the events of the poll, the children      *)
(* whose poll failed, and the request (if any) that raises in this poll:   *)
(* <<a, "result">> for get_result_async, <<a, "cancel">> for a cancel.     *)
(***************************************************************************)
Say(x, a, r, kind, value) == [x EXCEPT !.events = Append(@, Event(kind, a, r, value))]
Break(x, a) == [x EXCEPT !.port.fenced[a] = TRUE, !.failed = @ \cup {a}]

\* the pending goal's answer.  ACCEPTED is said before the result is asked
\* for, and a goal whose request raised stays pending with its handle.
HearAnswer(x, a) ==
    LET r == x.port.slot[a]["pend"]
        accepted == Say([x EXCEPT !.port.item[a][r].handle = "held"], a, r, "ACCEPTED", 0)
    IN IF r = None \/ x.port.item[a][r].handle # "none" THEN x
       ELSE CASE native[a][r].goal = "sent" -> x
              [] native[a][r].goal = "mute" -> Break(x, a)
              [] native[a][r].goal = "refused" ->
                     Say([x EXCEPT !.port.slot[a]["pend"] = None], a, r, "REJECTED", 0)
              [] OTHER ->
                     IF x.raises = <<a, "result">> THEN Break(accepted, a)
                     ELSE [accepted EXCEPT !.port.item[a][r].handle = "attached",
                                           !.port.slot[a] = [cur |-> r, pend |-> None, ret |-> @["cur"]]]

\* the item of r: the feedback it tells, and the failure of a result that
\* cannot be read
HasHandle(x, a, r) == x.port.item[a][r].handle \in {"held", "attached"}
Told(x, a, r) ==
    IF HasHandle(x, a, r) /\ native[a][r].heard > 0
    THEN Say(x, a, r, "FEEDBACK", native[a][r].heard) ELSE x
Heard(x, a, r) == IF native[a][r].goal = "unread" THEN Break(Told(x, a, r), a) ELSE Told(x, a, r)

\* its result arrived, and the slot lets it go
HasEnded(x, a, r) == x.port.item[a][r].handle = "attached" /\ native[a][r].goal \in Ended
Release(x, a, s, bad) == [x EXCEPT !.port.slot[a][s] = None, !.port.fenced[a] = @ \/ bad]

\* the cancellation a fenced stream asks for once and never again
Asks(x, a, r) == x.port.fenced[a] /\ HasHandle(x, a, r) /\ x.port.item[a][r].asked = "no"
Asked(x, a, r, how) == [x EXCEPT !.port.item[a][r].asked = how]

\* one owned item
Visit(x, a, s) ==
    LET r == x.port.slot[a][s]
        y == Heard(x, a, r)
        bad == s = "cur" /\ native[a][r].goal # "succeeded"
        raises == x.raises = <<a, "cancel">>
    IN CASE r = None -> x
         [] r # None /\ HasEnded(x, a, r) ->
                Say(Release(Told(x, a, r), a, s, bad), a, r, "TERMINAL", native[a][r].goal)
         [] r # None /\ ~HasEnded(x, a, r) /\ Asks(y, a, r) /\ raises -> Break(Asked(y, a, r, "failed"), a)
         [] r # None /\ ~HasEnded(x, a, r) /\ Asks(y, a, r) /\ ~raises -> Asked(y, a, r, "yes")
         [] OTHER -> y

\* _record of the events after the first k; a REJECTED fences both children
Record(x, a, k) ==
    LET said(r, kind) == \E i \in k + 1..Len(x.events) :
                            x.events[i].event = kind /\ x.events[i].revision = r
        won(r) == \E i \in k + 1..Len(x.events) :
                            x.events[i] = Event("TERMINAL", a, r, "succeeded")
        add(S, holds) == IF holds THEN S \cup {a} ELSE S
        pair == [r \in Revisions |->
                    [x.port.pair[r] EXCEPT !.accepted = add(@, said(r, "ACCEPTED")),
                                           !.done = add(@, said(r, "REJECTED") \/ said(r, "TERMINAL")),
                                           !.succeeded = add(@, won(r)),
                                           !.rejected = @ \/ said(r, "REJECTED")]]
        noted == [x EXCEPT !.port.pair = pair]
    IN IF k = Len(x.events) THEN x
       ELSE IF \E r \in Revisions : said(r, "REJECTED") THEN [noted EXCEPT !.port = Cancel(@)]
       ELSE noted

PollChild(x, a) ==
    Record(Visit(Visit(Visit(HearAnswer(x, a), a, "ret"), a, "cur"), a, "pend"), a, Len(x.events))

\* (mutant: the pair is taken for accepted when one child has accepted it)
Paired_one_child(p) == {r \in Revisions : /\ p.pair[r].live /\ p.pair[r].accepted # {}
                                          /\ ~p.pair[r].rejected /\ ~p.pair[r].emitted}

\* _logical_events: the pairs both children have accepted
Paired(p) == {r \in Revisions : /\ p.pair[r].live /\ p.pair[r].accepted = Actuators
                                /\ ~p.pair[r].rejected /\ ~p.pair[r].emitted}
LogicalEvents(x) ==
    LET new == Paired(x.port)
        over == {r \in Revisions : x.port.pair[r].live /\ x.port.pair[r].done = Actuators}
        current == IF new = {} THEN x.port.current ELSE CHOOSE r \in new : TRUE
        said == IF new = {} THEN x
                ELSE Say(x, "both", current, "PAIR_ACCEPTED", x.port.pair[current].predecessor)
        kept == [r \in Revisions |-> IF r \in over THEN NewPair
                                     ELSE [x.port.pair[r] EXCEPT !.emitted = @ \/ r \in new]]
    IN IF new = {} /\ over = {} THEN x
       ELSE [said EXCEPT !.port.current = IF current \in over THEN None ELSE current,
                         !.port.pending = IF new # {} \/ @ \in over THEN None ELSE @,
                         !.port.pair = kept]

\* poll: the arm, then the gripper; when anything is fenced both are, and a
\* child whose first poll did not fail is polled again.
Poll(p, raises) ==
    LET start == [port |-> p, events |-> <<>>, failed |-> {}, raises |-> raises]
        once == PollChild(PollChild(start, "arm"), "gripper")
        fenced == [once EXCEPT !.port = Cancel(@)]
        again(x, a) == IF a \in once.failed THEN x ELSE PollChild(x, a)
    IN LogicalEvents(IF Fenced(once.port) THEN again(again(fenced, "arm"), "gripper") ELSE once)

\* what may raise in a poll
Raising(p) ==
    {<<a, "result">> : a \in {b \in Actuators : \E r \in {p.slot[b]["pend"]} \ {None} :
        p.item[b][r].handle = "none" /\ native[b][r].goal \notin {"sent", "mute", "refused"}}}
    \cup {<<a, "cancel">> : a \in {b \in Actuators : \E r \in Owned(p, b) :
        p.item[b][r].handle # "lost" /\ p.item[b][r].asked = "no"}}
NoRaise == <<"none", "none">>

(***************************************************************************)
(* The controllers (external)                                              *)
(***************************************************************************)
Goal(a, r, goal) == native' = [native EXCEPT ![a][r].goal = goal]
Failing == CanFail /\ faults' = faults + 1

Answer(a, r) ==
    /\ native[a][r].goal = "sent" /\ port.item[a][r].handle # "lost"
    /\ \/ Goal(a, r, "moving") /\ UNCHANGED faults
       \/ \E bad \in {"refused", "mute"} : Goal(a, r, bad) /\ Failing
    /\ UNCHANGED port

Move(a, r) ==
    /\ native[a][r].goal = "moving" /\ native[a][r].heard < native[a][r].length
    /\ native' = [native EXCEPT ![a][r].heard = @ + 1]
    /\ UNCHANGED <<port, faults>>

\* a goal the controller has accepted replaces the one that is moving, which
\* may be heard before the answer is
Replaced(a, r) == \E q \in Revisions : q > r /\ native[a][q].goal \notin {"unsent", "refused"}

\* the result arrives: at the last row, on a failure, or canceled because it
\* was asked for or the goal was replaced
End(a, r) ==
    /\ native[a][r].goal = "moving" /\ port.item[a][r].handle = "attached"
    /\ \/ Goal(a, r, "succeeded") /\ UNCHANGED faults
       \/ /\ port.item[a][r].asked = "yes" \/ Replaced(a, r)
          /\ Goal(a, r, "canceled") /\ UNCHANGED faults
       \/ \E bad \in {"aborted", "unread"} : Goal(a, r, bad) /\ Failing
    /\ UNCHANGED port

(***************************************************************************)
StreamTypeOK ==
    /\ native \in [Actuators -> [Revisions -> [goal : {"unsent", "refused", "unread"} \cup Running \cup Ended,
                                               heard : Nat, length : Nat]]]
    /\ port \in [open : BOOLEAN, fenced : [Actuators -> BOOLEAN], current : {None} \cup Revisions,
                 pending : {None} \cup Revisions, slot : [Actuators -> [Slots -> {None} \cup Revisions]],
                 item : [Actuators -> [Revisions -> [handle : {"none", "lost", "held", "attached"},
                                                     asked : {"no", "yes", "failed"}]]],
                 pair : [Revisions -> [live : BOOLEAN, accepted : SUBSET Actuators, done : SUBSET Actuators,
                                       succeeded : SUBSET Actuators, rejected : BOOLEAN, emitted : BOOLEAN,
                                       predecessor : {None} \cup Revisions]]]
    /\ faults \in 0..MaxFaults
===============================================================================
