---------------------------- MODULE LearnedStream -----------------------------
(***************************************************************************)
(* A learned task: the policy's rows wait in the acknowledged queue; the   *)
(* owner selects a prefix of them, has the executor check it against the   *)
(* native geometry and commit it to the actuator stream, and consumes the  *)
(* rows that both controllers' references have crossed.  Whatever goes     *)
(* wrong fences the stream and is drained until the controllers have       *)
(* answered for every goal.                                                *)
(*                                                                         *)
(*   AckQueue         the queue the inference thread and the owner share   *)
(*   ActuatorStream   the port, its two clients and the controllers        *)
(*   PickupExecutor   motion/pickup_executor.py: the stream operations,    *)
(*                    the tick, the fault and the drain                    *)
(*   MoveItTransport  motion/moveit_transport.py: the port's life and the  *)
(*                    geometry helper's one candidate                      *)
(*   selection, progress   rollout/stream_selection.py, stream_progress.py *)
(*                                                                         *)
(* process and tick run on one thread, so each request and each tick is    *)
(* one step; the controllers, the helper, the inference thread and the     *)
(* other writers of the scene move between them.  The geometry of a        *)
(* revision, its anchor and its start time are what a guard may refuse.    *)
(* The owner (the caller of the stream's operations, which drives them as  *)
(* their tests do) takes any step it may.                                  *)
(***************************************************************************)
EXTENDS ActuatorStream, AckQueue

CONSTANT MaxRows   \* bound on the rows the policy infers, in chunks of any length

ASSUME LearnedAssumption == MaxRows \in Nat

VARIABLES
    state,        \* run["state"]
    cancelError,  \* execution["cancel_error"]
    drain,        \* actuator_stream_stop_pending, and its settled status
    attempted,    \* motion_dispatch_attempted
    scene,        \* what the fault wrote of the object (UNKNOWN: it tried)
    geometry,     \* the helper and its capture
    checked,      \* MoveItTransport._native_geometry_candidate is not None
    cand,         \* _native_revision_candidate
    progress,     \* _native_revision_progress, by revision
    queue,
    acked         \* rows the owner has consumed of the revision last committed

exec == <<state, cancelError, drain, attempted, scene>>
vars == <<native, port, faults, state, cancelError, drain, attempted, scene,
          geometry, checked, cand, progress, queue, acked>>

NoCandidate == [rows |-> <<>>, status |-> "none", predecessor |-> None]
NoProgress == [rows |-> <<>>, predecessor |-> None, retired |-> {}, accepted |-> FALSE,
               failed |-> {}, elapsed |-> [a \in Actuators |-> 0], count |-> 0]

Init ==
    /\ StreamInit
    /\ state = "APPROVED" /\ cancelError = FALSE /\ drain = "none"
    /\ attempted = FALSE /\ scene = "none"
    /\ geometry = "none" /\ checked = FALSE /\ cand = NoCandidate
    /\ progress = [r \in Revisions |-> NoProgress]
    /\ queue = EmptyQueue /\ acked = 0

(***************************************************************************)
(* The fault                                                               *)
(***************************************************************************)
\* (mutant: a run that is stopped leaves its stream as it was)
Fence_forgotten(p) == port' = p

\* fence_learned_actuator_stream of port p: cancellation is asked for as
\* handles become known, and the helper is told to go
Fence(p) == port' = Cancel(p)

\* _close_learned_geometry: the candidate is forgotten at once; the helper is
\* killed, and closed when its process has exited
CloseGeometry == checked' = FALSE /\ UNCHANGED geometry

\* the scene keeps what it says only when no send was entered; otherwise the
\* object becomes unknown, or the write fails and is reported as an error
Preserve(tried) == scene' = IF tried THEN "UNKNOWN" ELSE "NO_DISPATCH"

\* A blocked run refuses every request: its candidate, its progress and the
\* feedback it hears are only evidence, and the owner stops the engine with
\* its queue.  The model lets go of them.
Retired(n) ==
    /\ native' = [a \in Actuators |-> [r \in Revisions |-> [n[a][r] EXCEPT !.heard = 0]]]
    /\ cand' = NoCandidate /\ progress' = [r \in Revisions |-> NoProgress]
    /\ queue' = EmptyQueue /\ acked' = 0

\* _fault with the controllers as n, the port as p and
\* motion_dispatch_attempted as tried: a port that was opened stays uncertain
\* until it is drained
Fault(n, p, tried) ==
    /\ state' = "BLOCKED" /\ attempted' = tried /\ Preserve(tried) /\ Retired(n)
    /\ IF p.open
       THEN cancelError' = TRUE /\ drain' = "pending" /\ Fence(p) /\ CloseGeometry
       ELSE port' = p /\ UNCHANGED <<cancelError, drain, checked, geometry>>

(***************************************************************************)
(* _execute_stream: the cell is blocked, then the port is opened and the   *)
(* geometry helper started; either may fail                                *)
(***************************************************************************)
StartGeometry == geometry' = "pending"

Execute ==
    /\ state = "APPROVED"
    /\ \/ Fault(native, ClosedPort, FALSE)
       \/ Fault(native, OpenPort, FALSE)
       \/ /\ state' = "EXECUTING" /\ port' = OpenPort /\ StartGeometry
          /\ UNCHANGED <<native, cancelError, drain, attempted, scene, checked, cand, progress, queue, acked>>
    /\ UNCHANGED faults

(***************************************************************************)
(* The owner selects, prepares and commits                                 *)
(***************************************************************************)
\* the rows of the revisions SUBMITTED so far
Last(rows) == rows[Len(rows)]
After(x, y) == x[1] > y[1] \/ (x[1] = y[1] /\ x[2] > y[2])
Submissions == {r \in Revisions : progress[r].rows # <<>>}
InOrder(rows) == \A r \in Submissions : After(rows[1], Last(progress[r].rows))

\* _stream_revision_owner.  An executing run's port is fenced only when the
\* deadline has passed.
OutOfTime == state = "EXECUTING" /\ Fenced(port)
OwnsRun == state = "EXECUTING" /\ ~OutOfTime /\ geometry = "ready"

\* select_stream_revision: a prefix of the first chunk left in a snapshot
Selections(s) == {SubSeq(s, 1, n) : n \in {k \in 1..Len(s) : s[k][1] = s[1][1]}}

\* check_stream_selection_current
IsCurrent(rows) == UnchangedPrefix(queue, rows, 0, Len(rows))

\* prepare_learned_revision_geometry: one candidate at a time
StartCheck == ~checked /\ checked' = TRUE

Prepare ==
    /\ OwnsRun /\ cand = NoCandidate /\ StartCheck
    /\ \E rows \in Selections(Snapshot(queue)) :
          /\ InOrder(rows)
          /\ cand' = [rows |-> rows, status |-> "CHECKING", predecessor |-> port.current]
    /\ UNCHANGED <<native, faults, port, exec, geometry, progress, queue, acked>>

\* _commit_stream_revision of a checked candidate, asked for right after
\* the owner has found its rows current
MayCommit == OwnsRun /\ cand.status = "CHECKED" /\ IsCurrent(cand.rows)

\* _learned_dispatch_scene raises: another actor holds the scene's lock or
\* has revised it.  The transport's candidate is not touched.
CommitSceneBusy ==
    /\ MayCommit
    /\ cand' = NoCandidate
    /\ UNCHANGED <<native, faults, port, exec, geometry, checked, progress, queue, acked>>

\* submit_checked_learned_revision spends the candidate, whatever follows
ConsumeCheck == checked' = FALSE

\* it refuses before a send: the report denied the candidate, or the guard or
\* the stream refuses it
CommitRefused ==
    /\ MayCommit
    /\ ConsumeCheck /\ cand' = NoCandidate
    /\ UNCHANGED <<native, faults, port, exec, geometry, progress, queue, acked>>

NextRevision == Cardinality({r \in Revisions : native["arm"][r].length > 0}) + 1

\* the pair is sent.  A send that is not clean is an attempt all the same;
\* one that stops before the first send (the deadline passes) is not.
CommitSent ==
    /\ MayCommit /\ checked /\ cand.predecessor = port.current /\ SubmitReady(port)
    /\ NextRevision \in Revisions
    /\ \E send \in Sends, arrives \in BOOLEAN :
          LET r == NextRevision
              p == Submitted(port, r, send)
              n == Delivered(r, Len(cand.rows), send, arrives)
          IN
          /\ send.lost = {} => ~arrives
          /\ IF send.lost = {} THEN UNCHANGED faults ELSE Failing
          /\ \/ /\ CleanSend(send)
                /\ native' = n /\ port' = p /\ attempted' = TRUE /\ ConsumeCheck /\ cand' = NoCandidate
                /\ progress' = [progress EXCEPT ![r] =
                        [NoProgress EXCEPT !.rows = cand.rows, !.predecessor = cand.predecessor]]
                /\ acked' = 0
                /\ UNCHANGED <<state, cancelError, drain, scene, geometry, queue>>
             \/ /\ ~CleanSend(send) /\ send.entered # {}
                /\ Fault(n, p, TRUE)
             \/ /\ send.entered = {}
                /\ native' = n /\ port' = p /\ ConsumeCheck /\ cand' = NoCandidate
                /\ UNCHANGED <<state, cancelError, drain, attempted, scene, geometry, progress, queue, acked>>

(***************************************************************************)
(* ReferenceProgress and _observe_stream_progress                          *)
(***************************************************************************)
Least(S) == CHOOSE n \in S : \A m \in S : n <= m
Most(S) == CHOOSE n \in S : \A m \in S : n >= m

\* (mutant: the rows one of the references has crossed)
Count_one_reference(pr) == Most({pr.elapsed[a] : a \in Actuators})

\* the rows both references have crossed, as _update counts them
Count(pr) == Least({pr.elapsed[a] : a \in Actuators})

Updated(pr) == IF pr.accepted /\ pr.failed = {} /\ Count(pr) > pr.count
               THEN [pr EXCEPT !.count = Count(pr)] ELSE pr

\* observe: one event of the revision
Observed(pr, e) ==
    LET a == e.actuator
        next ==
          CASE e.event = "PAIR_ACCEPTED" -> [pr EXCEPT !.accepted = TRUE]
            [] e.event = "FEEDBACK" ->
                  IF e.value < pr.elapsed[a] THEN pr ELSE [pr EXCEPT !.elapsed[a] = e.value]
            [] e.event = "REJECTED" \/ (e.event = "TERMINAL" /\ e.value # "succeeded") ->
                  [pr EXCEPT !.failed = @ \cup {a}]
            [] e.event = "TERMINAL" /\ e.value = "succeeded" /\ a \notin pr.failed ->
                  [pr EXCEPT !.elapsed[a] = Len(pr.rows)]
            [] OTHER -> pr
    IN Updated(next)

\* the first pass: who of a predecessor's pair has been replaced
Replaces(e, r) ==
    /\ e.event \in {"ACCEPTED", "PAIR_ACCEPTED"} /\ e.revision \in Submissions
    /\ progress[e.revision].predecessor = r
Retire(events) ==
    [r \in Revisions |-> IF r \notin Submissions THEN progress[r]
        ELSE [progress[r] EXCEPT !.retired = @ \cup
                (UNION {IF e.event = "PAIR_ACCEPTED" THEN Actuators ELSE {e.actuator} :
                            e \in {f \in {events[i] : i \in DOMAIN events} : Replaces(f, r)}})]]

\* an event that is a failure of the motion, not of what was replaced
Fails(pr, e) ==
    \/ e.event = "REJECTED"
    \/ /\ e.event = "TERMINAL" /\ e.value # "succeeded"
       /\ ~(e.value = "canceled" /\ e.actuator \in pr.retired)

\* the second pass: up to the first failure, which raises
Observe(events) ==
    LET all == Retire(events)
        mine == {i \in DOMAIN events : events[i].revision \in Submissions}
        bad == {i \in mine : Fails(all[events[i].revision], events[i])}
        upto == IF bad = {} THEN Len(events) ELSE Least(bad)
        seen[i \in 0..upto] ==
            IF i = 0 THEN all
            ELSE IF i \notin mine THEN seen[i - 1]
            ELSE [seen[i - 1] EXCEPT ![events[i].revision] = Observed(@, events[i])]
    IN [progress |-> seen[upto], raised |-> bad # {}]

(***************************************************************************)
(* The tick of an executing run: poll, observe, the helper's start, the    *)
(* current state, and the candidate's report                               *)
(***************************************************************************)
\* the helper's setup: poll_learned_geometry
GeometrySetup ==
    geometry' \in IF geometry = "pending" THEN {"pending", "ready"} ELSE {geometry}

\* poll_learned_revision_geometry: a failed query forgets the candidate
PollCheck(failed) == checked' = (checked /\ ~failed)

\* _poll_stream_revision_geometry.  A helper whose query failed refuses the
\* later ones, as if no selection were prepared again.
CandidateReport ==
    \/ UNCHANGED <<cand, checked>>
    \/ /\ cand.status = "CHECKING"
       /\ \/ cand' = [cand EXCEPT !.status = "CHECKED"] /\ PollCheck(FALSE)
          \/ cand' = NoCandidate /\ PollCheck(TRUE)

Tick ==
    /\ state = "EXECUTING" /\ ~OutOfTime
    /\ \E raises \in {NoRaise} \cup (IF CanFail THEN Raising(port) ELSE {}) :
          LET x == Poll(port, raises)
              o == Observe(x.events)
          IN
          /\ faults' = IF raises = NoRaise THEN faults ELSE faults + 1
          /\ \/ /\ x.failed = {} /\ ~o.raised
                /\ port' = x.port /\ progress' = o.progress /\ GeometrySetup /\ CandidateReport
                /\ UNCHANGED <<native, state, cancelError, drain, attempted, scene, queue, acked>>
             \/ Fault(native, x.port, attempted)

\* the deadline, the lease, or a cancellation ends the run without a poll
Stop ==
    /\ state = "EXECUTING"
    /\ Fault(native, port, attempted)
    /\ UNCHANGED faults

\* (mutant: a fenced stream is closed although goals are owned)
MayClose_fenced(p) == Fenced(p)

\* _drain_actuator_stream and close_learned_actuator_stream
MayClose(p) == Fenced(p) /\ ~OwnsGoals(p)

DrainTick ==
    /\ drain = "pending"
    /\ UNCHANGED <<native, state, attempted, scene, checked, cand, progress, queue, acked>>
    /\ \E raises \in {NoRaise} \cup (IF CanFail THEN Raising(port) ELSE {}) :
          LET p == Poll(port, raises).port IN
          /\ faults' = IF raises = NoRaise THEN faults ELSE faults + 1
          /\ \/ /\ MayClose(p)
                /\ port' = ClosedPort /\ drain' = "terminal" /\ cancelError' = FALSE /\ geometry' = "none"
             \/ /\ MayClose(p) => geometry # "none"      \* the helper is still exiting
                /\ port' = p /\ UNCHANGED <<drain, cancelError, geometry>>

(***************************************************************************)
(* The inference thread and the owner's consumption, while the run         *)
(* executes                                                                *)
(***************************************************************************)
Infer ==
    /\ state = "EXECUTING"
    /\ \E n \in 1..MaxRows - queue.chunk : queue' = Merge(queue, n)
    /\ UNCHANGED <<native, faults, port, exec, geometry, checked, cand, progress, acked>>

\* the engine is reset; a reset counts as a fault
Reset ==
    /\ state = "EXECUTING" /\ queue.rows # <<>> /\ Failing
    /\ queue' = Clear(queue)
    /\ UNCHANGED <<native, port, exec, geometry, checked, cand, progress, acked>>

\* acknowledge_stream_selection: the rows of a selection from the
\* acknowledged one on, up to the n-th
AcknowledgeSelection(rows, n) ==
    /\ UnchangedPrefix(queue, rows, acked, n - acked)
    /\ queue' = Advance(queue, n - acked)
    /\ acked' = n

\* of the revision last committed, as many as the owner has read of its
\* progress
Acknowledge ==
    /\ state = "EXECUTING" /\ Submissions # {}
    /\ LET pr == progress[Most(Submissions)] IN
       \E n \in acked + 1..pr.count : AcknowledgeSelection(pr.rows, n)
    /\ UNCHANGED <<native, faults, port, exec, geometry, checked, cand, progress>>

\* (what a blocked run hears of a goal's rows is only retained as evidence)
Around == UNCHANGED <<exec, geometry, checked, cand, progress, queue, acked>>
Controller(a, r) ==
    Around /\ (Answer(a, r) \/ (state = "EXECUTING" /\ Move(a, r)) \/ End(a, r))

Next ==
    \/ Execute \/ Prepare \/ CommitSceneBusy \/ CommitRefused \/ CommitSent
    \/ Tick \/ Stop \/ DrainTick \/ Infer \/ Reset \/ Acknowledge
    \/ \E a \in Actuators, r \in Revisions : Controller(a, r)

(***************************************************************************)
(* Fairness: the executor's process ticks until its drain has settled,     *)
(* also after its input has ended (run_jsonl); a killed helper exits; and  *)
(* a controller decides, moves, ends and answers.                          *)
(***************************************************************************)
\* a drain tick has something to do; the formula for it below is
\* WF_vars(DrainTick) with the condition it is enabled under spelled out
\* (waiting for the killed helper's exit is a stutter)
DrainDue ==
    /\ drain = "pending"
    /\ LET p == Poll(port, NoRaise).port IN p # port \/ MayClose(p)

Fairness ==
    /\ []<>~DrainDue \/ []<><<DrainTick>>_vars
    /\ WF_vars(OutOfTime /\ Stop)
    /\ WF_vars(\E a \in Actuators, r \in Revisions : Controller(a, r))

Spec == Init /\ [][Next]_vars
FairSpec == Spec /\ Fairness

(***************************************************************************)
(* Properties                                                              *)
(***************************************************************************)
\* Every variable has its type.
TypeOK ==
    /\ StreamTypeOK
    /\ state \in {"APPROVED", "EXECUTING", "BLOCKED"} /\ drain \in {"none", "pending", "terminal"}
    /\ cancelError \in BOOLEAN /\ attempted \in BOOLEAN /\ checked \in BOOLEAN
    /\ scene \in {"none", "NO_DISPATCH", "UNKNOWN"}
    /\ geometry \in {"none", "pending", "ready"}
    /\ cand.status \in {"none", "CHECKING", "CHECKED"} /\ cand.predecessor \in {None} \cup Revisions
    /\ \A r \in Revisions : progress[r].count \in 0..Len(progress[r].rows)
    /\ queue.cursor \in 0..Len(queue.rows) /\ queue.chunk \in 0..MaxRows
    /\ acked \in 0..MaxRows

\* A goal a controller may be moving for is always held by the stream that
\* can cancel it and hear its end, over replacements, refusals, lost answers
\* and faults; its pair is still known, so recording its events cannot fail;
\* and when nothing is pending an unfenced stream is not split: each child
\* runs the current revision or nothing.
GoalsAreOwned ==
    /\ \A a \in Actuators, r \in Revisions :
          native[a][r].goal \in Running => port.open /\ r \in Owned(port, a)
    /\ \A a \in Actuators : \A r \in Owned(port, a) : port.pair[r].live
    /\ port.open /\ ~Fenced(port) /\ port.pending = None =>
          \A a \in Actuators : /\ port.slot[a]["pend"] = None
                               /\ port.slot[a]["cur"] \in {None, port.current}

\* A blocked run that no longer reports an uncertain cancellation has nothing
\* moving or about to move, and an object reported as untouched (NO_DISPATCH)
\* is one no goal was ever sent for.
ReportIsHonest ==
    /\ state = "BLOCKED" /\ ~cancelError =>
          \A a \in Actuators, r \in Revisions : native[a][r].goal \notin Running
    /\ scene = "NO_DISPATCH" =>
          \A a \in Actuators, r \in Revisions : native[a][r].goal = "unsent"

\* A row leaves the queue only when it is a row of a committed revision that
\* the references of both actuators have crossed, whatever was inferred,
\* replaced or canceled meanwhile.
Crossed(a, r, j) == native[a][r].goal = "succeeded" \/ native[a][r].heard >= j
AckIsEarned ==
    [][queue'.cursor > queue.cursor =>
        \A i \in queue.cursor + 1..queue'.cursor : \E r \in Submissions :
            \E j \in 1..Len(progress[r].rows) :
                /\ progress[r].rows[j] = queue.rows[i]
                /\ \A a \in Actuators : Crossed(a, r, j)]_vars

\* A run that is stopped or out of time settles: its port is closed and the
\* uncertainty withdrawn, unless an answer was lost or a result cannot be
\* read, when it stays uncertain for good.
Unresolvable ==
    \E a \in Actuators : \E r \in Owned(port, a) :
        \/ port.item[a][r].handle \in {"lost", "held"}
        \/ native[a][r].goal \in {"mute", "unread"}
FaultDrains ==
    (drain = "pending" \/ OutOfTime) ~>
        (Unresolvable \/ (drain = "terminal" /\ ~cancelError))

===============================================================================
