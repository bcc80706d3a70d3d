---------------------------- MODULE PickupExecutor ----------------------------
(***************************************************************************)
(* One run of the pickup executor (tools/data_factory/motion/             *)
(* pickup_executor.py) with the parts it drives: the MoveIt transport that *)
(* owns the active goal, the robot's action server, the cell state and the *)
(* scene state on disk, and the coordinator at the other end of its JSONL  *)
(* stream.                                                                *)
(*                                                                         *)
(* The executor is one thread.  It reads a command, ticks, serves the      *)
(* command, ticks again; when the stream is quiet it ticks every 50 ms.    *)
(* Serving and ticking call subroutines (start the current step, fault)    *)
(* which wait for the robot and for file locks, so they are cut at every   *)
(* wait and at every durable write: pc is the next step of the thread and  *)
(* ret the place the running subroutine returns to.                        *)
(*                                                                         *)
(* Simplifications: a plan is the scripted demonstration (no learned       *)
(* chunk, native stream, mechanical terminal or motion-only continuation); *)
(* deadlines are flags that time may raise between any two steps; status   *)
(* and a repeated op_id, whose cached response changes nothing, are ticks; *)
(* the revision of the scene stands for its digest.                        *)
(***************************************************************************)
EXTENDS Naturals, Sequences, FiniteSets

CONSTANTS
    Plans,      \* the shapes of plan the coordinator may have approved
    MaxEdits    \* bound on the scene updates a person makes meanwhile

VARIABLES
    plan,       \* the approved plan; never changes
    \* disk
    cell,       \* state.json of the cell: readiness and reason
    scene,      \* scene_state.json: revision, object, slots, last writer
    lock,       \* scene_state.lock is held by the executor across its arming
    \* robot and transport
    goal,       \* the last goal, as the action server sees it
    owned,      \* transport._active is not None
    fenced,     \* transport._execution_locked
    \* executor thread
    pc, ret,
    pending,    \* a command waits in the stream or for its answer
    eof,        \* the coordinator closed its end
    \* run record
    state, step,
    active,     \* execution["active"]
    dispatched, \* execution["motion_dispatch_attempted"]
    confirmed,  \* execution["confirmed_step"] = execution["step_index"]
    grasp, semantic, release,   \* the verdicts received
    stage,      \* the continuation of a staged release
    bound,      \* execution["scene_revision"]
    report,     \* what the execution data reports of its fault
    lapsed,     \* lease_deadline has passed
    overdue,    \* wait_deadline has passed
    edits       \* scene updates made by a person

disk      == <<cell, scene, lock>>
transport == <<goal, owned, fenced>>
thread    == <<pc, ret, pending>>
run       == <<state, step, active, dispatched, confirmed, grasp, semantic, release, stage, bound>>
clocks    == <<lapsed, overdue>>
vars == <<plan, cell, scene, lock, goal, owned, fenced, pc, ret, pending, eof, state, step,
          active, dispatched, confirmed, grasp, semantic, release, stage, bound, report, lapsed,
          overdue, edits>>

-----------------------------------------------------------------------------
(* Types *)

PHASES == <<"PREGRASP_PTP", "APPROACH_STOP_LIN", "FINAL_APPROACH_LIN", "GRIPPER_CLOSE",
            "LIFT_LIN", "RECYCLE_APPROACH_PTP", "LOWER_LIN", "GRIPPER_OPEN",
            "RETREAT_LIN", "SAFE_POSE_PTP">>

\* A plan: does it hold for a person before contact and after the grasp, after
\* which phase recording stops, is the release opened in two stages, does the
\* scene binding name a slot to release into and a slot to take from.
PlanShapes == [holds : BOOLEAN, boundary : {"LIFT_LIN", "RETREAT_LIN"}, staged : BOOLEAN,
               release : BOOLEAN, source : BOOLEAN]

ASSUME PlansAssumption == Plans \subseteq PlanShapes
ASSUME MaxEditsAssumption == MaxEdits \in Nat

Holds         == {"PRECONTACT_HUMAN", "GRASP_VERDICT", "SEMANTIC_VERDICT", "RELEASE_VERDICT"}
ACTIVE_STATES == {"EXECUTING"} \cup Holds
Final         == {"BLOCKED", "COMPLETED"}
States        == {"PLANNED", "APPROVED"} \cup ACTIVE_STATES \cup Final
Goals         == {"none", "sent", "rejected", "running", "succeeded", "aborted", "canceled"}
Unresolved    == {"sent", "running"}
Verdicts      == {"none", "PASS", "FAIL"}
ReleaseVerdicts == {"LANDED", "OFF_SLOT", "UNCERTAIN"}
Gone          == {"exit", "dead"}
Steps         == {"idle", "tick", "serve", "consume", "lock", "arm", "start", "send", "ack",
                  "return", "fault.cancel", "fault.cell", "fault.scene", "release",
                  "release.cell"} \cup Gone
Returns       == {"idle", "serve", "respond", "post", "eof"}

TypeOK ==
    /\ plan \in Plans
    /\ cell \in [ready : BOOLEAN, reason : {"ACKNOWLEDGED", "EXECUTION_IN_PROGRESS", "FAULT"}]
    /\ scene \in [revision : Nat, object : {"ON_SURFACE", "UNKNOWN"},
                  source : {"NONE", "LANDED", "CONSUMED", "AVAILABLE"},
                  release : {"NONE", "LANDED", "QUARANTINED"},
                  writer : {"HUMAN", "ROBOT"}]
    /\ lock \in BOOLEAN
    /\ goal \in Goals /\ owned \in BOOLEAN /\ fenced \in BOOLEAN
    /\ pc \in Steps /\ ret \in Returns /\ pending \in BOOLEAN
    /\ eof \in BOOLEAN
    /\ state \in States /\ step \in 1..(Len(PHASES) + 1)
    /\ active \in BOOLEAN /\ dispatched \in BOOLEAN /\ confirmed \in BOOLEAN
    /\ grasp \in Verdicts /\ semantic \in Verdicts
    /\ release \in ReleaseVerdicts \cup {"none"}
    /\ stage \in {"none", "continuing", "continued"}
    /\ bound \in Nat
    /\ report \in [durable : BOOLEAN, cancelError : BOOLEAN, sceneError : BOOLEAN]
    /\ lapsed \in BOOLEAN /\ overdue \in BOOLEAN
    /\ edits \in 0..MaxEdits

-----------------------------------------------------------------------------
(* The plan and the current step *)

Alive      == pc \notin Gone
Done       == step > Len(PHASES)
\* Mutant: the confirmation is asked for one step late.
ConfirmedLate == ~Done /\ plan.holds /\ PHASES[step] = "GRIPPER_CLOSE" /\ ~confirmed

NeedsConfirmation == ~Done /\ plan.holds /\ PHASES[step] = "FINAL_APPROACH_LIN" /\ ~confirmed
HasContinuation   == plan.staged /\ PHASES[step] = "GRIPPER_OPEN"
VerifiesGripper   == PHASES[step] \in {"GRIPPER_CLOSE", "LIFT_LIN"}
\* Mutant: the pause after the recording boundary enters the learned hold.
PauseAfterMisnamed ==
    IF plan.holds /\ PHASES[step] = "GRIPPER_CLOSE" THEN "GRASP_VERDICT"
    ELSE IF PHASES[step] = plan.boundary THEN "LEARNED_CHUNK_COMPLETE" ELSE "EXECUTING"

PauseAfter ==
    IF plan.holds /\ PHASES[step] = "GRIPPER_CLOSE" THEN "GRASP_VERDICT"
    ELSE IF PHASES[step] = plan.boundary THEN "SEMANTIC_VERDICT" ELSE "EXECUTING"

\* Mutant: the scene is written whatever its revision.
AnyScene == TRUE

\* The scene writes: an executor write names the revision it expects.
ExpectedScene == scene.revision = bound
SlotUsable    == scene.release = "NONE"
Landing == [scene EXCEPT !.revision = @ + 1, !.object = "ON_SURFACE", !.release = "LANDED",
                         !.source = IF @ = "CONSUMED" /\ cell.reason = "EXECUTION_IN_PROGRESS"
                                    THEN "AVAILABLE" ELSE @,
                         !.writer = "ROBOT"]
\* Mutant: a quarantined release gives the source slot back.
QuarantineVacates == [scene EXCEPT !.revision = @ + 1, !.object = "UNKNOWN",
                                   !.release = "QUARANTINED", !.writer = "ROBOT",
                                   !.source = IF @ = "CONSUMED" THEN "AVAILABLE" ELSE @]

Quarantine == [scene EXCEPT !.revision = @ + 1, !.object = "UNKNOWN",
                            !.release = "QUARANTINED", !.writer = "ROBOT"]
ObjectUnknown == [scene EXCEPT !.revision = @ + 1, !.object = "UNKNOWN", !.writer = "ROBOT"]

NoReport == [durable |-> FALSE, cancelError |-> FALSE, sceneError |-> FALSE]

\* The memory of a process that has planned a run, and of one that is gone.
Fresh ==
    /\ ret = "idle" /\ pending = FALSE
    /\ owned = FALSE /\ fenced = FALSE
    /\ state = "PLANNED" /\ step = 1 /\ active = FALSE /\ dispatched = FALSE
    /\ confirmed = FALSE /\ grasp = "none" /\ semantic = "none" /\ release = "none"
    /\ stage = "none" /\ bound = 0 /\ report = NoReport
    /\ lapsed = FALSE /\ overdue = FALSE
Forget ==
    /\ ret' = "idle" /\ pending' = FALSE
    /\ owned' = FALSE /\ fenced' = FALSE
    /\ state' = "PLANNED" /\ step' = 1 /\ active' = FALSE /\ dispatched' = FALSE
    /\ confirmed' = FALSE /\ grasp' = "none" /\ semantic' = "none" /\ release' = "none"
    /\ stage' = "none" /\ bound' = 0 /\ report' = NoReport
    /\ lapsed' = FALSE /\ overdue' = FALSE

Init ==
    /\ plan \in Plans
    /\ cell = [ready |-> TRUE, reason |-> "ACKNOWLEDGED"]
    /\ scene = [revision |-> 0, object |-> "ON_SURFACE",
                source |-> IF plan.source THEN "LANDED" ELSE "NONE",
                release |-> "NONE", writer |-> "HUMAN"]
    /\ lock = FALSE /\ goal = "none"
    /\ edits = 0
    /\ pc = "idle" /\ eof = FALSE
    /\ Fresh

-----------------------------------------------------------------------------
(* The thread: commands, ticks and returns *)

Goto(next) == pc' = next /\ UNCHANGED <<ret, pending>>
Tick(place) == pc' = "tick" /\ ret' = place /\ UNCHANGED pending

\* The coordinator writes one command, any one, and waits for its answer.
Send ==
    /\ ~eof /\ Alive /\ ~pending
    /\ pending' = TRUE
    /\ UNCHANGED <<plan, disk, transport, pc, ret, eof, run, report, clocks, edits>>

\* The coordinator exits: end of input.
CoordinatorExits ==
    /\ ~eof
    /\ eof' = TRUE
    /\ UNCHANGED <<plan, disk, transport, thread, run, report, clocks, edits>>

\* A line is in the queue: _process ticks before it serves.
ReadCommand ==
    /\ pc = "idle" /\ pending
    /\ Tick("serve")
    /\ UNCHANGED <<plan, disk, transport, eof, run, report, clocks, edits>>

\* Mutant: a quiet stream is only ticked while a goal moves.
QuietTickWhileMoving ==
    /\ pc = "idle" /\ ~pending /\ ~eof /\ state = "EXECUTING"
    /\ Tick("idle")
    /\ UNCHANGED <<plan, disk, transport, eof, run, report, clocks, edits>>

\* The queue stayed empty.
QuietTick ==
    /\ pc = "idle" /\ ~pending /\ ~eof /\ state \in ACTIVE_STATES
    /\ Tick("idle")
    /\ UNCHANGED <<plan, disk, transport, eof, run, report, clocks, edits>>

\* The end of a tick, of a fault or of a handler.
Return ==
    /\ pc = "return"
    /\ UNCHANGED <<plan, cell, scene, transport, eof, run, report, clocks, edits>>
    /\ \/ /\ ret = "idle"
          /\ pc' = "idle" /\ UNCHANGED <<ret, pending, lock>>
       \/ /\ ret = "serve"
          /\ pc' = "serve" /\ UNCHANGED <<ret, pending, lock>>
       \/ /\ ret = "respond"      \* the response leaves, and a with block ends
          /\ lock' = FALSE
          /\ pending' = FALSE
          /\ IF state \in Final THEN pc' = "idle" /\ UNCHANGED ret
                                ELSE pc' = "tick" /\ ret' = "post"
       \/ /\ ret = "post"
          /\ pc' = IF state = "BLOCKED" THEN "exit" ELSE "idle"
          /\ UNCHANGED <<ret, pending, lock>>
       \/ /\ ret = "eof"
          /\ pc' = "exit" /\ UNCHANGED <<ret, pending, lock>>

\* A crash of the process, or a kill: its memory and its file locks are gone.
Kill ==
    /\ Alive
    /\ pc' = "dead" /\ lock' = FALSE /\ Forget
    /\ UNCHANGED <<plan, cell, scene, goal, eof, edits>>

-----------------------------------------------------------------------------
(* The fault subroutine *)

\* Entering it: the run is BLOCKED before anything else is tried.
Blocks == state' = "BLOCKED" /\ UNCHANGED <<step, confirmed, grasp, semantic, release,
                                            stage, bound>>
Fault  == Blocks /\ pc' = "fault.cancel"

\* Cancel the goal the transport owns, if the execution believes it is active.
FaultCancel ==
    /\ pc = "fault.cancel"
    /\ Goto("fault.cell")
    /\ active' = FALSE
    /\ UNCHANGED <<plan, disk, eof, state, step, dispatched, confirmed, grasp, semantic,
                   release, stage, bound, clocks, edits>>
    /\ \/ /\ ~(active /\ owned)
          /\ UNCHANGED <<transport, report>>
       \/ /\ active /\ owned                      \* cancelled, or never accepted
          /\ goal \in {"running", "rejected"}
          /\ goal' = IF goal = "running" THEN "canceled" ELSE goal
          /\ owned' = FALSE /\ fenced' = TRUE /\ UNCHANGED report
       \/ /\ active /\ owned                      \* refused, too late or unanswered
          /\ goal' \in {goal} \cup (IF goal = "running" THEN {"canceled"} ELSE {})
          /\ owned' = owned /\ fenced' = TRUE
          /\ report' = [report EXCEPT !.cancelError = TRUE]

\* Mutant: durable_blocked is set before the write.
FaultCellUnchecked ==
    /\ pc = "fault.cell"
    /\ Goto("fault.scene")
    /\ report' = [report EXCEPT !.durable = TRUE]
    /\ cell' \in {cell, [ready |-> FALSE, reason |-> "FAULT"]}
    /\ UNCHANGED <<plan, scene, lock, transport, eof, run, clocks, edits>>

\* mark_blocked with the failure code; the write may fail.
FaultCell ==
    /\ pc = "fault.cell"
    /\ Goto("fault.scene")
    /\ \/ /\ cell' = [ready |-> FALSE, reason |-> "FAULT"]
          /\ report' = [report EXCEPT !.durable = TRUE]
       \/ /\ report' = [report EXCEPT !.durable = FALSE]
          /\ UNCHANGED cell
    /\ UNCHANGED <<plan, scene, lock, transport, eof, run, clocks, edits>>

\* Nothing was dispatched: the scene is kept.  Otherwise the object is put in
\* doubt, under the scene lock and against the expected revision; the lock is
\* taken anew even when this thread already holds it across its arming.
FaultScene ==
    /\ pc = "fault.scene"
    /\ Goto("return")
    /\ \/ /\ ~dispatched
          /\ UNCHANGED <<scene, report>>
       \/ /\ dispatched /\ ~lock
          /\ ExpectedScene /\ (plan.release => SlotUsable)
          /\ scene' = IF plan.release THEN Quarantine ELSE ObjectUnknown
          /\ UNCHANGED report
       \/ /\ dispatched /\ ~lock
          /\ report' = [report EXCEPT !.sceneError = TRUE]
          /\ UNCHANGED scene
    /\ UNCHANGED <<plan, cell, lock, transport, eof, run, clocks, edits>>

-----------------------------------------------------------------------------
(* One tick *)

\* Nothing to do: no active run, a hold still in time, a goal still moving.
TickIdle ==
    /\ pc = "tick"
    /\ \/ state \notin ACTIVE_STATES
       \/ ~lapsed /\ state \in Holds /\ ~overdue
       \/ ~lapsed /\ state = "EXECUTING" /\ owned /\ goal \in Unresolved
    /\ Goto("return")
    /\ UNCHANGED <<plan, disk, transport, eof, run, report, clocks, edits>>

\* The lease, then the hold's deadline.
TickDeadline ==
    /\ pc = "tick" /\ state \in ACTIVE_STATES
    /\ lapsed \/ (state \in Holds /\ overdue)
    /\ Fault
    /\ UNCHANGED <<plan, disk, transport, ret, pending, eof, active, dispatched, report,
                   clocks,
                   edits>>

\* poll_active raises: the goal ended badly, which frees it, or its deadline has
\* passed or there is none, which leaves the transport as it was.
PollFails ==
    /\ pc = "tick" /\ state = "EXECUTING" /\ ~lapsed
    /\ \/ owned /\ goal \in {"succeeded", "aborted"} /\ owned' = FALSE /\ fenced' = TRUE
       \/ UNCHANGED <<owned, fenced>>
    /\ Fault
    /\ UNCHANGED <<plan, disk, goal, ret, pending, eof, active, dispatched, report,
                   clocks,
                   edits>>

\* Mutant: a goal that has not ended is taken for done.
PolledEarly == pc = "tick" /\ state = "EXECUTING" /\ ~lapsed /\ owned /\ goal # "sent"

Polled == pc = "tick" /\ state = "EXECUTING" /\ ~lapsed /\ owned /\ goal = "succeeded"

\* The first goal of a staged release is done: its continuation is sent.
PollContinues ==
    /\ Polled /\ HasContinuation /\ stage = "none"
    /\ owned' = FALSE /\ active' = FALSE /\ stage' = "continuing"
    /\ Goto("send")
    /\ UNCHANGED <<plan, disk, goal, fenced, eof, state, step, dispatched, confirmed,
                   grasp, semantic, release, bound, report, clocks, edits>>

\* The step is done and the gripper, where it is verified, holds the object.
StepDone ==
    /\ Polled /\ ~(HasContinuation /\ stage = "none")
    /\ owned' = FALSE /\ active' = FALSE /\ stage' = "none"
    /\ step' = step + 1 /\ confirmed' = FALSE
    /\ state' = PauseAfter
    /\ overdue' = (PauseAfter = "EXECUTING" /\ overdue)
    /\ Goto(IF PauseAfter = "EXECUTING" THEN "start" ELSE "return")
    /\ UNCHANGED <<plan, disk, goal, fenced, eof, dispatched, grasp, semantic, release,
                   bound, report, lapsed, edits>>

GripperRejected ==
    /\ Polled /\ VerifiesGripper
    /\ owned' = FALSE /\ active' = FALSE
    /\ Fault
    /\ UNCHANGED <<plan, disk, goal, fenced, ret, pending, eof, dispatched, report,
                   clocks, edits>>

-----------------------------------------------------------------------------
(* Starting the current step *)

Starting == pc = "start" /\ state = "EXECUTING"

\* Every phase is done: the safe pose is checked and the run ends, or waits
\* for the verdict on the release.
StartFinishes ==
    /\ Starting /\ Done
    /\ state' = IF plan.release THEN "RELEASE_VERDICT" ELSE "COMPLETED"
    /\ overdue' = (overdue /\ ~plan.release)
    /\ Goto("return")
    /\ UNCHANGED <<plan, disk, transport, eof, step, active, dispatched, confirmed,
                   grasp, semantic, release, stage, bound, report, lapsed, edits>>

StartHolds ==
    /\ Starting /\ NeedsConfirmation
    /\ state' = "PRECONTACT_HUMAN" /\ overdue' = FALSE
    /\ Goto("return")
    /\ UNCHANGED <<plan, disk, transport, eof, step, active, dispatched, confirmed,
                   grasp, semantic, release, stage, bound, report, lapsed, edits>>

StartDispatches ==
    /\ Starting /\ ~Done /\ ~NeedsConfirmation
    /\ active' = TRUE
    /\ Goto("send")
    /\ UNCHANGED <<plan, disk, transport, eof, state, step, dispatched, confirmed, grasp,
                   semantic, release, stage, bound, report, clocks, edits>>

\* The snapshot is bad: controllers, start state or safe pose.
StartFails ==
    /\ Starting /\ ~NeedsConfirmation
    /\ Fault
    /\ UNCHANGED <<plan, disk, transport, ret, pending, eof, active, dispatched, report,
                   clocks,
                   edits>>

\* start_phase: one goal at a time, sent, then awaited.
SendGoal ==
    /\ pc = "send" /\ ~owned /\ ~fenced
    /\ dispatched' = TRUE
    /\ goal' = "sent" /\ owned' = TRUE /\ fenced' = TRUE
    /\ Goto("ack")
    /\ UNCHANGED <<plan, disk, eof, state, step, active, confirmed, grasp, semantic,
                   release, stage, bound, report, clocks, edits>>

SendFails ==
    /\ pc = "send"
    /\ dispatched' = TRUE
    /\ Fault
    /\ UNCHANGED <<plan, disk, transport, ret, pending, eof, active, report, clocks,
                   edits>>

GoalAccepted ==
    /\ pc = "ack" /\ goal \in {"running", "succeeded", "aborted"}
    /\ fenced' = FALSE /\ active' = TRUE
    /\ stage' = IF stage = "continuing" THEN "continued" ELSE stage
    /\ Goto("return")
    /\ UNCHANGED <<plan, disk, goal, owned, eof, state, step, dispatched, confirmed,
                   grasp, semantic, release, bound, report, clocks, edits>>

GoalRejected ==
    /\ pc = "ack" /\ goal = "rejected"
    /\ owned' = FALSE /\ fenced' = FALSE
    /\ Fault
    /\ UNCHANGED <<plan, disk, goal, ret, pending, eof, active, dispatched, report,
                   clocks, edits>>

\* Mutant: the transport drops a goal that was not answered in time.
GoalDropped ==
    /\ pc = "ack"
    /\ owned' = FALSE /\ fenced' = FALSE
    /\ Fault
    /\ UNCHANGED <<plan, disk, goal, ret, pending, eof, active, dispatched, report, clocks,
                   edits>>

\* No answer in time: the transport keeps the goal it may have started.
GoalUnanswered ==
    /\ pc = "ack"
    /\ Fault
    /\ UNCHANGED <<plan, disk, transport, ret, pending, eof, active, dispatched, report,
                   clocks,
                   edits>>

-----------------------------------------------------------------------------
(* Serving a command *)

Serving == pc = "serve"
Respond == pc' = "return" /\ ret' = "respond" /\ UNCHANGED pending
Resume  == pc' = "start" /\ ret' = "respond" /\ UNCHANGED pending

\* A malformed command, one out of its state, or one refused by its checks: an
\* error is answered and nothing changes.
Reject ==
    /\ Serving
    /\ pc' = "tick" /\ ret' = "post" /\ pending' = FALSE
    /\ UNCHANGED <<plan, disk, transport, eof, run, report, clocks, edits>>

\* A heartbeat, a cancel or a status of a run that is over.
Acknowledge ==
    /\ Serving /\ state \in Final
    /\ Respond
    /\ UNCHANGED <<plan, disk, transport, eof, run, report, clocks, edits>>

Approve ==
    /\ Serving /\ state = "PLANNED"
    /\ state' = "APPROVED"
    /\ Respond
    /\ UNCHANGED <<plan, disk, transport, eof, step, active, dispatched, confirmed, grasp,
                   semantic, release, stage, bound, report, clocks, edits>>

Heartbeat ==
    /\ Serving /\ state \in ACTIVE_STATES
    /\ lapsed' = FALSE
    /\ Respond
    /\ UNCHANGED <<plan, disk, transport, eof, run, report, overdue, edits>>

\* A heartbeat that reports an unhealthy recorder, a cancel, a rejected grasp.
CommandFaults ==
    /\ Serving /\ state \in ACTIVE_STATES
    /\ \/ grasp' = grasp
       \/ state = "GRASP_VERDICT" /\ grasp' = "FAIL"
    /\ state' = "BLOCKED"
    /\ pc' = "fault.cancel" /\ ret' = "respond" /\ UNCHANGED pending
    /\ UNCHANGED <<plan, disk, transport, eof, step, active, dispatched, confirmed,
                   semantic,
                   release, stage, bound, report, clocks, edits>>

Confirm ==
    /\ Serving /\ state = "PRECONTACT_HUMAN"
    /\ confirmed' = TRUE /\ state' = "EXECUTING"
    /\ Resume
    /\ UNCHANGED <<plan, disk, transport, eof, step, active, dispatched, grasp, semantic,
                   release, stage, bound, report, clocks, edits>>

GraspVerdict ==
    /\ Serving /\ state = "GRASP_VERDICT"
    /\ grasp' = "PASS" /\ state' = "EXECUTING"
    /\ Resume
    /\ UNCHANGED <<plan, disk, transport, eof, step, active, dispatched, confirmed,
                   semantic, release, stage, bound, report, clocks, edits>>

\* A semantic FAIL is recorded and the robot goes on to put the object back.
SemanticVerdict ==
    /\ pc = "serve" /\ state = "SEMANTIC_VERDICT"
    /\ semantic' \in {"PASS", "FAIL"}
    /\ state' = "EXECUTING"
    /\ Resume
    /\ UNCHANGED <<plan, disk, transport, eof, step, active, dispatched, confirmed,
                   grasp, release, stage, bound, report, clocks, edits>>

\* The release verdict is made durable in the scene before it is believed.
ReleaseVerdict ==
    /\ Serving /\ state = "RELEASE_VERDICT"
    /\ release' \in ReleaseVerdicts
    /\ pc' = "release" /\ ret' = "respond" /\ UNCHANGED pending
    /\ UNCHANGED <<plan, disk, transport, eof, state, step, active, dispatched, confirmed,
                   grasp, semantic, stage, bound, report, clocks, edits>>

ReleaseScene ==
    /\ pc = "release" /\ ~lock /\ ExpectedScene /\ SlotUsable
    /\ IF release = "LANDED"
       THEN scene' = Landing /\ state' = "COMPLETED" /\ Goto("return")
       ELSE scene' = Quarantine /\ UNCHANGED state /\ Goto("release.cell")
    /\ UNCHANGED <<plan, cell, lock, transport, eof, step, active, dispatched, confirmed,
                   grasp, semantic, release, stage, bound, report, clocks, edits>>

\* Mutant: the verdict is believed although the scene was not written.
ReleaseBelieved ==
    /\ pc = "release" /\ ~lock
    /\ state' = "COMPLETED"
    /\ Goto("return")
    /\ UNCHANGED <<plan, disk, transport, eof, step, active, dispatched, confirmed, grasp,
                   semantic, release, stage, bound, report, clocks, edits>>

ReleaseSceneFails ==
    /\ pc = "release" /\ ~lock
    /\ Goto("release.cell")
    /\ UNCHANGED <<plan, disk, transport, eof, run, report, clocks, edits>>

BlockRelease ==
    /\ pc = "release.cell"
    /\ state' = "BLOCKED"
    /\ \/ /\ cell' = [ready |-> FALSE, reason |-> "FAULT"]
          /\ report' = [report EXCEPT !.durable = TRUE]
       \/ /\ report' = [report EXCEPT !.durable = FALSE]
          /\ UNCHANGED cell
    /\ Goto("return")
    /\ UNCHANGED <<plan, scene, lock, transport, eof, step, active, dispatched,
                   confirmed, grasp, semantic, release, stage, bound, clocks, edits>>

-----------------------------------------------------------------------------
(* Executing the approved plan *)

\* The cell is read ready; a chained run then consumes its source slot.
Execute ==
    /\ Serving /\ state = "APPROVED" /\ cell.ready
    /\ pc' = (IF plan.source THEN "consume" ELSE "lock") /\ ret' = "respond" /\ UNCHANGED pending
    /\ bound' = 0
    /\ UNCHANGED <<plan, disk, transport, eof, state, step, active, dispatched,
                   confirmed, grasp, semantic, release, stage, report, clocks, edits>>

ConsumeSource ==
    /\ pc = "consume"
    /\ \/ /\ ExpectedScene /\ scene.source = "LANDED"
          /\ scene' = [scene EXCEPT !.revision = @ + 1, !.source = "CONSUMED"]
          /\ bound' = bound + 1
          /\ Goto("lock")
       \/ /\ Goto("return")
          /\ UNCHANGED <<scene, release, bound>>
    /\ UNCHANGED <<plan, cell, lock, transport, eof, state, step, active, dispatched,
                   confirmed, grasp, semantic, release, stage, report, clocks, edits>>

\* From here the executor holds the scene lock until it answers.
LockScene ==
    /\ pc = "lock"
    /\ IF ExpectedScene /\ scene.object = "ON_SURFACE"
       THEN lock' = TRUE /\ Goto("arm")
       ELSE UNCHANGED lock /\ Goto("return")
    /\ UNCHANGED <<plan, cell, scene, transport, eof, run, report, clocks, edits>>

\* Mutant: motion starts with the cell still ready.
ArmReady ==
    /\ pc = "arm"
    /\ state' = "EXECUTING" /\ lapsed' = FALSE /\ dispatched' = FALSE
    /\ Goto("start")
    /\ UNCHANGED <<plan, disk, transport, eof, step, active, confirmed, grasp, semantic,
                   release, stage, bound, report, overdue, edits>>

\* The cell is durably blocked before anything moves.
Arm ==
    /\ pc = "arm"
    /\ cell' = [ready |-> FALSE, reason |-> "EXECUTION_IN_PROGRESS"]
    /\ state' = "EXECUTING" /\ lapsed' = FALSE /\ dispatched' = FALSE
    /\ Goto("start")
    /\ UNCHANGED <<plan, scene, lock, transport, eof, step, active, confirmed, grasp,
                   semantic, release, stage, bound, report, overdue, edits>>

ArmFails ==
    /\ pc = "arm"
    /\ Goto("return")
    /\ UNCHANGED <<plan, disk, transport, eof, run, report, clocks, edits>>

-----------------------------------------------------------------------------
(* End of input, time, robot and people *)

EndOfInput ==
    /\ pc = "idle" /\ ~pending /\ eof
    /\ IF state \in ACTIVE_STATES
       THEN /\ state' = "BLOCKED" /\ pc' = "fault.cancel" /\ ret' = "eof"
       ELSE /\ pc' = "exit" /\ UNCHANGED <<state, ret>>
    /\ UNCHANGED <<plan, disk, transport, pending, eof, step, active, dispatched,
                   confirmed, grasp, semantic, release, stage, bound, report, clocks,
                   edits>>

LeaseLapses ==
    /\ Alive /\ state \in ACTIVE_STATES /\ ~lapsed
    /\ lapsed' = TRUE
    /\ UNCHANGED <<plan, disk, transport, thread, eof, run, report, overdue, edits>>

HoldOverdue ==
    /\ Alive /\ state \in Holds /\ ~overdue
    /\ overdue' = TRUE
    /\ UNCHANGED <<plan, disk, transport, thread, eof, run, report, lapsed, edits>>

\* The action server: it answers a goal, and ends one it runs.
Robot ==
    /\ \/ goal = "sent" /\ goal' \in {"running", "rejected"}
       \/ goal = "running" /\ goal' \in {"succeeded", "aborted"}
    /\ UNCHANGED <<plan, disk, owned, fenced, thread, eof, run, report, clocks, edits>>

\* A person records where the object is: allocations are cleared with it.
HumanUpdatesScene ==
    /\ edits < MaxEdits /\ ~lock
    /\ \E object \in {"ON_SURFACE", "UNKNOWN"} :
         scene' = [revision |-> scene.revision + 1, object |-> object, source |-> "NONE",
                   release |-> "NONE", writer |-> "HUMAN"]
    /\ edits' = edits + 1
    /\ UNCHANGED <<plan, cell, lock, transport, thread, eof, run, report, clocks>>

\* A person acknowledges the cell, after the run and with the robot at rest.
AcknowledgeReady ==
    /\ ~cell.ready /\ ((state \in Final /\ pc = "idle") \/ ~Alive) /\ goal \notin Unresolved
    /\ cell' = [ready |-> TRUE, reason |-> "ACKNOWLEDGED"]
    /\ UNCHANGED <<plan, scene, lock, transport, thread, eof, run, report, clocks, edits>>

-----------------------------------------------------------------------------
(* Specification *)

FaultStep   == FaultCancel \/ FaultCell \/ FaultScene
TickStep    == TickIdle \/ TickDeadline \/ PollFails \/ PollContinues \/ StepDone
               \/ GripperRejected
StartStep   == StartFinishes \/ StartHolds \/ StartDispatches \/ StartFails
DispatchStep == SendGoal \/ SendFails \/ GoalAccepted \/ GoalRejected \/ GoalUnanswered
ServeStep   == Reject \/ Acknowledge \/ Approve \/ Heartbeat \/ CommandFaults \/ Confirm \/ GraspVerdict
               \/ SemanticVerdict \/ ReleaseVerdict \/ ReleaseScene \/ ReleaseSceneFails
               \/ BlockRelease
ExecuteStep == Execute \/ ConsumeSource \/ LockScene \/ Arm \/ ArmFails
ThreadStep  == ReadCommand \/ QuietTick \/ Return \/ EndOfInput \/ FaultStep \/ TickStep
               \/ StartStep \/ DispatchStep \/ ServeStep \/ ExecuteStep

Next ==
    \/ Send
    \/ CoordinatorExits
    \/ ThreadStep
    \/ Kill
    \/ LeaseLapses
    \/ HoldOverdue
    \/ Robot
    \/ HumanUpdatesScene
    \/ AcknowledgeReady

Spec == Init /\ [][Next]_vars

\* The thread keeps running and an unrenewed lease runs out.  Nothing is
\* assumed of the coordinator, of the robot or of people.
Fairness == WF_vars(ThreadStep) /\ WF_vars(LeaseLapses)
FairSpec == Spec /\ Fairness

-----------------------------------------------------------------------------
(* Properties *)

Faulting == pc \in {"fault.cancel", "fault.cell", "fault.scene", "release.cell"}

\* While a goal may move the robot the cell is durably not ready: it is blocked
\* before the first dispatch and stays so until a person acknowledges it.  And
\* a goal is only sent when the one before it can no longer move the robot.
MotionIsFenced ==
    /\ [](goal \in Unresolved => ~cell.ready)
    /\ [][goal' = "sent" => goal \notin Unresolved]_<<goal>>

\* What the coordinator is told of a fault: unless a cancel error is reported,
\* a blocked executor has left no goal that may still move the robot.
StopIsConfirmed ==
    Alive /\ state = "BLOCKED" /\ ~Faulting /\ ~report.cancelError => goal \notin Unresolved

\* What the coordinator is told of a fault is on disk: durable_blocked means the
\* cell holds the fault, and without a scene error the scene an object may have
\* been moved in was revised, and no longer says where the object was.  And, where
\* a release is one stage, without a cancel error the stop is confirmed.
ReportedFaultIsTrue ==
    Alive /\ state = "BLOCKED" /\ ~Faulting =>
        /\ ~plan.staged => StopIsConfirmed
        /\ report.durable => cell.reason \in {"FAULT", "ACKNOWLEDGED"}
        /\ dispatched /\ ~report.sceneError =>
              /\ scene.object = "UNKNOWN" \/ scene.writer = "HUMAN"
              /\ release = "none" => scene.revision > bound

\* Contact is made after the confirmation of this very step, the object is
\* lifted after a PASS, and it is put back after the demonstration was judged.
\* A run only completes with every phase done, its verdicts given and, when it
\* has a slot to release into, that slot's landing durable.
GatedByPeople ==
    /\ [][goal' = "sent" /\ stage = "none" =>
            /\ plan.holds /\ PHASES[step] = "FINAL_APPROACH_LIN" => confirmed
            /\ plan.holds /\ step > 4 => grasp = "PASS"
            /\ PHASES[step] = "RECYCLE_APPROACH_PTP" /\ plan.boundary = "LIFT_LIN"
                   => semantic # "none"]_<<goal>>
    /\ [][state' = "COMPLETED" =>
            /\ Done /\ ~active /\ ~owned /\ semantic # "none" /\ (plan.holds => grasp = "PASS")
            /\ plan.release => scene'.release = "LANDED"]_<<state>>

\* The executor never writes over a scene somebody else changed since its run
\* was bound to it, and makes a chained source slot available again only when
\* the object taken from it has landed elsewhere.
SceneIsKept ==
    /\ [][scene.revision # bound => scene'.writer = "HUMAN" \/ ~Alive]_<<scene>>
    /\ [](scene.source = "AVAILABLE" => scene.release = "LANDED")

\* When the coordinator has nothing more to say, an executing run leaves its
\* active states by itself: nobody has to send a cancel.
SilenceStopsTheRun == <>[](~pending) => <>[](state \notin ACTIVE_STATES)

\* A fault always ends: the thread gets back to its commands or exits.
FaultsEnd == (pc = "fault.cancel") ~> (pc \in {"idle", "tick"} \cup Gone)

=============================================================================
