--------------------------- MODULE PickupExecutorInv ---------------------------
(***************************************************************************)
(* The inductive invariant of a run of the pickup executor.  TLC checks it *)
(* on small instances; PickupExecutorProofs proves it for every set of     *)
(* plans.                                                                  *)
(*                                                                         *)
(* Most of it says what the place the thread has reached tells of the run, *)
(* of the goal and of the disk.  A process that is gone has no memory to   *)
(* speak of: what relates memory to the world is said of a live one.       *)
(***************************************************************************)
EXTENDS PickupExecutor

\* The state a subroutine runs in.
Placed ==
    /\ pc \in {"start", "send", "ack"} => state = "EXECUTING"
    /\ pc \in {"fault.cancel", "fault.cell", "fault.scene"} => state = "BLOCKED"
    /\ pc \in {"release", "release.cell"} => state = "RELEASE_VERDICT"
    /\ pc \in {"consume", "lock", "arm"} => state = "APPROVED"

\* The cell is blocked for as long as the run is active.
Armed == Alive /\ state \in ACTIVE_STATES => ~cell.ready

\* A goal that may move the robot endangers nobody at a ready cell, and the
\* transport of a live executor owns it.
Owned ==
    /\ goal \in Unresolved => ~cell.ready
    /\ Alive /\ (goal \in Unresolved \/ pc = "ack") => owned

\* Outside a step and a fault no goal is owned or believed active.
AtRest ==
    /\ Alive /\ (state \notin {"EXECUTING", "BLOCKED"} \/ pc = "start") => ~owned /\ ~active
    /\ Alive /\ state = "BLOCKED" /\ pc # "fault.cancel" => ~active

\* With a one-stage release the execution knows of every goal the transport
\* owns, until a fault gives it up and says so.
Believed ==
    Alive /\ ~plan.staged /\ (owned \/ pc = "send") => active \/ report.cancelError

\* A goal belongs to a phase, one that does not wait for its confirmation.
InPhase ==
    /\ Alive /\ (owned \/ pc = "send") => ~Done
    /\ pc = "send" /\ stage = "none" => ~NeedsConfirmation

\* The verdicts a run has passed, by the phases it has done.
BoundaryStep == IF plan.boundary = "LIFT_LIN" THEN 5 ELSE 9
Judged ==
    /\ plan.holds /\ step > 4 /\ state \notin {"GRASP_VERDICT", "BLOCKED"} => grasp = "PASS"
    /\ step > BoundaryStep /\ state \notin {"SEMANTIC_VERDICT", "BLOCKED"} => semantic # "none"
    /\ state \in {"RELEASE_VERDICT", "COMPLETED"} => Done
    /\ pc \in {"release", "release.cell"} => release # "none"

\* What is reported durable is on disk.
Durable ==
    report.durable => state = "BLOCKED" /\ cell.reason \in {"FAULT", "ACKNOWLEDGED"}

\* The executor writes the scene last: until its verdict or its fault the last
\* word on the object is a person's.
SceneTold ==
    /\ Alive => bound <= scene.revision
    /\ Alive /\ state \notin Final /\ pc # "release.cell" => scene.writer = "HUMAN"
    /\ pc = "release.cell" => scene.object = "UNKNOWN" \/ scene.writer = "HUMAN"
    /\ Alive /\ state = "BLOCKED" /\ ~Faulting /\ dispatched /\ ~report.sceneError =>
          /\ scene.object = "UNKNOWN" \/ scene.writer = "HUMAN"
          /\ release = "none" => scene.revision > bound

Vacated == scene.source = "AVAILABLE" => scene.release = "LANDED"

Inv ==
    /\ TypeOK /\ Placed /\ Armed /\ Owned /\ AtRest /\ Believed /\ InPhase /\ Judged
    /\ Durable /\ SceneTold /\ Vacated

===============================================================================
