------------------------------- MODULE Episode --------------------------------
(***************************************************************************)
(* One episode: the coordinator OneJob (tools/data_factory/one_job.py),    *)
(* driven by run_job.run_live, over two JSONL channels to a recorder       *)
(* process and a pickup executor process.                                  *)
(*                                                                         *)
(* A call of the coordinator writes one line and waits for one line.  The  *)
(* answer may be late, and then the channel refuses every later call; the  *)
(* child may die; the operator may set the cancel event while it waits.    *)
(* The children are those of RecorderTransaction and PickupExecutor, seen  *)
(* from their channel: one command is served in one step, a fault of the   *)
(* executor cancels and reports in one step.                               *)
(*                                                                         *)
(* Simplifications: a plan is the scripted demonstration (no learned chunk,*)
(* no rollout retention, no object reposition after the commit); contents  *)
(* of evidence are left out, as is who decides; a release is one stage and *)
(* a fault of the executor ends (PickupExecutor has both exceptions).      *)
(***************************************************************************)
EXTENDS Naturals, Sequences

CONSTANTS
    Plans,      \* the shapes of plan a person may approve
    MaxFaults   \* bound on late answers, failures of a child and deaths

VARIABLES
    plan,       \* the planned program; never changes
    \* the coordinator
    job,        \* the attributes of OneJob
    at,         \* the call in progress, or idle between two calls
    sent,       \* its line is written
    beat,       \* the heartbeat during a freeze: none, sent or failed
    choice,     \* the verdict the call carries
    deadline,   \* the deadline of the loop in progress has passed
    preserved,  \* recorder_call._preserved
    runner,     \* run_live: in its loop, or which child it is closing
    cancelled,  \* the cancel event
    \* the channels and the children
    chan,       \* request line, answer line, _response_pending, stdin open
    rec, exe,
    cell,       \* the cell state on disk
    faults      \* faults so far

vars == <<plan, job, at, sent, beat, choice, deadline, preserved, runner, cancelled, chan,
          rec, exe, cell, faults>>

-----------------------------------------------------------------------------
(* Types *)

\* Does the plan hold for a person around the grasp, does it release into a
\* slot, and does the recorder trim its readiness rows.
PlanShapes == [holds : BOOLEAN, release : BOOLEAN, readiness : BOOLEAN]

ASSUME PlansAssumption     == Plans \subseteq PlanShapes
ASSUME MaxFaultsAssumption == MaxFaults \in Nat

Holds         == {"PRECONTACT_HUMAN", "GRASP_VERDICT", "SEMANTIC_VERDICT", "RELEASE_VERDICT"}
ACTIVE_STATES == {"EXECUTING"} \cup Holds
OpenStates    == {"RECORDING", "FROZEN"}
RecorderEnds  == {"COMMITTED", "ABORTED", "QUARANTINED_COMMIT"}
RecorderStates == {"IDLE"} \cup OpenStates \cup RecorderEnds
ExecutorStates == {"IDLE", "PLANNED", "APPROVED", "BLOCKED", "COMPLETED"} \cup ACTIVE_STATES
JobEnds   == {"BLOCKED", "ABORTED", "QUARANTINED_COMMIT", "COMPLETE"}
JobStates == {"IDLE", "PLANNED", "APPROVED", "AWAITING_CELL_READY"} \cup ACTIVE_STATES \cup JobEnds
Verdicts  == {"none", "PASS", "FAIL"}
Releases  == {"LANDED", "OFF_SLOT"}

RecorderCalls == {"begin", "firstrow", "trim", "status", "freeze", "commit", "abort",
                  "abort.blind"}
ExecutorCalls == {"plan", "approve", "execute", "heartbeat", "confirm", "grasp_verdict",
                  "semantic_verdict", "release_verdict", "cancel"}
Calls    == RecorderCalls \cup ExecutorCalls
Children == {"recorder", "executor"}
Commands == (Calls \ {"firstrow", "abort.blind"}) \cup {"none"}

\* An answer: ok, the state it names and what else the coordinator looks at.
Reply(ok, state, note) == [ok |-> ok, state |-> state, note |-> note]
NoReply == Reply(FALSE, "none", "none")
Raised  == Reply(FALSE, "none", "raised")
Late    == Reply(FALSE, "none", "late")
Notes   == {"none", "no_rows", "unhealthy", "rejected", "undurable", "cancel_error"}
Replies == [ok : BOOLEAN, state : {"none"} \cup RecorderStates \cup ExecutorStates, note : Notes]

JobType ==
    [state : JobStates,
     recorder : {"none", "STATUS_UNCERTAIN", "FREEZE_UNCERTAIN"} \cup RecorderStates,
     executor : {"none"} \cup ExecutorStates,
     cancelError : BOOLEAN, leased : BOOLEAN, rejected : BOOLEAN,
     grasp : Verdicts, semantic : Verdicts]
ChannelType == [request : Commands, answer : Replies, pending : BOOLEAN, open : BOOLEAN]
RecorderType == [process : {"none", "running", "gone"}, state : RecorderStates,
                 wrote : BOOLEAN, healthy : BOOLEAN]
ExecutorType ==
    [process : {"running", "gone"}, state : ExecutorStates,
     leg : 1..5, moving : BOOLEAN, lapsed : BOOLEAN, ticking : BOOLEAN,
     durable : BOOLEAN, certain : BOOLEAN, grasp : Verdicts, semantic : Verdicts]

TypeOK ==
    /\ plan \in Plans
    /\ job \in JobType
    /\ at \in Calls \cup {"idle"} /\ sent \in BOOLEAN
    /\ beat \in {"none", "sent", "failed"}
    /\ choice \in Verdicts \cup Releases
    /\ deadline \in BOOLEAN /\ preserved \in BOOLEAN /\ cancelled \in BOOLEAN
    /\ runner \in {"running", "closing.recorder", "closing.executor", "raised", "done"}
    /\ chan \in [Children -> ChannelType]
    /\ rec \in RecorderType
    /\ exe \in ExecutorType
    /\ cell \in {"READY", "IN_PROGRESS", "FAULT", "ACKNOWLEDGED"}
    /\ faults \in 0..MaxFaults

Init ==
    /\ plan \in Plans
    /\ job = [state |-> "IDLE", recorder |-> "none", executor |-> "none",
              cancelError |-> FALSE, leased |-> FALSE, rejected |-> FALSE,
              grasp |-> "none", semantic |-> "none"]
    /\ at = "plan" /\ sent = FALSE /\ beat = "none" /\ choice = "none"
    /\ deadline = FALSE /\ preserved = FALSE
    /\ runner = "running" /\ cancelled = FALSE
    /\ chan = [c \in Children |-> [request |-> "none", answer |-> NoReply, pending |-> FALSE,
                                   open |-> TRUE]]
    /\ rec = [process |-> "none", state |-> "IDLE", wrote |-> FALSE, healthy |-> TRUE]
    /\ exe = [process |-> "running", state |-> "IDLE", leg |-> 1, moving |-> FALSE,
              lapsed |-> FALSE, ticking |-> FALSE, durable |-> FALSE, certain |-> TRUE,
              grasp |-> "none", semantic |-> "none"]
    /\ cell = "READY" /\ faults = 0

children == <<rec, exe, cell>>
people   == <<runner, cancelled>>

-----------------------------------------------------------------------------
(* The channel: JsonlProcess._request *)

Target(call)  == IF call \in RecorderCalls THEN "recorder" ELSE "executor"
Command(call) == CASE call = "firstrow"    -> "status"
                   [] call = "abort.blind" -> "abort"
                   [] OTHER                -> call
Gone(c) == IF c = "recorder" THEN rec.process # "running" ELSE exe.process # "running"

\* The executor's calls watch the cancel event, except cancel itself.
Interrupted(call) == cancelled /\ Target(call) = "executor" /\ call # "cancel"
CanWrite(call) == /\ ~Gone(Target(call)) /\ ~chan[Target(call)].pending
                  /\ ~Interrupted(call)
Line(c, call) == [chan EXCEPT ![c] = [@ EXCEPT !.request = Command(call), !.pending = TRUE]]

\* How the call may end now: refused, answered, the child gone, the operator's
\* cancel, or, except for a commit, no answer in time.
Outcomes(call, written) ==
    LET c == Target(call) IN
    IF ~written THEN (IF CanWrite(call) THEN {} ELSE {Raised})
    ELSE IF chan[c].answer # NoReply THEN {chan[c].answer}
    ELSE (IF Gone(c) \/ Interrupted(call) THEN {Raised} ELSE {})
         \cup (IF call # "commit" /\ faults < MaxFaults THEN {Late} ELSE {})

Read(c) == IF chan[c].answer = NoReply THEN chan
           ELSE [chan EXCEPT ![c] = [@ EXCEPT !.answer = NoReply, !.pending = FALSE]]

Write ==
    /\ at # "idle" /\ ~sent /\ CanWrite(at)
    /\ chan' = Line(Target(at), at) /\ sent' = TRUE
    /\ UNCHANGED <<plan, job, at, beat, choice, deadline, preserved, people, children, faults>>

\* The call in progress ends with r: what every handler shares.
Ends(call, r) ==
    /\ at = call
    /\ r \in Outcomes(call, sent)
    /\ chan' = IF sent THEN Read(Target(call)) ELSE chan
    /\ sent' = FALSE
    /\ faults' = IF r = Late THEN faults + 1 ELSE faults
    /\ UNCHANGED <<plan, people, children>>

Failed(r) == r \in {Raised, Late}

\* The job once it has heard r, whatever it thinks of it.
Heard(call, r) ==
    IF r = Late /\ call \in {"firstrow", "status"} THEN [job EXCEPT !.recorder = "STATUS_UNCERTAIN"]
    ELSE IF Failed(r) \/ call = "freeze" THEN job
    ELSE IF call \in RecorderCalls THEN [job EXCEPT !.recorder = r.state]
    ELSE [job EXCEPT !.executor = r.state]

\* A status that is late while the robot may move preserves the recorder.
Keeps(call, r) == preserved \/ (r = Late /\ call \in {"firstrow", "status"} /\ job.leased)

-----------------------------------------------------------------------------
(* Results: OneJob._abort and _finalize *)

\* The coordinator is idle in state s, or calls next.
Rest(j, s)    == job' = [j EXCEPT !.state = s] /\ at' = "idle" /\ UNCHANGED choice
Call(j, next) == job' = j /\ at' = next /\ UNCHANGED choice

\* What follows the cancel, if there was one.
Discard(j, kept) ==
    IF j.cancelError
    THEN IF j.recorder \in OpenStates
         THEN Call(j, "abort.blind") /\ preserved' = kept
         ELSE Rest(j, "BLOCKED") /\ preserved' = TRUE
    ELSE IF j.recorder = "STATUS_UNCERTAIN" /\ j.leased
         THEN Rest(j, "BLOCKED") /\ preserved' = TRUE
         ELSE Call(j, "abort") /\ preserved' = kept

\* A recorder that says it is quarantined is left alone; a robot that may have
\* been started is cancelled first.
Abort(j, kept) ==
    IF j.recorder = "QUARANTINED_COMMIT"
    THEN Rest(j, "QUARANTINED_COMMIT") /\ preserved' = kept
    ELSE IF j.leased /\ j.executor # "COMPLETED"
         THEN Call(j, "cancel") /\ preserved' = kept
         ELSE Discard(j, kept)

\* Mutant: what was judged a failure is committed with the rest.
EarnedUnjudged(j) == (plan.holds => j.grasp = "PASS") /\ j.recorder = "FROZEN"

Earned(j) == (plan.holds => j.grasp = "PASS") /\ j.semantic = "PASS" /\ j.recorder = "FROZEN"

\* The safety evidence of the run may be refused whatever was judged.
Finalize(j, kept) == \/ Earned(j) /\ Call(j, "commit") /\ preserved' = kept
                     \/ Abort(j, kept)

-----------------------------------------------------------------------------
(* Calls before the motion: _prepare_plan, approve, start *)

Is(r, s)  == r.ok /\ r.state = s
Same      == UNCHANGED <<beat, deadline>>
Back(s, call, r) == Rest(Heard(call, r), s) /\ UNCHANGED preserved

PlanEnds == \E r \in Outcomes("plan", sent) :
    /\ Ends("plan", r) /\ Same
    /\ Back(IF Is(r, "PLANNED") THEN "PLANNED" ELSE "BLOCKED", "plan", r)

\* A refused approval leaves the plan where it was.
ApproveEnds == \E r \in Outcomes("approve", sent) :
    /\ Ends("approve", r) /\ Same
    /\ Back(IF Is(r, "APPROVED") THEN "APPROVED" ELSE "PLANNED", "approve", r)

BeginEnds == \E r \in Outcomes("begin", sent) :
    /\ Ends("begin", r) /\ Same
    /\ IF Is(r, "RECORDING")
       THEN Call(Heard("begin", r), "firstrow") /\ UNCHANGED preserved
       ELSE Abort(Heard("begin", r), preserved)

\* The lease is the coordinator's from the moment it is about to ask.
Arm(j) == IF plan.readiness /\ at = "firstrow"
          THEN Call(j, "trim") ELSE Call([j EXCEPT !.leased = TRUE], "execute")

\* Mutant: the recorder is taken for ready without a row.
FirstRowUnseen == \E r \in Outcomes("firstrow", sent) :
    /\ Ends("firstrow", r) /\ UNCHANGED beat
    /\ deadline' = FALSE
    /\ IF Is(r, "RECORDING") /\ r.note \in {"none", "no_rows"}
       THEN Arm(Heard("firstrow", r)) /\ UNCHANGED preserved
       ELSE Abort(Heard("firstrow", r), Keeps("firstrow", r))

\* _wait_for_first_recorder_row: ask again until a row is durable.
FirstRowEnds == \E r \in Outcomes("firstrow", sent) :
    /\ Ends("firstrow", r) /\ UNCHANGED beat
    /\ LET ready == Is(r, "RECORDING") /\ r.note = "none"
           again == Is(r, "RECORDING") /\ r.note = "no_rows" /\ ~deadline
       IN  /\ deadline' = (again /\ deadline)
           /\ \/ ready /\ Arm(Heard("firstrow", r)) /\ UNCHANGED preserved
              \/ again /\ Call(Heard("firstrow", r), "firstrow") /\ UNCHANGED preserved
              \/ ~ready /\ ~again /\ Abort(Heard("firstrow", r), Keeps("firstrow", r))

\* The sealed rows may be found wanting.
TrimEnds == \E r \in Outcomes("trim", sent) :
    /\ Ends("trim", r) /\ Same
    /\ \/ Is(r, "RECORDING") /\ Arm(Heard("trim", r)) /\ UNCHANGED preserved
       \/ Abort(Heard("trim", r), preserved)

\* execute and confirm: the executor must say it is executing.
Moves(call) == \E r \in Outcomes(call, sent) :
    /\ Ends(call, r) /\ Same
    /\ IF Is(r, "EXECUTING") THEN Back("EXECUTING", call, r)
                             ELSE Abort(Heard(call, r), preserved)
ExecuteEnds == Moves("execute")
ConfirmEnds == Moves("confirm")

GraspVerdictEnds == Moves("grasp_verdict")

\* A semantic verdict counts once the executor has accepted it.
SemanticVerdictEnds == \E r \in Outcomes("semantic_verdict", sent) :
    /\ Ends("semantic_verdict", r) /\ Same
    /\ IF Is(r, "EXECUTING")
       THEN Rest([Heard("semantic_verdict", r) EXCEPT !.semantic = choice], "EXECUTING")
            /\ UNCHANGED preserved
       ELSE Abort(Heard("semantic_verdict", r), preserved)

\* An object that did not land blocks the executor, and its answer, whatever
\* it is, is the result.
ReleaseVerdictEnds == \E r \in Outcomes("release_verdict", sent) :
    /\ Ends("release_verdict", r) /\ Same
    /\ IF Failed(r) \/ (choice = "LANDED" /\ ~Is(r, "COMPLETED"))
       THEN Abort(Heard("release_verdict", r), preserved)
       ELSE Back(IF r.state = "COMPLETED" THEN "EXECUTING" ELSE r.state, "release_verdict", r)

-----------------------------------------------------------------------------
(* poll: status, heartbeat, freeze, commit *)

ExpectedRecorder == IF job.state = "SEMANTIC_VERDICT" \/ job.semantic # "none"
                    THEN "FROZEN" ELSE "RECORDING"

StatusEnds == \E r \in Outcomes("status", sent) :
    /\ Ends("status", r) /\ Same
    /\ IF Is(r, ExpectedRecorder) /\ r.note # "unhealthy"
       THEN Call(Heard("status", r), "heartbeat") /\ UNCHANGED preserved
       ELSE Abort(Heard("status", r), Keeps("status", r))

\* Mutant: the verdict is asked for before the recorder is frozen.
AtVerdictUnfrozen(j) == Rest(j, "SEMANTIC_VERDICT") /\ UNCHANGED preserved

\* The demonstration is over: recording ends before anybody judges it.
AtVerdict(j) ==
    IF plan.holds /\ j.grasp # "PASS" THEN Abort(j, preserved)
    ELSE IF j.recorder = "RECORDING" THEN Call(j, "freeze") /\ UNCHANGED preserved
    ELSE IF j.recorder = "FROZEN"    THEN Rest(j, "SEMANTIC_VERDICT") /\ UNCHANGED preserved
    ELSE Abort(j, preserved)

HeartbeatEnds == \E r \in Outcomes("heartbeat", sent) :
    /\ Ends("heartbeat", r) /\ Same
    /\ LET j == Heard("heartbeat", r)
       IN  \/ r.ok /\ r.state \in Holds \ {"SEMANTIC_VERDICT"} /\ Rest(j, r.state)
              /\ UNCHANGED preserved
           \/ Is(r, "SEMANTIC_VERDICT") /\ AtVerdict(j)
           \/ Is(r, "COMPLETED") /\ Finalize(j, preserved)
           \/ Is(r, "EXECUTING") /\ Rest(j, job.state) /\ UNCHANGED preserved
           \/ (~r.ok \/ r.state \notin ACTIVE_STATES \cup {"COMPLETED"}) /\ Abort(j, preserved)

\* _freeze_recorder_with_heartbeats: a thread waits for the freeze, the caller
\* keeps the lease alive until a heartbeat fails.
FreezeBeats ==
    /\ at = "freeze" /\ sent /\ beat = "none" /\ chan["recorder"].answer = NoReply
    /\ IF CanWrite("heartbeat")
       THEN chan' = Line("executor", "heartbeat") /\ beat' = "sent"
       ELSE beat' = "failed" /\ UNCHANGED chan
    /\ UNCHANGED <<plan, job, at, sent, choice, deadline, preserved, people, children, faults>>

FreezeBeatEnds ==
    /\ at = "freeze" /\ beat = "sent"
    /\ \E r \in Outcomes("heartbeat", TRUE) :
         /\ chan' = Read("executor")
         /\ job' = Heard("heartbeat", r)
         /\ beat' = IF r.ok THEN "none" ELSE "failed"
         /\ faults' = IF r = Late THEN faults + 1 ELSE faults
    /\ UNCHANGED <<plan, at, sent, choice, deadline, preserved, people, children>>

\* The thread is done.  A failed heartbeat comes before its result, and a
\* result that is an error leaves the recorder as it was last heard.
FreezeEnds == \E r \in Outcomes("freeze", sent) :
    /\ Ends("freeze", r) /\ beat # "sent"
    /\ beat' = "none" /\ deadline' = FALSE
    /\ IF beat = "none" /\ r.ok
       THEN LET j == [job EXCEPT !.recorder = r.state]
            IN  IF r.state = "FROZEN" THEN Rest(j, "SEMANTIC_VERDICT") /\ UNCHANGED preserved
                                      ELSE Abort(j, preserved)
       ELSE Abort(job, preserved)

\* The thread is given up: nobody knows whether the recorder is frozen.
FreezeTimesOut ==
    /\ at = "freeze" /\ sent /\ beat # "sent" /\ deadline
    /\ chan["recorder"].answer = NoReply /\ ~Gone("recorder")
    /\ sent' = FALSE /\ beat' = "none" /\ deadline' = FALSE
    /\ Abort([job EXCEPT !.recorder = "FREEZE_UNCERTAIN", !.cancelError = TRUE], TRUE)
    /\ UNCHANGED <<plan, people, chan, children, faults>>

\* A rejection leaves the recorder frozen, to be aborted.  A call that fails
\* before any answer is an abort too, since nothing says it was committed.
CommitEnds == \E r \in Outcomes("commit", sent) :
    /\ Ends("commit", r) /\ Same
    /\ LET j == [Heard("commit", r) EXCEPT !.rejected = (r.note = "rejected")]
       IN  IF Is(r, "COMMITTED") THEN Rest(j, "AWAITING_CELL_READY") /\ UNCHANGED preserved
           ELSE Abort(j, preserved)

\* The deadline of the first row, or of a freeze.
TimePasses ==
    /\ at \in {"firstrow", "freeze"} /\ ~deadline
    /\ deadline' = TRUE
    /\ UNCHANGED <<plan, job, at, sent, beat, choice, preserved, people, chan, children, faults>>

-----------------------------------------------------------------------------
(* The calls of an abort *)

\* Mutant: what the executor reports of its own cancel is not looked at.
UnconfirmedIfSilent(r) == Failed(r) \/ r.state \notin {"BLOCKED", "COMPLETED"}

Unconfirmed(r) == \/ Failed(r) \/ r.state \notin {"BLOCKED", "COMPLETED"}
                  \/ r.note \in {"undurable", "cancel_error"}

CancelEnds == \E r \in Outcomes("cancel", sent) :
    /\ Ends("cancel", r) /\ Same
    /\ LET j == Heard("cancel", r)
       IN  Discard([j EXCEPT !.cancelError = @ \/ Unconfirmed(r)], preserved)

\* The robot is not known to have stopped; the rows are discarded all the same.
BlindAbortEnds == \E r \in Outcomes("abort.blind", sent) :
    /\ Ends("abort.blind", r) /\ Same
    /\ Rest(Heard("abort.blind", r), "BLOCKED")
    /\ preserved' = (preserved \/ ~Is(r, "ABORTED"))

\* Mutant: an abort nobody answered is an abort.
AbortAssumed == \E r \in Outcomes("abort", sent) :
    /\ Ends("abort", r) /\ Same
    /\ LET j == Heard("abort", r)
       IN  Rest(j, IF j.recorder = "QUARANTINED_COMMIT" THEN "QUARANTINED_COMMIT"
                   ELSE IF j.executor = "BLOCKED" THEN "BLOCKED" ELSE "ABORTED")
    /\ UNCHANGED preserved

\* Mutant: the job takes over whatever state the recorder reports.
AbortReported == \E r \in Outcomes("abort", sent) :
    /\ Ends("abort", r) /\ Same
    /\ LET j == Heard("abort", r) IN Rest(j, j.recorder)
    /\ UNCHANGED preserved

AbortEnds == \E r \in Outcomes("abort", sent) :
    /\ Ends("abort", r) /\ Same
    /\ LET j == Heard("abort", r)
       IN  Rest(j, IF j.recorder = "QUARANTINED_COMMIT" THEN "QUARANTINED_COMMIT"
                   ELSE IF j.executor = "BLOCKED" \/ ~Is(r, "ABORTED") THEN "BLOCKED"
                   ELSE "ABORTED")
    /\ UNCHANGED preserved

-----------------------------------------------------------------------------
(* The runner between two calls: run_live *)

Between == at = "idle" /\ runner = "running"
Quiet   == UNCHANGED <<plan, sent, beat, deadline, preserved, people, chan, children, faults>>

Approve == Between /\ job.state = "PLANNED" /\ Call(job, "approve") /\ Quiet

\* The recorder is started for the approved plan, then the episode.
Start ==
    /\ Between /\ job.state = "APPROVED"
    /\ rec' = [rec EXCEPT !.process = "running"]
    /\ Call(job, "begin")
    /\ UNCHANGED <<plan, sent, beat, deadline, preserved, people, chan, exe, cell, faults>>

Poll ==
    /\ Between /\ job.state \in ACTIVE_STATES /\ ~cancelled
    /\ Call(job, "status") /\ Quiet

\* The decision for the hold that was just polled.
Decide ==
    /\ Between /\ job.state \in Holds
    /\ \/ /\ job.state = "PRECONTACT_HUMAN"
          /\ at' = "confirm" /\ UNCHANGED <<job, choice>>
       \/ /\ job.state = "GRASP_VERDICT"
          /\ at' = "grasp_verdict" /\ choice' \in {"PASS", "FAIL"}
          /\ job' = [job EXCEPT !.grasp = choice']
       \/ /\ job.state = "SEMANTIC_VERDICT"
          /\ at' = "semantic_verdict" /\ choice' \in {"PASS", "FAIL"} /\ UNCHANGED job
       \/ /\ job.state = "RELEASE_VERDICT"
          /\ at' = "release_verdict" /\ choice' \in Releases /\ UNCHANGED job
    /\ Quiet

OperatorCancels ==
    /\ runner = "running" /\ ~cancelled
    /\ cancelled' = TRUE
    /\ UNCHANGED <<plan, job, at, sent, beat, choice, deadline, preserved, runner, chan, children,
                   faults>>

\* OneJob.cancel, on the cancel event or on a decision that failed.
Cancel ==
    /\ Between /\ job.state \in ACTIVE_STATES
    /\ cancelled \/ job.state \in Holds
    /\ Abort(job, preserved)
    /\ UNCHANGED <<plan, sent, beat, deadline, people, chan, children, faults>>

\* After the commit: the validator's verdict blocks the cell or, once a person
\* or the landing vouches for the scene, acknowledges it and ends the job.
Finish ==
    /\ Between /\ job.state = "AWAITING_CELL_READY"
    /\ \/ /\ cell' = "FAULT" /\ runner' = "closing.recorder" /\ UNCHANGED job
          /\ chan' = [chan EXCEPT !["recorder"].open = FALSE]
       \/ /\ cell # "READY" /\ cell' = "ACKNOWLEDGED"
          /\ job' = [job EXCEPT !.state = "COMPLETE"] /\ UNCHANGED <<runner, chan>>
    /\ UNCHANGED <<plan, at, sent, beat, choice, deadline, preserved, cancelled, rec, exe, faults>>

\* Mutant: any aborted episode with a release acknowledges its cell.
RecycledAnyway == plan.release /\ job.state = "ABORTED"

\* _recover_quality_rejected_recycle: the rows were refused, the object landed.
Recycled == /\ plan.release /\ job.state = "ABORTED" /\ job.rejected
            /\ job.executor = "COMPLETED" /\ job.recorder = "ABORTED"
            /\ cell \notin {"READY", "ACKNOWLEDGED"}

RecoverRejected ==
    /\ Between /\ Recycled
    /\ cell' = "ACKNOWLEDGED"
    /\ runner' = "closing.recorder"
    /\ chan' = [chan EXCEPT !["recorder"].open = FALSE]
    /\ UNCHANGED <<plan, job, at, sent, beat, choice, deadline, preserved, cancelled, rec, exe,
                   faults>>

\* Mutant: the recorder is waited for, and nobody closes its input.
LeavesOpen ==
    /\ runner' = "closing.recorder"
    /\ UNCHANGED <<plan, job, at, sent, beat, choice, deadline, preserved, cancelled, chan,
                   children, faults>>

Leaves ==
    /\ runner' = "closing.recorder"
    /\ chan' = [chan EXCEPT !["recorder"].open = FALSE]
    /\ UNCHANGED <<plan, job, at, sent, beat, choice, deadline, preserved, cancelled, children,
                   faults>>

\* A result that is not ok, and before the start a cancel or a rejected plan.
Return ==
    /\ Between
    /\ job.state \in JobEnds \cup {"IDLE"} \/ (job.state = "PLANNED" /\ cancelled)
    /\ Leaves

\* A rejected plan, or an exception between two calls: the finally block runs.
RunnerFails == Between /\ Leaves

\* _close_runtime_child, the recorder first.  A wait that ends in a kill raises,
\* which a cancel or a preserved recorder silences.
RecorderClosed ==
    /\ runner = "closing.recorder" /\ rec.process # "running"
    /\ runner' = "closing.executor"
    /\ chan' = [chan EXCEPT !["executor"].open = FALSE]
    /\ UNCHANGED <<plan, job, at, sent, beat, choice, deadline, preserved, cancelled, children,
                   faults>>

RecorderKilled ==
    /\ runner = "closing.recorder" /\ rec.process = "running" /\ faults < MaxFaults
    /\ rec' = [rec EXCEPT !.process = "gone"] /\ faults' = faults + 1
    /\ IF cancelled \/ preserved
       THEN runner' = "closing.executor" /\ chan' = [chan EXCEPT !["executor"].open = FALSE]
       ELSE runner' = "raised" /\ UNCHANGED chan
    /\ UNCHANGED <<plan, job, at, sent, beat, choice, deadline, preserved, cancelled, exe, cell>>

ExecutorClosed ==
    /\ runner = "closing.executor" /\ exe.process = "gone"
    /\ runner' = "done"
    /\ UNCHANGED <<plan, job, at, sent, beat, choice, deadline, preserved, cancelled, chan,
                   children, faults>>

ExecutorKilled ==
    /\ runner = "closing.executor" /\ exe.process = "running" /\ faults < MaxFaults
    /\ exe' = [exe EXCEPT !.process = "gone"] /\ faults' = faults + 1
    /\ runner' = "done"
    /\ UNCHANGED <<plan, job, at, sent, beat, choice, deadline, preserved, cancelled, chan, rec,
                   cell>>

\* The exception leaves run_live, and the channel goes with its frame.
Abandoned ==
    /\ runner = "raised"
    /\ runner' = "done"
    /\ chan' = [chan EXCEPT !["executor"].open = FALSE]
    /\ UNCHANGED <<plan, job, at, sent, beat, choice, deadline, preserved, cancelled, children,
                   faults>>

-----------------------------------------------------------------------------
(* The recorder process *)

coordinator == <<job, at, sent, beat, choice, deadline, preserved, runner, cancelled>>

Request(c)   == chan[c].request
Answer(c, r) == [chan EXCEPT ![c] = [@ EXCEPT !.request = "none", !.answer = r]]

Health == IF ~rec.healthy THEN "unhealthy" ELSE IF ~rec.wrote THEN "no_rows" ELSE "none"

\* What the recorder may answer to a command, with no fault and with one.  A
\* command out of its state is refused; a failing one ends the transaction,
\* by itself or in _control_failure, or leaves a begin where it was.
Served(op) ==
    CASE op = "status"                              -> {Reply(TRUE, rec.state, Health)}
      [] op = "begin" /\ rec.state = "IDLE"         -> {Reply(TRUE, "RECORDING", "none")}
      [] op = "trim" /\ rec.state = "RECORDING"     -> {Reply(TRUE, "RECORDING", "none")}
      [] op = "freeze" /\ rec.state = "RECORDING"   -> {Reply(TRUE, "FROZEN", "none")}
      [] op = "commit" /\ rec.state = "FROZEN"      -> {Reply(TRUE, "COMMITTED", "none"),
                                                        Reply(FALSE, "FROZEN", "rejected")}
      [] op = "abort" /\ rec.state \in OpenStates   -> {Reply(TRUE, "ABORTED", "none")}
      [] OTHER                                      -> {Reply(FALSE, rec.state, "none")}
Broken(op) ==
    IF op = "status" THEN {}
    ELSE {Reply(FALSE, s, "none") :
             s \in {"QUARANTINED_COMMIT"}
                   \cup (IF op = "begin" THEN {"IDLE"} ELSE {})
                   \cup (IF op = "trim" THEN {"RECORDING"} ELSE {})
                   \cup (IF op = "abort" THEN {} ELSE {"ABORTED"})}

RecorderAnswers(r) ==
    /\ chan' = Answer("recorder", r)
    /\ rec' = [rec EXCEPT !.state = r.state,
                          !.process = IF r.state \in RecorderEnds THEN "gone" ELSE @]
    /\ UNCHANGED <<plan, coordinator, exe, cell>>

RecorderServes ==
    /\ rec.process = "running" /\ Request("recorder") # "none"
    /\ \E r \in Served(Request("recorder")) : RecorderAnswers(r)
    /\ UNCHANGED faults

RecorderBreaks ==
    /\ rec.process = "running" /\ Request("recorder") # "none" /\ faults < MaxFaults
    /\ \E r \in Broken(Request("recorder")) : RecorderAnswers(r)
    /\ faults' = faults + 1

RowArrives ==
    /\ rec.process = "running" /\ rec.state = "RECORDING" /\ ~rec.wrote
    /\ rec' = [rec EXCEPT !.wrote = TRUE]
    /\ UNCHANGED <<plan, coordinator, chan, exe, cell, faults>>

\* A writer or sampler fault, or the death of the process, before or after it
\* has done what it was asked to.
RecorderFaults ==
    /\ rec.process = "running" /\ faults < MaxFaults
    /\ \/ rec.state \in OpenStates /\ rec' = [rec EXCEPT !.healthy = FALSE]
       \/ rec' = [rec EXCEPT !.process = "gone"]
       \/ /\ Request("recorder") # "none"
          /\ \E r \in Served(Request("recorder")) :
                rec' = [rec EXCEPT !.process = "gone", !.state = r.state]
    /\ faults' = faults + 1
    /\ UNCHANGED <<plan, coordinator, chan, exe, cell>>

RecorderEndOfInput ==
    /\ rec.process = "running" /\ Request("recorder") = "none" /\ ~chan["recorder"].open
    /\ rec' = [rec EXCEPT !.process = "gone",
                          !.state = IF @ \in OpenStates THEN "ABORTED" ELSE @]
    /\ UNCHANGED <<plan, coordinator, chan, exe, cell, faults>>

-----------------------------------------------------------------------------
(* The executor process and the robot *)

Route == (IF plan.holds THEN <<"PRECONTACT_HUMAN", "GRASP_VERDICT">> ELSE <<>>)
         \o <<"SEMANTIC_VERDICT">>
         \o (IF plan.release THEN <<"RELEASE_VERDICT">> ELSE <<>>)

Active(e) == e.state \in ACTIVE_STATES
Motion(e) == [e EXCEPT !.state = "EXECUTING", !.moving = TRUE]
NextLeg   == Motion([exe EXCEPT !.leg = @ + 1])

\* What a fault makes of the run: stopped, and said so on disk, unless the
\* cancel is not confirmed, which it reports, or the cell cannot be written.
Stopped(e) == [e EXCEPT !.state = "BLOCKED", !.moving = FALSE, !.durable = TRUE]
Halts(e) == [moving : {FALSE, e.moving}, certain : {TRUE, ~e.moving}, durable : BOOLEAN]
BadlyStopped(e) ==
    {[e EXCEPT !.state = "BLOCKED", !.moving = h.moving, !.certain = h.certain,
               !.durable = h.durable] : h \in Halts(e)}
Stops(e) == {Stopped(e)}
            \cup {s \in BadlyStopped(e) : faults < MaxFaults /\ (s.moving => ~s.certain)}
Fault(e, s) == /\ s \in Stops(e)
               /\ cell' = IF s.durable THEN "FAULT" ELSE cell
               /\ faults' = IF s = Stopped(e) THEN faults ELSE faults + 1

Report(e) == IF e.state # "BLOCKED" THEN "none" ELSE IF ~e.certain THEN "cancel_error"
             ELSE IF ~e.durable THEN "undurable" ELSE "none"

\* An answer that is not final is followed by a tick.
ExecutorAnswers(e, r) ==
    /\ chan' = Answer("executor", r)
    /\ exe' = [e EXCEPT !.ticking = r.state \notin {"BLOCKED", "COMPLETED"}]
    /\ UNCHANGED <<plan, coordinator, rec>>

Serving(op) == exe.process = "running" /\ ~exe.ticking /\ Request("executor") = op

\* A command served in its state leads to the run e.
Accepts(op, e) ==
    /\ Serving(op)
    /\ ExecutorAnswers(e, Reply(TRUE, e.state, "none"))
    /\ UNCHANGED faults

PlanCommand ==
    exe.state = "IDLE" /\ Accepts("plan", [exe EXCEPT !.state = "PLANNED"]) /\ UNCHANGED cell
ApproveCommand ==
    exe.state = "PLANNED" /\ Accepts("approve", [exe EXCEPT !.state = "APPROVED"])
    /\ UNCHANGED cell
Heartbeat ==
    Active(exe) /\ Accepts("heartbeat", [exe EXCEPT !.lapsed = FALSE]) /\ UNCHANGED cell

\* Approved, over a cell that is ready: blocked first, then moved.
Execute ==
    /\ exe.state = "APPROVED" /\ cell = "READY"
    /\ Accepts("execute", [Motion(exe) EXCEPT !.lapsed = FALSE])
    /\ cell' = "IN_PROGRESS"

Confirm ==
    exe.state = "PRECONTACT_HUMAN" /\ Accepts("confirm", NextLeg) /\ UNCHANGED cell
GraspVerdict ==
    /\ exe.state = "GRASP_VERDICT" /\ choice = "PASS"
    /\ Accepts("grasp_verdict", [NextLeg EXCEPT !.grasp = choice]) /\ UNCHANGED cell
SemanticVerdict ==
    /\ exe.state = "SEMANTIC_VERDICT"
    /\ Accepts("semantic_verdict", [NextLeg EXCEPT !.semantic = choice]) /\ UNCHANGED cell
ReleaseVerdict ==
    /\ exe.state = "RELEASE_VERDICT" /\ choice = "LANDED"
    /\ Accepts("release_verdict", [exe EXCEPT !.state = "COMPLETED"]) /\ UNCHANGED cell

\* A dispatch that fails, a rejected grasp, an object that did not land or
\* whose landing is not durable, a cancel.
FaultedBy(op, e) ==
    /\ Serving(op)
    /\ \E s \in Stops(e) : Fault(e, s) /\ ExecutorAnswers(s, Reply(FALSE, "BLOCKED", Report(s)))
CommandFaults ==
    \/ exe.state = "APPROVED" /\ cell = "READY" /\ FaultedBy("execute", Motion(exe))
    \/ exe.state = "PRECONTACT_HUMAN" /\ FaultedBy("confirm", NextLeg)
    \/ exe.state = "GRASP_VERDICT"
       /\ FaultedBy("grasp_verdict", IF choice = "PASS" THEN NextLeg ELSE exe)
    \/ exe.state = "SEMANTIC_VERDICT" /\ FaultedBy("semantic_verdict", NextLeg)
    \/ exe.state = "RELEASE_VERDICT" /\ FaultedBy("release_verdict", exe)
    \/ Active(exe) /\ FaultedBy("cancel", exe)

\* A run that is over says how it ended.
Acknowledge ==
    /\ exe.state \in {"BLOCKED", "COMPLETED"}
    /\ \E op \in {"heartbeat", "cancel"} : Serving(op)
    /\ ExecutorAnswers(exe, Reply(exe.state = "COMPLETED", exe.state, Report(exe)))
    /\ UNCHANGED <<cell, faults>>

\* A plan, an approval or an execution that fails its checks, and any command
\* out of its state.
InState(op) ==
    \/ op \in {"heartbeat", "cancel"} /\ exe.state \in ACTIVE_STATES \cup {"BLOCKED", "COMPLETED"}
    \/ op = "confirm" /\ exe.state = "PRECONTACT_HUMAN"
    \/ op = "grasp_verdict" /\ exe.state = "GRASP_VERDICT"
    \/ op = "semantic_verdict" /\ exe.state = "SEMANTIC_VERDICT"
    \/ op = "release_verdict" /\ exe.state = "RELEASE_VERDICT"
Refuse ==
    /\ Request("executor") # "none" /\ Serving(Request("executor")) /\ ~InState(Request("executor"))
    /\ ExecutorAnswers(exe, Reply(FALSE, "IDLE", "none"))
    /\ UNCHANGED <<cell, faults>>

\* One tick ends in the run e.  A blocked run found by the tick that follows an
\* answer ends the process; one found while the stream is quiet does not.
Ticks(e) ==
    /\ exe.process = "running"
    /\ exe' = [e EXCEPT !.ticking = FALSE,
                        !.process = IF exe.ticking /\ e.state = "BLOCKED" THEN "gone" ELSE @]
    /\ UNCHANGED <<plan, coordinator, chan, rec>>

TickIdle == exe.ticking /\ ~(Active(exe) /\ exe.lapsed) /\ Ticks(exe) /\ UNCHANGED <<cell, faults>>

\* The lease, a hold's limit, a goal that failed or is overdue.
TickFault ==
    /\ Active(exe)
    /\ \E s \in Stops(exe) : Fault(exe, s) /\ Ticks(s)

\* The goals of this leg are done: the next hold, or the end.
LegEnds ==
    /\ exe.state = "EXECUTING" /\ ~exe.moving /\ ~exe.lapsed
    /\ Ticks([exe EXCEPT !.state = IF exe.leg > Len(Route) THEN "COMPLETED" ELSE Route[exe.leg]])
    /\ UNCHANGED <<cell, faults>>

LeaseLapses ==
    /\ exe.process = "running" /\ Active(exe) /\ ~exe.lapsed
    /\ exe' = [exe EXCEPT !.lapsed = TRUE]
    /\ UNCHANGED <<plan, coordinator, chan, rec, cell, faults>>

ExecutorEndOfInput ==
    /\ exe.process = "running" /\ ~exe.ticking
    /\ Request("executor") = "none" /\ ~chan["executor"].open
    /\ \/ ~Active(exe) /\ exe' = [exe EXCEPT !.process = "gone"] /\ UNCHANGED <<cell, faults>>
       \/ /\ Active(exe)
          /\ \E s \in Stops(exe) : Fault(exe, s) /\ exe' = [s EXCEPT !.process = "gone"]
    /\ UNCHANGED <<plan, coordinator, chan, rec>>

ExecutorDies ==
    /\ exe.process = "running" /\ faults < MaxFaults
    /\ exe' = [exe EXCEPT !.process = "gone"] /\ faults' = faults + 1
    /\ UNCHANGED <<plan, coordinator, chan, rec, cell>>

RobotEnds ==
    /\ exe.moving
    /\ exe' = [exe EXCEPT !.moving = FALSE]
    /\ UNCHANGED <<plan, coordinator, chan, rec, cell, faults>>

-----------------------------------------------------------------------------
(* Specification *)

CallEnds == PlanEnds \/ ApproveEnds \/ BeginEnds \/ FirstRowEnds \/ TrimEnds \/ ExecuteEnds
            \/ ConfirmEnds \/ GraspVerdictEnds \/ SemanticVerdictEnds \/ ReleaseVerdictEnds
            \/ StatusEnds \/ HeartbeatEnds \/ FreezeEnds \/ CommitEnds \/ CancelEnds
            \/ BlindAbortEnds \/ AbortEnds
Closes == RecorderClosed \/ ExecutorClosed \/ Abandoned
CoordinatorStep == Write \/ CallEnds \/ FreezeBeats \/ FreezeBeatEnds \/ FreezeTimesOut
                   \/ Start \/ Poll \/ Cancel \/ Finish \/ RecoverRejected \/ Return \/ Closes
ExecutorServes == PlanCommand \/ ApproveCommand \/ Execute \/ Heartbeat \/ Confirm \/ GraspVerdict
                  \/ SemanticVerdict \/ ReleaseVerdict \/ CommandFaults \/ Acknowledge \/ Refuse

Next ==
    \/ CoordinatorStep
    \/ Approve \/ Decide \/ OperatorCancels \/ RunnerFails
    \/ TimePasses
    \/ RecorderServes \/ RecorderBreaks \/ RowArrives \/ RecorderFaults \/ RecorderEndOfInput
    \/ RecorderKilled \/ ExecutorKilled
    \/ ExecutorServes \/ TickIdle \/ TickFault \/ LegEnds \/ LeaseLapses
    \/ ExecutorEndOfInput \/ ExecutorDies
    \/ RobotEnds

Spec == Init /\ [][Next]_vars

\* Threads run, limits pass, goals end.  Nothing is assumed of people, of the
\* lease or of the recorder's rows.
Fairness ==
    /\ WF_vars(CoordinatorStep) /\ WF_vars(TimePasses)
    /\ WF_vars(RecorderServes) /\ WF_vars(RecorderEndOfInput)
    /\ WF_vars(ExecutorServes) /\ WF_vars(TickIdle) /\ WF_vars(TickFault)
    /\ WF_vars(ExecutorEndOfInput) /\ WF_vars(RobotEnds)
FairSpec == Spec /\ Fairness

-----------------------------------------------------------------------------
(* Properties *)

Over == at = "idle" /\ job.state \in JobEnds \cup {"AWAITING_CELL_READY"}

\* A job that is over and reports no cancel error has left no goal that may
\* still move the robot.
StopIsKnown == Over /\ ~job.cancelError => ~exe.moving

\* An episode is only committed when its motion is complete and was judged a
\* success, the grasp included where it is judged; and the final report agrees
\* with the recorder on what is committed, aborted or quarantined.
CommitIsEarned ==
    /\ rec.state = "COMMITTED" =>
        /\ exe.state = "COMPLETED" /\ ~exe.moving
        /\ exe.semantic = "PASS" /\ (plan.holds => exe.grasp = "PASS")
    /\ at = "idle" =>
        /\ job.state \in {"AWAITING_CELL_READY", "COMPLETE"} => rec.state = "COMMITTED"
        /\ job.state = "ABORTED" => rec.state = "ABORTED"
        /\ job.state = "QUARANTINED_COMMIT" => rec.state = "QUARANTINED_COMMIT"

\* The rows are of the demonstration: the robot is not started before the
\* recorder has written one, and putting the object back is not recorded.
DemonstrationIsRecorded ==
    [][/\ exe.state = "APPROVED" /\ exe'.moving => rec.wrote
       /\ exe.state = "SEMANTIC_VERDICT" /\ exe'.state = "EXECUTING"
            => rec.state # "RECORDING" \/ rec.process = "gone"]_<<exe>>

\* A cell is only given back when the run is complete and its rows are settled.
CellReadyIsEarned ==
    [][cell' = "ACKNOWLEDGED" =>
         exe.state = "COMPLETED" /\ ~exe.moving /\ rec.state \in {"COMMITTED", "ABORTED"}]_<<cell>>

\* Whatever people, channels and children do, an episode settles: the robot is
\* at rest, no run is active and no transaction is open in a live recorder.
Settled == /\ ~exe.moving /\ (Active(exe) => exe.process = "gone")
           /\ (rec.state \in OpenStates => rec.process = "gone")
EpisodeSettles == <>[]Settled

=============================================================================
