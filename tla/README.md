# A verification project for the closed-loop data engine

The repository is a data engine for a FAIRINO FR5 arm: an operator authorises a
finite campaign, each episode is planned, executed and recorded, a person judges
it, and what passes becomes a LeRobot dataset that is curated, approved and
trained on. This directory holds TLA+ models of the parts whose correctness
depends on order, failure and concurrency, the TLC runs that check them, and
proofs that TLAPS checks.

## 1. Inventory

Paths are relative to `tools/data_factory/` unless they start with `tools/`.

| Part | State it keeps | Operations | Talks to |
| --- | --- | --- | --- |
| Recorder, `tools/fr5_lerobot_recorder.py` | `episode_state`, the rows in memory, the bounded queues between its threads, and on disk: the commit guard `meta/quarantine.json`, staging directories with owner markers, `staging_manifest.json`, `events.jsonl`, `result.json`, the dataset | begin, freeze, trim, retain, abort, commit, status over JSONL; end of input | OneJob (parent); the recovery command through the disk and a file lock |
| Recovery, `tools/data_factory_recovery.py` | nothing in memory between invocations | `recover_orphaned_transaction`: lock, read, validate, remove staging, verify, result, event, unlink, or quarantine | the same disk and lock |
| Pickup executor, `motion/pickup_executor.py` | one run: state, step, lease and hold deadlines, verdicts, the execution record | plan, approve, execute, heartbeat, confirm, verdicts, cancel, status; a tick every 50 ms; end of input | OneJob (parent), the transport, cell and scene stores |
| Transport, `motion/moveit_transport.py` | the active goal, the execution lock | start, poll, cancel | ROS action servers |
| Scene store, `scene_state.py` | `scene_state.json`: objects and slots, revision, digest | register, update, consume a source, transition a release; a file lock | executor, operator |
| Cell store, `cell_state.py` | `state.json`: ready or not, and why | read, mark_blocked, acknowledge_ready | executor, operator |
| OneJob, `one_job.py` | the state of one episode, what it last heard of both children, verdicts, evidence | plan, approve, start, poll, confirm, verdicts, finish, cancel | both children over `JsonlProcess`, `run_job.run_live` above |
| Live runner, `run_job.py` | the operator's decisions, the children | spawns the children, drives OneJob to its end, closes what it started | OneJob, campaign |
| Campaign, `campaign_*.py`, `seed_campaign.py` | the finite list of starts, which is claimed, running, done | authorise, preflight, open, run, complete, cancel | live runner, operator |
| Operator application, `operator/` | draft, compiled plan, campaign | intents posted by a browser | campaign, catalog |
| Episode ledger, `episode_ledger.py` | an append-only record of episodes and admissions | append, project | curator, operator |
| Curator, `curator/` | selections, reviews, derived datasets | select, review, decide, publish | dataset, ledger |
| Training, `training_*.py`, `tools/validate_training_checkpoint.py` | approval files and inventory, the two documents of a launch beside or in its output, checkpoints | approve, run-delegated, launch, continue, inspect, resume | dataset, curator |
| Rollout, `rollout/`, and plugins | the acknowledged queue of policy rows, a stream plan and its progress | reserve, acknowledge, merge, select, commit | executor, policy |
| Catalog, setup, recipes, geometry, quality, tools | static documents and reports | validation, computation | everything above |

How they interact during an episode. `run_live` spawns a recorder and an executor
and hands both channels to OneJob. OneJob starts recording, waits for a first row,
trims the readiness rows, then starts the motion and from then on alternates
status requests to the recorder and heartbeats to the executor. The executor
holds for people at set points; OneJob forwards their confirmations and verdicts.
When recording ends OneJob freezes the recorder, and when the motion ends it
commits or aborts. Anything unexpected cancels the executor and aborts the
recorder. Each child survives its parent: the executor by its lease and by end of
input, the recorder by end of input; a dead recorder is cleaned up by recovery.

What is hard, and where (PROJECT.json lists each hazard with its line):

- **death between two durable writes** of the recorder, of recovery and of the
  executor; every prefix of those writes is a state somebody else reads;
- **writes that fail**, before or after they took effect, including those of the
  error path itself;
- **two processes on one dataset**: recorder and recorder, recorder and recovery;
- **goals nobody answers**: sent and not accepted, accepted and not cancelled;
- **leases, hold limits and silence**: time may pass between any two steps;
- **people who act meanwhile**: scene edits, acknowledgements, early or repeated
  confirmations;
- **half-done protocols**: a response that is late or lost on the channel;
- **threads of one process**: sampler, writer and control of the recorder, the
  worker and the requests of the console;
- **visible and durable are two things**: renames and events before their fsync.

What makes each part correct:

- recorder and recovery: a dataset without a guard is clean; a result file tells
  the truth; one open transaction; a guard goes only when the outcome is settled
  on disk; a quarantine is not lifted by the program, except by its live owner
  after a full diagnostic copy; the lock is given back; recovery ends;
- executor: no goal while the cell says ready; one goal at a time; gated by
  people; a reported fault is durable and its stop confirmed; a completed run has
  earned it; nobody else's scene is overwritten; silence stops the run;
- OneJob: what is committed was executed, judged and frozen; what it reports of
  its children is so; every end has a stopped robot or says it cannot tell;
- campaign: an intent opens only on what the last commit left; a motion always has
  an owner; a cancel is final; the outcomes shown are true;
- learned stream: a goal that may move is owned by the stream that can cancel it; a
  row is consumed only when both references crossed it; a stopped run drains;
- curator: a run can always be loaded again; a receipt is true and stays so; what is
  published is what was approved;
- sampling pipeline: a committed episode has every row once, in order, with its
  images; an ended one leaves nothing behind; a freeze ends;
- training: an inventory is what somebody agreed to; the documents of an output are
  those of its trainer; an accepted checkpoint was trained on the approved bytes;
- ledger (not modelled): what is recorded is still on disk.

## 2. Plan

The modules, in the order they were written. One module is one component; the
last column says what it composes.

| Module | Status | Composes |
| --- | --- | --- |
| `RecorderTransaction`, `AtomicDataset` | checked and proved | recorders and recovery commands on one dataset; the abstract dataset they implement |
| `PickupExecutor` | checked and proved | executor, transport, cell and scene stores |
| `Episode` | checked and proved | OneJob, its two channels, the live runner, a recorder and an executor seen from their channels |
| `Campaign` | checked and proved | console, operator, session and campaign over a child reduced to its states |
| `ActuatorStream`, `AckQueue`, `LearnedStream` | checked and proved | two trajectory clients under one stream; the policy's queue; the executor's stream operations over both |
| `Curator` | checked and proved | the event files, the candidate's directory and the processes that change them |
| `RecorderPipeline` | checked and proved | the threads inside one recorder |
| `TrainingAdmission` | checked and proved | the training commands over one dataset that is still recorded (`AtomicDataset`), one approval directory and one output |

A module `<M>` that is proved has two companions: `<M>Inv` states its inductive
invariant `Inv`, which the run of the component checks, and `<M>Proofs` proves it and
what follows from it. All theorems are about `Spec`, which has no fairness; the
specification a run uses for liveness is `FairSpec`, which implies it.

What would come next: `CellState` with two executors, and the episode ledger.

## 3. RecorderTransaction

### Model

One recorder process per run, one recovery process per invocation, one dataset.
Variables are the files and the volatile state of each process; the header of the
module lists them. `pc` is the next durable write of an operation in progress, so
there is one action per durable write, named after the function that makes it:

| Function | Actions |
| --- | --- |
| `_open_dataset` | `Open` |
| `begin_episode`, `_prepare_transaction` | `BeginEpisode`, `BeginInvalidatesApproval`, `BeginGuard`, `ClaimMakeDirectory`, `ClaimWriteOwner`, `ClaimDone`, `ClaimEvent`, `ClaimFails` (a helper) |
| `freeze_episode` | `FreezeCommand`, `FreezeEpisode`, `FreezeGuard`, `FreezeEvent` |
| `trim_readiness_prefix` | `TrimCommand`, then `ClearDirectory`, `ClearDone` and a new claim |
| `abort_episode`, `_finish_abort` | `AbortEpisode`, `ClearDirectory`, `ClearFails`, `VerifyCleanup`, `AbortResult`, `AbortEvent`, `ReleaseGuard` |
| `commit_episode`, `_abort_precommit` | `CommitEpisode`, `CommitGuard`, `SaveStarts`, `SaveEnds`, `PublishEpisode`, `CommitEvent`, `CommitResult`, `ReleaseGuard` |
| `retain_episode` | `RetainCommand`, `RetainCheck`, `RetainGuard`, `RetainPublish`, `RetainRecheck`, `RetainReceipt`, `RetainResult`, `RetainEvent` |
| `_persist_quarantine` | `QuarantineApproval`, `QuarantineGuard`, `QuarantineResult`, `QuarantineEvent` |
| `close`, end of input | `CloseInput`, `AbortEpisode`, `Exit` |
| `recover_orphaned_transaction` | `RecoverLock`, `RecoverRead`, `RecoverRemoveDirectory`, `RecoverVerify`, `RecoverResult`, `RecoverEvent`, `RecoverUnlink`, `RecoverQuarantine` |
| death of a process | `Crash`, `RecoverCrash` |

A write may fail with the old or the new content on disk; `MaxFaults` bounds how
many do in a behaviour. A death needs no bound: a process dies once.

Abstractions. Rows are the staging directories they need. An episode in the
dataset is nothing, a part, or the whole. A recorder accepts one begin and one
trim, which is what the coordinator sends. The quality rejection of a commit
returns to FROZEN and changes no file. The stop flag only makes the sampler skip
ticks. The episode index is read when the dataset is opened (`base`); what
LeRobot would do with two episodes under one stale index is not in the repository
and not modelled, and the runbook's single owner excludes it.

### Runs

- `recorder_safety`: two recorders, one recovery command, one camera, one failing
  write, about 260 000 states (a process that ended or died has forgotten what it
  knew). Two runs are enough for every conflict over the dataset (owner and other),
  one failure for every error path that the code enters, and a death may follow it
  anywhere. `Inv` is the inductive invariant, `TypeOK` its first part;
  `DatasetIsTruthful` says that what is on disk is so, `TransactionIsExclusive` that one
  process writes and nobody trains on it, `GuardIsHonoured` what the guard may become,
  `ImplementsAtomicDataset` is the refinement of `AtomicDataset`. `LockIsGivenBack` needs
  weak fairness of a running process's next step and of the abort that follows end of
  input. The code justifies both: the recorder's control loop runs until end of input
  and then aborts in its finally block, and recovery is a straight line. Commands,
  deaths and starts of recovery are not fair.
- `recorder_orphan`: a violation, see Findings.

Deadlock is not checked: every process may end.

### Proofs (`RecorderTransactionProofs`)

For any sets of runs, recoveries and cameras and any `MaxFaults`. The safety
properties are not inductive: that a guard is released only over a clean
dataset depends on what each step established since the operation began. `Inv`
(`RecorderTransactionInv`) records that: `SharedInv` says that everything
unfinished belongs to the run of the guard; `RunInv` says, per run and per step,
who holds the lock (`LockInv`), whose guard stands (`GuardInv`), what the dataset
holds (`DataInv`), which result is written (`ResultInv`), which operation may be
there (`ProgressInv`) and that a quarantine is only left after a full copy
(`RetentionInv`); `RecoveryInv` says the same of recovery. The proof has a lemma
for every action, with one step per part of `Inv`, and `Invariance` combines them.
From `Inv` follow:

| Theorem | What it shows |
| --- | --- |
| `TypeCorrectness` | `Spec => []TypeOK` |
| `DatasetTruthful` | `Spec => []DatasetIsTruthful` |
| `TransactionExclusive` | `Spec => []TransactionIsExclusive` |
| `GuardHonoured` | `Spec => GuardIsHonoured` |
| `Implementation` | `Spec => ImplementsAtomicDataset` |

Assumptions: `MaxFaults` is a natural number, recorders and recoveries are
different processes, and the sentinel values (no guard, no manifest, no process,
no owner) are none of the values they stand apart from. TLC evaluates them.

## 4. PickupExecutor

### Model

One run of one executor, which is one thread, with the goal it last sent, the
files of cell and scene, the coordinator that sends commands and a person. `pc` is
the thread's next step and `ret` where a running subroutine returns to; a
subroutine is cut at every wait for the robot or a lock and every durable write.

| Code | Actions |
| --- | --- |
| `run_jsonl`, `process` | `ReadCommand`, `QuietTick`, `Return`, `EndOfInput`, `Tick` |
| `_tick` | `TickIdle`, `TickDeadline`, `PollFails`, `PollContinues`, `StepDone`, `GripperRejected` |
| `_start_current_step`, `_start_phase`, transport `start_phase` | `StartFinishes`, `StartHolds`, `StartDispatches`, `StartFails`, `SendGoal`, `SendFails`, `GoalAccepted`, `GoalRejected`, `GoalUnanswered` |
| `_fault` | `FaultCancel`, `FaultCell`, `FaultScene` |
| handlers | `Approve`, `Heartbeat`, `Confirm`, `GraspVerdict`, `SemanticVerdict`, `ReleaseVerdict`, `ReleaseScene`, `ReleaseSceneFails`, `BlockRelease`, `CommandFaults`, `Reject`, `Acknowledge` |
| `_execute` | `Execute`, `ConsumeSource`, `LockScene`, `Arm`, `ArmFails` |
| environment | `Send`, `CoordinatorExits`, `LeaseLapses`, `HoldOverdue`, `Robot`, `HumanUpdatesScene`, `AcknowledgeReady`, `Kill` |

Abstractions. A plan is its shape: does it hold for people, where recording ends,
is the release opened in two stages, does the scene binding name a slot to
release into and one to take from. Deadlines are flags that time may raise
between any two steps. The revision of the scene stands for its digest. The
coordinator may send any command at any time, so what is shown holds for OneJob
and for any other client.

### Runs

- `executor_safety`: all plan shapes, one scene edit by a person, about two million
  states. `MotionIsFenced` is one goal at a time, and none unless the cell was
  durably blocked for it; `GatedByPeople` what contact, lifting, putting back and
  completing each wait for; `SceneIsKept` that nobody else's scene is written
  over and a slot is freed only by a landing; `ReportedFaultIsTrue` that what a
  blocked executor says of its stop (for a release in one stage), its cell and
  its scene is so. `SilenceStopsTheRun`: when no more commands come, an executing
  run leaves its active states.
- `executor_staged`: for a release in two stages the confirmed stop fails (Findings).
- `executor_fault`: a violation (Findings).

`Inv` is the inductive invariant, `TypeOK` its first part.

Fairness is weak, of the thread's own steps, of the robot's answers and of time:
`run_jsonl` ticks every 50 ms whether or not a line arrives, and every wait of a
tick has a limit. Commands, people and deaths are not fair.

One edit is enough because a run compares one revision with the one it is bound
to. The plan has the ten phases of the code. Deadlock is not checked: the process
ends.

### Proofs (`PickupExecutorProofs`)

For any set of plans of the code's shapes and any `MaxEdits`. None of the four
properties is inductive: that the goal before the next one is over, and that the cell
is blocked, is decided steps earlier and in other handlers. `Inv` (`PickupExecutorInv`)
argues from the place of the thread: the place tells the state a subroutine runs in
(`Placed`); an active state tells that the cell is durably not ready (`Armed`), whose
goal may move (`Owned`) and what is over when nothing does (`AtRest`); what the
process believes of goal, cell and scene is what they are (`Believed`, `SceneTold`);
the step tells which verdicts were given (`Judged`) and what is durable (`Durable`). A
process that is gone has no memory, so these parts speak of a live one only. The proof has
a lemma for every action, with one step per part of `Inv`.

| Theorem | What it shows |
| --- | --- |
| `TypeCorrectness` | `Spec => []TypeOK` |
| `FaultsReportedTrue` | `Spec => []ReportedFaultIsTrue` |
| `MotionFenced` | `Spec => MotionIsFenced` |
| `PeopleGate` | `Spec => GatedByPeople` |
| `SceneKept` | `Spec => SceneIsKept` |

Assumptions: the plans are of the shapes `PlanShapes` lists, and `MaxEdits` is a
natural number.

## 5. Episode

### Model

The coordinator is one thread that makes one call after another; `at` is the call
in progress. A call writes one line (`Write`) and ends with an answer, an error, the
operator's cancel or a timeout (`Ends`, `Outcomes`); what OneJob then does is the
action `<call>Ends`. A channel whose answer was late stays pending and refuses
what follows, the cancel included, while the child may still serve the line: this
is why a request that timed out can start a robot after the job is over.

| Code | Actions and operators |
| --- | --- |
| `JsonlProcess._request`, `OneJob._request` | `Write`, `Outcomes`, `Ends`, `Heard`, `Keeps` |
| `_prepare_plan`, `approve`, `start` | `PlanEnds`, `ApproveEnds`, `BeginEnds`, `FirstRowEnds`, `TrimEnds`, `ExecuteEnds` |
| `poll`, `_freeze_recorder_with_heartbeats` | `Poll`, `StatusEnds`, `HeartbeatEnds`, `AtVerdict`, `FreezeBeats`, `FreezeBeatEnds`, `FreezeEnds`, `FreezeTimesOut` |
| `confirm` and the verdicts | `Decide`, `ConfirmEnds`, `GraspVerdictEnds`, `SemanticVerdictEnds`, `ReleaseVerdictEnds` |
| `_finalize`, `_abort`, `cancel` | `Finalize`, `CommitEnds`, `Abort`, `Discard`, `CancelEnds`, `BlindAbortEnds`, `AbortEnds`, `Cancel` |
| `run_live` | `Approve`, `Start`, `Poll`, `Decide`, `Finish`, `RecoverRejected`, `Return`, `RunnerFails` |
| `_close_runtime_child`, `JsonlProcess.close` | `RecorderClosed`, `RecorderKilled`, `ExecutorClosed`, `ExecutorKilled`, `Abandoned` |
| recorder, seen from its channel | `RecorderServes`, `RecorderBreaks`, `RowArrives`, `RecorderFaults`, `RecorderEndOfInput` |
| executor, seen from its channel | `PlanCommand` to `ReleaseVerdict`, `CommandFaults`, `Acknowledge`, `Refuse`, `TickIdle`, `TickFault`, `LegEnds`, `ExecutorEndOfInput`, `ExecutorDies` |

The two names `abort` and `abort.blind` are one command: the second is the abort of
a job whose cancel was not confirmed, whose answer is treated differently.

Abstractions. A plan is its shape: holds around the grasp, a release, a trim. The
children serve one command in one step; their durable steps are in sections 3 and
4. A fault of the executor ends and a release is one stage: the two exceptions are
findings of section 4 and would make `StopIsKnown` and `EpisodeSettles` fail for the
reason given there. What evidence says is a choice: a commit may be refused for it
whatever was judged. UNCERTAIN is OFF_SLOT, since both end the run.

### Run

- `episode`: the fullest and the barest plan, two faults, about half a million
  states. Two faults are what it takes for one to hit the path another one opened:
  a late answer and then a cancel that is not confirmed, a failed freeze and then a
  failed abort.

Fairness is weak, of the coordinator's and the children's own steps, of
deadlines (`TimePasses`, and `TickFault`, since every state in which the executor
waits has a limit: lease, hold, phase) and of a goal's end. The robot ends its
goals, by success or by its controller. Nothing is assumed of people, of the
recorder's rows, of the lease or of children that die. `EpisodeSettles` says that
then the robot comes to rest, and neither child is left with something open.
`StopIsKnown` is about a job that is over: a stop it reports is one the
executor confirmed. Deadlock is not checked: an episode ends.

### Proofs (`EpisodeProofs`)

| Theorem | States |
| --- | --- |
| `Invariance` | `Spec => []Inv` |
| `StopKnown` | a job that is over without a cancel error has left no goal that may move the robot |
| `CommitEarned` | only a complete motion judged a success is committed; reports agree with the recorder |
| `DemonstrationRecorded` | no start before a row is written; putting the object back is not recorded |
| `CellReadyEarned` | the cell is given back over a complete run and settled rows only |

Assumed of the constants: `Plans` is any set of plan shapes (`PlansAssumption`) and
`MaxFaults` any natural number (`MaxFaultsAssumption`).

None of these is inductive, because the coordinator acts on what it was told and not on
what is so. `EpisodeInv` says what may be concluded, in eight parts:

- `ExecutorOK`, `RecorderOK`: each child by itself. Holds come in the order of the route
  and at rest, a grasp was passed before the third leg, a recorder never goes back and
  has a row once the lease is armed;
- `LinesOK`: a request on a line is not yet answered, an unread answer is to the last
  request, and a pending channel explains what a late answer left behind;
- `RecorderHeard`, `ExecutorHeard`: what an answer tells is so when it is read, and
  after. This is where stability matters: `COMPLETED` and the recorder's ends never
  change again, `BLOCKED` without a cancel error means at rest, and all that `FROZEN`
  leaves is that no row will come;
- `JobOK`: what the coordinator asks for fits what it has heard;
- `MotionOK`: no goal starts without the lease; a request that can start one is either
  the call in progress, or the job is in its cancel, or it reports a cancel error, or
  the run is complete and refuses it. The third is how a late answer
  ends: its line may still be served when the job is over;
- `EndsOK`: what is committed was a success, and the ends are those of the recorder.

The argument has two halves. A step of the coordinator leaves the children alone, so
what it knew stays known and only the answer is new (`EndsFrame`, `HeardKnown`); the
three things it can do next, to rest in a state, to call again and to abort, have a
condition each under which they keep `Inv` (`RestKeeps`, `CallKeeps`, `AbortKeeps`), and
each of the seventeen call ends is shown to meet it. A step of a child leaves the
coordinator alone, so its conclusions must stay true of a child that moves on: a recorder
that only advances (`RecorderAnswersKeeps`), and a run that becomes another in a way the
coordinator's conclusions survive (`StaysTrue`, `ExecutorKeeps`), whether it answers
(`AnswerKeeps`), starts a leg (`MayMove`), or only comes to rest (`CalmKeeps`).

## 6. Campaign

### Model

One worker thread runs the slots of a campaign one after another; `at` is its next
step, cut wherever it takes a lock, calls the robot or waits. Requests of the
operator come from other threads and hold all the locks they need, so each is one
step. The child is a OneJob reduced to its state and to whether the arm moves.

| Code | Actions |
| --- | --- |
| `CampaignOperator.run_next`, `_ensure_session` | `Ensure`, `ReadScene`, `ReadSceneAgain` |
| `CampaignSession` | `Preflight`, `Claim`, `OpenNext`, `Report`, `Unwind`, `RefreshStartOwner`; operators `Finish`, `TerminateActive`, `CancelCampaignCall` |
| `SeedCampaign` | operators `Admits`, `Passed`, `Fault`, `CancelCampaign` |
| callbacks of `composition.py` | `Activate`, `Bind`, `LiveEnds`, `LiveFails` |
| `home_recovery.py`, transport | `Claim`, `Send`, `Dispatch`, `Wait`, `Settle` |
| `run_live`, seen from the campaign | `PlanChild`, `AskSite`, `HearSite`, `AskDecision`, `HearDecision`, `StartChild`, `DriveChild`, `AskVerdict`, `HearVerdict`, `CommitChild` |
| `OperatorConsole` worker | `Publish`, `Check`, `AdvanceRun` |
| `OperatorConsole` requests | `CompileDraft`, `AuthorizeCampaign`, `DecidePlan`, `ResolveCheckpoint`, `CancelSession`, `CloseBegins`, `CloseFails`, `CloseEnds` |
| environment | `GoalEnds`, `SceneChanges`, `Expire` |

### Runs

- `campaign_safety`: three slots, any quota up to three, two foreign scene edits,
  with one approval for the campaign or a button per plan. Three slots have a
  first, a middle and a last; a quota below, at and above what is left; two edits
  hit the scene before and after the arm moved. `NextIsEarned` also says that after
  a cancel nothing further opens, moves or is sent. `RunEnds` assumes weak fairness
  of the worker only, which has nobody to wait for once its campaign is approved:
  its waits for the robot have limits and its ports are closed by a cancel.
- `campaign_cancel`: a violation, see Findings.

`Inv` is the inductive invariant, `TypeOK` its first part. Deadlock is not checked: a
console that is closed stops.

### Proofs (`CampaignProofs`)

For any number of slots, any quota and any number of foreign edits. `Inv`
(`CampaignInv`) says what the session knows of a cancel (`SessionInv`); which motion may
be on its way at which step of the worker, and what the child is doing there
(`MotionInv`, `LiveInv`); and how far the runs, the campaign, what the operator was told
and the scene have come (`OrderInv`, `HistoryInv`, `SceneInv`). It is needed because
requests come between any two steps of the worker: that an intent opens on what
the last commit left rests on what `preflight` read, and on nothing having come between.

| Theorem | What it shows |
| --- | --- |
| `TypeCorrectness` | `Spec => []TypeOK` |
| `MotionOwned` | `Spec => []MotionIsOwned` |
| `OutcomeTrue` | `Spec => []OutcomeIsTrue` |
| `NextEarned` | `Spec => NextIsEarned` |

Assumption: `Slots` is positive, `MaxQuota` and `MaxChanges` are natural numbers.

## 7. LearnedStream

### Model

Three modules. `ActuatorStream` is the two clients of the trajectory controllers
(`arm_stream.py`) paired per revision (`actuator_stream.py`), and the controllers, which
decide, replace, move, end and answer in any order. `AckQueue` is the queue of policy
rows as operators on its value, since every method takes its lock. `LearnedStream`
extends both with the executor's stream operations; requests and ticks run on one
thread and are one step each.

| Code | Actions and operators |
| --- | --- |
| `_execute_stream` | `Execute`, `StartGeometry` |
| `_prepare_stream_revision`, `select_stream_revision` | `Prepare`, `Selections`, `StartCheck` |
| `_commit_stream_revision` | `CommitSceneBusy`, `CommitRefused`, `CommitSent`, `ConsumeCheck` |
| `ActuatorStream.submit`, `poll`, `cancel` | `Submitted`, `CleanSend`, `Poll`, `PollChild`, `LogicalEvents`, `Cancel` |
| `_tick`, `_observe_stream_progress` | `Tick`, `PollCheck`, `Observe`, `Retire`, `Fails` |
| `_fault`, `_drain_actuator_stream` | `Stop`, `Fault`, `Fence`, `DrainTick`, `MayClose` |
| `AcknowledgedActionQueue` | `Merge`, `Clear`, `Snapshot`, `UnchangedPrefix`, `Advance` |
| `acknowledge_stream_selection` | `Acknowledge` |
| environment | `Infer`, `Reset`, `Controller` (`Answer`, `Move`, `End`) |

Abstractions. `native` is what has reached the client, so a late message is a step
not yet taken. A grant of a task is one bit, its time. The candidate, progress and
queue of a blocked run are let go, since it refuses every request. Real-time
chunking is off. The numbers a check computes are a choice of its guard.

### Run

- `learned_safety`: two revisions over two rows inferred in one or two chunks, one
  fault of any kind, 125 164 states. Two revisions are a replacement; two rows are a
  prefix that is partly crossed; a second fault finds the stream already fenced.
  `FaultDrains` assumes that the drain is polled again and again while it is due
  (`run_jsonl` ticks until it settles), that time is noticed, and that a controller
  which can answer does; goals whose answer is lost are named in the property. `Inv`
  is the inductive invariant, `TypeOK` its first part.

Deadlock is not checked: a task ends.

### Proofs (`LearnedStreamProofs`)

For any bounds on revisions, rows and faults. `Inv` (`LearnedStreamInv`) has a part for
the port and its controllers, `StreamOK`, and parts for the run, its progress and its
queue.

`StreamOK` says who owns a goal. In each child a goal that may move is in one of three
slots, a slot holds a revision that was sent and that the child is not done with, and no
revision is in two (`ChildOwns`); a goal has a handle only when its acceptance was heard
(`ChildHeard`); and while the stream is not fenced the children wait for the pending pair
only (`ChildUnfenced`), of which there is one at most (`PairsOK`). It is not kept by the
events of a poll one by one: the first child may have said that it accepted a revision
while the pair does not say so yet. `Mid`, in the proofs, is the invariant in the middle
of a poll, with what a child has accepted and is done with as parameters, read from the
pairs and from the events already said; a poll leads from `StreamOK` through one `Mid`
per event and back.

`LifeOK` ties the port to the state of the run, `SceneOK` the report on the object to
what was sent. `ProgressOK` is what an acknowledgement rests on: the rows counted of a
revision are no more than the elapsed rows of either actuator, and those are rows whose
crossing was heard, or all rows of a goal that succeeded. The progress follows the
predecessors of the current revision, in a recursive function over the revisions seen
(`Observe`): that it ends is shown by the well-ordering of the naturals
(`LeastNatural`, `ChainExists`), which is a first-order fact of the library.

| Theorem | What it shows |
| --- | --- |
| `Invariance` | `Spec => []Inv` |
| `TypeCorrect` | `Spec => []TypeOK` |
| `OwnedGoals` | `Spec => []GoalsAreOwned` |
| `HonestReport` | `Spec => []ReportIsHonest` |
| `EarnedAck` | `Spec => AckIsEarned` |

Assumption: the three bounds are natural numbers. `FaultDrains` is liveness and stays
with the run.

## 8. Curator

### Model

Runs that derive a candidate from one source compete for one output name.
Processes run one command at a time and may be killed between any two changes of a
directory or fsyncs. What a rename or a new file changed is visible at once, and
certain after the fsync of its directory: `sure` is how many events of a run power
loss cannot take, `maybe` the names its candidate may have afterwards.

| Code | Actions |
| --- | --- |
| `append_event`, `write_json_exclusive` | `Append1`, `Append2`; operators `Previous`, `Says`, `Refused`, `Ambiguous` |
| `load_events` | operator `Loads` |
| `prepare`, `materialize_candidate` | `Prepare`, `Commit`, `CommitSync`, `Fail` |
| `cleanup_candidate`, `remove_owned_directory` | `Cleanup`, `Unstage`, `UnstageSync`, `Remove`, `RemoveSync` |
| `_decide_locked`, `_abort_before_decision` | `Decide`, `Replay`, `Prompt` |
| `_finish_recorded_decision`, `_commit_receipt` | `FinishCompleted`, `FinishAction`, `FinishRefuses` |
| `publish_candidate` | `ToStage`, `StageSync`, `ToOutput`, `OutputSync`, `Undo`, `UndoSync` |
| environment | `Kill`, `PowerLoss`, `Edit` |

Assumed of the file system: the entries of one directory persist in the order they
were made, and nothing of one directory against another. A person edits a candidate
by its own name only, which is what `tools/data_factory/README.md` asks for.

### Run

- `curator_safety`: two runs, two processes, two mishaps (a failing call, an edit, or
  a loss of power), 1.2 million states up to symmetry of runs and of processes
  (nothing distinguishes their members). Two runs are one output and a
  competitor; two mishaps are a failing call and what happens to its error path.
  `Inv` is the inductive invariant, `TypeOK` its first part. There is no liveness: what
  happens next is a person's.

Deadlock is not checked: commands end.

### Proofs (`CuratorProofs`)

For any sets of runs and processes and any `MaxMishaps`. `Inv` (`CuratorInv`) has three
parts.

- `RunInv`: the events of a run are a chain (`Chain`): each names the one before it,
  is the next in order, a failure that fits what was decided, or the receipt of
  the decision. `Chain` is a statement about every place of the sequence, so every
  prefix of a chain is one, which is what a loss of power needs; and an append keeps
  it when the new event follows the last one. It also says which names the
  candidate may have after a decision and after a receipt.
- `StepInv`: the next step of a process says how far its run's events have come and
  which name the candidate has; it is only what that step itself relies on.
- `AloneInv`: a run has one process, or two of which one holds its lock. Then the other
  one prepared it and has nothing left to do than to sync or to fail (`Alone`), so
  nothing it still does disturbs the holder.

The lemmas on sequences come first: which event can stand at which place
(`EventPlaces`), that `Has` and `The` of the code's event names are places of the chain
(`HasFacts`, `TheFacts`), what an append adds (`ReachedAppend`, `AppendNext`,
`AppendFailure`, `AppendReceipt`) and what a prefix keeps (`Prefixes`). A step then is
one of four kinds (`Moved`, `Renamed`, `Appended`, `Watched`), and each action is shown
to be of its kind.

| Theorem | What it shows |
| --- | --- |
| `TypeCorrectness` | `Spec => []TypeOK` |
| `RunsAlwaysLoad` | `Spec => []RunsLoad` |
| `ReceiptsTrue` | `Spec => []ReceiptIsTrue` |
| `DecisionsHold` | `Spec => []DecisionHolds` |
| `PublishedApproved` | `Spec => PublishedIsApproved` |

Assumption: `MaxMishaps` is a natural number and `Nobody` is not a process. What is
assumed of the file system is part of the model (`PowerLoss`).

## 9. RecorderPipeline

### Model

The threads of one recorder during one episode: the sampler, the writer, LeRobot's
image writer and the control thread, sharing `self.lock`. Each section under the
lock is one step, and what lies between two sections is not. A row is the stamp of
its target in periods. The files of the transaction are those of section 3.

| Code | Actions |
| --- | --- |
| `_sampler_loop`, `_enqueue_aligned_frame` | `SampleTargets`, `AlignTarget`, `CountMissed`, `PutRow`, `SamplerDies` |
| `_writer_loop`, `_write_frame` | `TakeRow`, `CheckRow`, `AddRow`, `CountRow`, `RowFails`, `WriteImages` |
| `trim_readiness_prefix` | `StartTrim`, `Join`, `Drain`, `TrimAccepted`, `TrimRefused` |
| `freeze_episode` | `StartFreeze`, `TailReached`, `TailLate`, `TailTimesOut`, `TailInterrupted`, `Join`, `Drain`, `SealFreeze` |
| `commit_episode`, `abort_episode` | `Commit`, `StartEnd`, `ClearBuffer` |
| `retain_episode` | `BeginRetain`, `CopyRows`, `ReleaseRows` |
| `close` | `StartClose`, `SealClose` |
| `episode_status` | `FindDiskLow` |
| environment | `Tick`, `Shutdown` |

Abstractions. The sources have delivered and their rings survive a trim. The ROS
clock and the monotonic one run together. A row that raises does so before it
counts in LeRobot's buffer. A refused trim is followed by an abort or a retention,
which is what OneJob does.

`EpisodeIsWhole` leaves out a freeze that a signal interrupts, by the history
variable `interrupted`: `spin_once` then raises out of `freeze_episode`, and `close`
joins the queue and calls the episode FROZEN while `recording` is still on, so that
the sampler and the writer can put a row into the buffer of an episode that was
aborted and verified empty. No document of the repository speaks of this case; it
is listed as a hazard.

### Run

- `recorder_threads`: a delay of one period, a patience of two, passes of two targets
  and one place in each queue, so that a pass overtakes the writer and a row is
  dropped; a trim, one fault of any kind; 1.4 million states. Longer episodes repeat
  the same states with other stamps. `Inv` is the inductive invariant, `TypeOK` its
  first part. `FreezeEnds` assumes weak fairness of the threads' loops and of the clock,
  not of commands.

Deadlock is not checked: an episode ends.

### Proofs (`RecorderPipelineProofs`)

For any delay, rate, patience, queue size and number of trims and faults. `Inv`
(`RecorderPipelineInv`) says that the rows of the running epoch are one chain: those
counted, the one in the writer's hand, those in the queue and the targets of the
sampler's pass follow each other (`PrefixInv`), without a gap while nothing was counted
against them (`GaplessInv`). A trim ends an epoch: it first waits until no row of it is
on its way (`TrimInv`, `ControlInv`), so a row of a discarded prefix has no place
left from which to come back. `BufferInv` and `EndInv` say what of it is in LeRobot's
buffer and in images, and what the end of an episode left. The parts about an
ended episode leave out a freeze that a signal interrupts, as the property does.

| Theorem | What it shows |
| --- | --- |
| `TypeCorrectness` | `Spec => []TypeOK` |
| `EpisodeWhole` | `Spec => []EpisodeIsWhole` |

Assumption: the constants are natural numbers, the rate and the queue size positive,
the patience at least two periods.

## 10. TrainingAdmission

### Model

Each command is a process that may be killed between any two steps. None takes the
lock of the dataset, so a recorder goes on writing it, as the abstract dataset of
section 3. A check is two steps, the look for the guard and the hash of the tree with
the documents; what the process carries from one to the next is what may be stale.

| Code | Actions and operators |
| --- | --- |
| `current_dataset_identity`, `validate_current_training_inventory` | `Look`, `Decide`, `Current` |
| `prepare_approval_batch`, `delegate_training_batch` | `Prepare`, `Draft`, `Reviewed` |
| `_confirm_human_training_approval` | `Ask` |
| `_publish_authorization_batch`, `_revalidate_*` | `Lock`, `Recheck`, `Write`, `Build`, `Again`, `Publish` |
| `launch_delegated_request` | `StartRun`, `Begin`, `Recover`, `Outputs`, `Compare` |
| `launch`, `prepare_launch` | `StartLaunch`, `Admit1`, `CheckVacant`, `Admit2`, `Reserve`, `Settle` |
| `run_native_training` | `Native`, `Start`, `Read`, `Save`, `Finish` (the trainer is LeRobot's) |
| `validate_checkpoint`, `resume_training` | `StartInspect`, `Inspect`, `Use` |
| environment | `Record`, `Withdraw`, `Crash` |

Abstractions. A batch is the dataset's bytes, its episodes and on whose authority; a
launch adds a recipe. A run has the guard once, since its name is in the guard. A
check repeated with nothing in between is made once. Approval files and evidence are
not edited and directories stay where they are. A temporary file that a killed writer
leaves (`_write_exclusive`) is left out: it can only make a later run-delegated refuse.

Two things the model shows that no document of the repository speaks against, so that
they are not findings. A launch that lost the race for an output leaves its own
documents pending when the winner has already moved its own away; from then on
run-delegated refuses that output. And two resumptions of one output may
train at once, as nothing keeps the second out; `ManifestsAreOwn` speaks of fresh
trainings only.

### Run

- `training_safety`: two processes, two episodes of which one is being recorded, two
  recipes, 1.6 million states up to symmetry of processes and of recipes (nothing
  distinguishes their members). Two processes are any command against any other, and
  a third command follows when one ended; one further episode is one change of the
  dataset; two recipes are two launches that differ. `Inv` is the inductive
  invariant, `TypeOK` its first part. There is no liveness: the commands are a
  person's. Deadlock is checked: a command can always be started.

### Proofs (`TrainingAdmissionProofs`)

For any sets of runs, processes, requests and recipes. `Inv` (`TrainingAdmissionInv`)
rests on what `AtomicDataset` allows: a published episode stays, and a guard that is
gone never comes back (`Reached`, `DatasetInv`), so a hash and a later look for the guard
speak of one dataset. On it `DraftInv` follows a batch from the look to the inventory,
`LaunchInv` and `WrittenInv` a launch from the inventory it goes by to the documents it
leaves, `Apart` says that two processes wrote different ones, and `OutputInv` that what
is found for an output is what its trainer was launched with.

| Theorem | What it shows |
| --- | --- |
| `TypeCorrectness` | `Spec => []TypeOK` |
| `InventoryReviewed` | `Spec => []InventoryIsReviewed` |
| `ManifestsOwn` | `Spec => []ManifestsAreOwn` |
| `AcceptedApproved` | `Spec => AcceptedIsApproved` |

Assumptions: the recorded episodes are runs, a request names at least one, `Nobody` is
no run and no process, and `None` is neither a batch nor a document.

## 11. Findings

1. `recorder_orphan`: an orphan whose readiness rows were trimmed is quarantined
   by recovery, because recovery reads the journal without accepting the trim
   event that the live recorder writes in every production episode.
2. `executor_fault`: the scripted first dispatch runs under the scene's file lock;
   if it fails after the dispatch was attempted, the fault path waits for that
   lock in the same thread, for ever.
3. `executor_staged`: the second stage of a staged release is dispatched after the
   execution was marked inactive; if its goal stays unanswered the fault path
   does not cancel it and reports a stop nobody confirmed.
4. `campaign_cancel`: a cancel that is served between the publication of an
   episode's outcome and the worker's last look at the flag is accepted and then
   seen by nobody: the console stays CANCELLING.

PROJECT.json quotes the lines these contradict.

## 12. What is only model-checked, and what is not modelled

Proved, for every value of the constants: all safety properties that a passing run of
sections 3 to 10 checks, with the type invariants and the refinement of
`AtomicDataset`.

Only model-checked:

- liveness: `LockIsGivenBack`, `SilenceStopsTheRun`, `EpisodeSettles`, `RunEnds`,
  `FaultDrains`, `FreezeEnds`. Fairness and ENABLED are beyond this prover;
- the violations of section 11, which are counterexamples and need no proof.

The provers cannot do induction over data either, nor modules with RECURSIVE operators;
the models have none. A chain of events or of rows is therefore stated by a bounded
quantifier over its places, and kept step by step.

An update of two fields of one key of a function is written as one update of that key,
`[f EXCEPT ![k] = [@ EXCEPT !.a = x, !.b = y]]`: the SMT translation of this version of
the prover takes the two-path form `[f EXCEPT ![k].a = x, ![k].b = y]` for something else,
from which a proof could follow that says nothing.

Not modelled:

- in modelled components: the executor's planning, finite learned chunks and
  mechanical terminal; OneJob's learned, stream and reposition operations and what
  the live runner prepares and writes as evidence; the reviews and the replacement
  of a campaign in `operator/workflow/application.py`; registration in the scene
  store; real-time chunking; interpolation, image conversion and quality statistics;
- components that keep state but are not modelled yet: the episode ledger and the web
  bridge; of training, `continue_training`, mapped and derived datasets, cohorts and the
  limits of a delegation;
- components without a protocol: catalog, setup and registries, task recipes and
  geometry contracts, dataset validation, offline evaluation, quality reports, the
  placement sheet, robot descriptions. They validate or compute; what could be
  checked of them is arithmetic that their unit tests reach. They are most of the
  repository's lines, which is why the models cover a small share of the whole.

PROJECT.json gives the reason for each.
