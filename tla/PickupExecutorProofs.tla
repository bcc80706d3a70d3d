-------------------------- MODULE PickupExecutorProofs --------------------------
(***************************************************************************)
(* Inv (PickupExecutorInv) is inductive, and what follows from it: motion  *)
(* is fenced by the cell (MotionIsFenced), people gate contact, lift,      *)
(* return and completion (GatedByPeople), the scene is kept (SceneIsKept)  *)
(* and what is reported of a fault is so (ReportedFaultIsTrue), for every  *)
(* set of plans and every number of edits of the scene.                    *)
(*                                                                         *)
(* The argument is local: the place the thread has reached determines the  *)
(* state it runs in (Placed), and the state determines what may be owned,  *)
(* armed and judged; one lemma per action.  The types are kept in parts,   *)
(* by kind of variable, the records of the disk by what is written there.  *)
(***************************************************************************)
EXTENDS PickupExecutorInv, TLAPS

-----------------------------------------------------------------------------
(* The phases and the types *)

\* Where the phases that matter come in a run.
LEMMA PhaseFacts ==
    /\ Len(PHASES) = 10
    /\ \A k \in 1..10 :
          /\ PHASES[k] = "FINAL_APPROACH_LIN" <=> k = 3
          /\ PHASES[k] = "GRIPPER_CLOSE" <=> k = 4
          /\ PHASES[k] = "LIFT_LIN" <=> k = 5
          /\ PHASES[k] = "RECYCLE_APPROACH_PTP" <=> k = 6
          /\ PHASES[k] = "GRIPPER_OPEN" <=> k = 8
          /\ PHASES[k] = "RETREAT_LIN" <=> k = 9
  BY DEF PHASES

\* TypeOK by kind of variable.
Cells   == [ready : BOOLEAN, reason : {"ACKNOWLEDGED", "EXECUTION_IN_PROGRESS", "FAULT"}]
Scenes  == [revision : Nat, object : {"ON_SURFACE", "UNKNOWN"},
            source : {"NONE", "LANDED", "CONSUMED", "AVAILABLE"},
            release : {"NONE", "LANDED", "QUARANTINED"}, writer : {"HUMAN", "ROBOT"}]
Reports == [durable : BOOLEAN, cancelError : BOOLEAN, sceneError : BOOLEAN]

RecordsTyped == plan \in Plans /\ cell \in Cells /\ scene \in Scenes /\ report \in Reports
NumbersTyped == step \in 1..11 /\ bound \in Nat /\ edits \in 0..MaxEdits
PlacesTyped  == pc \in Steps /\ ret \in Returns
StatesTyped  == state \in States /\ goal \in Goals
VerdictsTyped ==
    /\ grasp \in Verdicts /\ semantic \in Verdicts
    /\ release \in ReleaseVerdicts \cup {"none"}
    /\ stage \in {"none", "continuing", "continued"}
FlagsTyped ==
    /\ lock \in BOOLEAN /\ owned \in BOOLEAN /\ fenced \in BOOLEAN /\ pending \in BOOLEAN
    /\ eof \in BOOLEAN /\ active \in BOOLEAN /\ dispatched \in BOOLEAN
    /\ confirmed \in BOOLEAN /\ lapsed \in BOOLEAN /\ overdue \in BOOLEAN

Typed ==
    /\ RecordsTyped /\ NumbersTyped /\ PlacesTyped /\ StatesTyped /\ VerdictsTyped
    /\ FlagsTyped

LEMMA TypeParts == TypeOK <=> Typed
  BY PhaseFacts DEF Typed, TypeOK, RecordsTyped, NumbersTyped, PlacesTyped, StatesTyped,
       VerdictsTyped, FlagsTyped, Cells, Scenes, Reports

LEMMA TypePartsNext ==
  ASSUME RecordsTyped', NumbersTyped', PlacesTyped', StatesTyped', VerdictsTyped', FlagsTyped'
  PROVE  TypeOK'
  <1>1. step' \in 1..(Len(PHASES) + 1)
    BY PhaseFacts DEF NumbersTyped
  <1>2. QED
    BY <1>1 DEF TypeOK, RecordsTyped, NumbersTyped, PlacesTyped, StatesTyped, VerdictsTyped,
         FlagsTyped, Cells, Scenes, Reports

-----------------------------------------------------------------------------
(* What is written to disk and reported *)

LEMMA CellWrites ==
  /\ [ready |-> FALSE, reason |-> "FAULT"] \in Cells
  /\ [ready |-> FALSE, reason |-> "EXECUTION_IN_PROGRESS"] \in Cells
  /\ [ready |-> TRUE, reason |-> "ACKNOWLEDGED"] \in Cells
  BY DEF Cells

LEMMA Reporting ==
  ASSUME report \in Reports
  PROVE  /\ NoReport \in Reports /\ ~NoReport.durable
         /\ [report EXCEPT !.cancelError = TRUE] \in Reports
         /\ [report EXCEPT !.durable = TRUE] \in Reports
         /\ [report EXCEPT !.durable = FALSE] \in Reports
         /\ [report EXCEPT !.sceneError = TRUE] \in Reports
  BY DEF Reports, NoReport

LEMMA SceneWrites ==
  ASSUME scene \in Scenes
  PROVE  /\ Landing \in Scenes /\ Landing.release = "LANDED"
         /\ Landing.revision = scene.revision + 1
         /\ Quarantine \in Scenes /\ Quarantine.object = "UNKNOWN"
         /\ Quarantine.revision = scene.revision + 1 /\ Quarantine.source = scene.source
         /\ ObjectUnknown \in Scenes /\ ObjectUnknown.object = "UNKNOWN"
         /\ ObjectUnknown.revision = scene.revision + 1
         /\ ObjectUnknown.source = scene.source /\ ObjectUnknown.release = scene.release
  <1> DEFINE n == scene.revision + 1
             from == IF scene.source = "CONSUMED" /\ cell.reason = "EXECUTION_IN_PROGRESS"
                     THEN "AVAILABLE" ELSE scene.source
  <1>1. n \in Nat
    BY DEF Scenes
  <1>2. from \in {"NONE", "LANDED", "CONSUMED", "AVAILABLE"}
    BY DEF Scenes
  <1>3. Landing = [scene EXCEPT !.revision = n, !.object = "ON_SURFACE", !.release = "LANDED",
                                !.source = from, !.writer = "ROBOT"]
    BY DEF Landing
  <1>4. Quarantine = [scene EXCEPT !.revision = n, !.object = "UNKNOWN",
                                   !.release = "QUARANTINED", !.writer = "ROBOT"]
    BY DEF Quarantine
  <1>5. ObjectUnknown = [scene EXCEPT !.revision = n, !.object = "UNKNOWN", !.writer = "ROBOT"]
    BY DEF ObjectUnknown
  <1> HIDE DEF n, from
  <1>0. scene \in Scenes
    OBVIOUS
  <1>6. Landing \in Scenes /\ Landing.release = "LANDED" /\ Landing.revision = n
    BY <1>0, <1>1, <1>2, <1>3 DEF Scenes
  <1>7. /\ Quarantine \in Scenes /\ Quarantine.object = "UNKNOWN"
        /\ Quarantine.revision = n /\ Quarantine.source = scene.source
    BY <1>1, <1>4 DEF Scenes
  <1>8. /\ ObjectUnknown \in Scenes /\ ObjectUnknown.object = "UNKNOWN"
        /\ ObjectUnknown.revision = n
        /\ ObjectUnknown.source = scene.source /\ ObjectUnknown.release = scene.release
    BY <1>1, <1>5 DEF Scenes
  <1>9. QED
    BY <1>6, <1>7, <1>8 DEF n

LEMMA ConsumedFacts ==
  ASSUME scene \in Scenes, NEW t, t = [scene EXCEPT !.revision = @ + 1, !.source = "CONSUMED"]
  PROVE  /\ t \in Scenes /\ t.revision = scene.revision + 1 /\ t.source = "CONSUMED"
         /\ t.object = scene.object /\ t.writer = scene.writer
  <1> DEFINE n == scene.revision + 1
  <1>1. n \in Nat
    BY DEF Scenes
  <1>2. t = [scene EXCEPT !.revision = n, !.source = "CONSUMED"]
    OBVIOUS
  <1> HIDE DEF n
  <1>3. t \in Scenes /\ t.revision = n /\ t.source = "CONSUMED" /\ t.object = scene.object
        /\ t.writer = scene.writer
    BY <1>1, <1>2 DEF Scenes
  <1>4. QED
    BY <1>3 DEF n

\* What a group of variables that is kept keeps.
LEMMA Frames ==
  /\ UNCHANGED disk => UNCHANGED cell /\ UNCHANGED scene /\ UNCHANGED lock
  /\ UNCHANGED transport => UNCHANGED goal /\ UNCHANGED owned /\ UNCHANGED fenced
  /\ UNCHANGED thread => UNCHANGED pc /\ UNCHANGED ret /\ UNCHANGED pending
  /\ UNCHANGED clocks => UNCHANGED lapsed /\ UNCHANGED overdue
  /\ UNCHANGED run => /\ UNCHANGED state /\ UNCHANGED step /\ UNCHANGED active
                      /\ UNCHANGED dispatched /\ UNCHANGED confirmed /\ UNCHANGED grasp
                      /\ UNCHANGED semantic /\ UNCHANGED release /\ UNCHANGED stage
                      /\ UNCHANGED bound
  BY DEF disk, transport, thread, clocks, run

-----------------------------------------------------------------------------
(* The initial states *)

LEMMA InitInv == Init => Inv
  <1> SUFFICES ASSUME Init PROVE Inv
    OBVIOUS
  <1>1. cell \in Cells /\ scene \in Scenes
    BY PlansAssumption DEF Init, Fresh, Cells, Scenes, PlanShapes
  <1>2. report \in Reports
    BY DEF Init, Fresh, Reports, NoReport
  <1>3. RecordsTyped
    BY <1>1, <1>2 DEF Init, Fresh, RecordsTyped
  <1>4. NumbersTyped
    BY MaxEditsAssumption DEF Init, Fresh, NumbersTyped
  <1>5. PlacesTyped /\ StatesTyped /\ VerdictsTyped
    BY DEF Init, Fresh, PlacesTyped, Steps, Returns, StatesTyped, States, Goals, VerdictsTyped, Verdicts
  <1>6. FlagsTyped
    BY DEF Init, Fresh, FlagsTyped
  <1>7. TypeOK
    BY <1>3, <1>4, <1>5, <1>6, PhaseFacts
       DEF TypeOK, RecordsTyped, NumbersTyped, PlacesTyped, StatesTyped, VerdictsTyped,
           FlagsTyped, Cells, Scenes, Reports
  <1>8. QED
    BY <1>7, PhaseFacts
       DEF Init, Fresh, Inv, Placed, Armed, Owned, AtRest, Believed, InPhase, Judged, Durable,
           SceneTold, Vacated, Alive, Gone, ACTIVE_STATES, Holds, Unresolved, Done, Final,
           Faulting, BoundaryStep, NoReport

-----------------------------------------------------------------------------
(* Every step keeps the types *)

Commands == ReadCommand \/ QuietTick \/ Return \/ EndOfInput
World    == Send \/ CoordinatorExits \/ Kill \/ LeaseLapses \/ HoldOverdue \/ Robot
            \/ HumanUpdatesScene \/ AcknowledgeReady

LEMMA RecordsKept == Inv /\ Next => RecordsTyped'
  <1> SUFFICES ASSUME Inv, Next PROVE RecordsTyped'
    OBVIOUS
  <1>0. Typed
    BY TypeParts DEF Inv
  <1> USE <1>0, Frames DEF Typed, RecordsTyped
  <1>1. CASE FaultStep
    BY <1>1, CellWrites, Reporting, SceneWrites
       DEF FaultStep, FaultCancel, Goto, FaultCell, FaultScene, ExpectedScene, SlotUsable
  <1>2. CASE TickStep
    BY <1>2, CellWrites, Reporting, SceneWrites
       DEF TickStep, TickIdle, Goto, TickDeadline, Fault, Blocks, PollFails, PollContinues,
           Polled, HasContinuation, StepDone, PauseAfter, GripperRejected, VerifiesGripper
  <1>3. CASE StartStep
    BY <1>3, CellWrites, Reporting, SceneWrites
       DEF StartStep, StartFinishes, Goto, Starting, StartHolds, StartDispatches,
           StartFails, Fault, Blocks
  <1>4. CASE DispatchStep
    BY <1>4, CellWrites, Reporting, SceneWrites
       DEF DispatchStep, SendGoal, Goto, SendFails, Fault, Blocks, GoalAccepted,
           GoalRejected, GoalUnanswered
  <1>5. CASE ServeStep
    BY <1>5, CellWrites, Reporting, SceneWrites
       DEF ServeStep, Reject, Serving, Acknowledge, Respond, Approve, Heartbeat,
           CommandFaults, Confirm, Resume, GraspVerdict, SemanticVerdict, ReleaseVerdict,
           ReleaseScene, Goto, ExpectedScene, SlotUsable, ReleaseSceneFails, BlockRelease
  <1>6. CASE ExecuteStep
    <2>1. CASE ConsumeSource
      BY <2>1, ConsumedFacts DEF ConsumeSource, Goto, ExpectedScene
    <2>2. CASE Execute \/ LockScene \/ Arm \/ ArmFails
      BY <2>2, CellWrites, Reporting, SceneWrites
         DEF Execute, Serving, LockScene, Goto, ExpectedScene, Arm, ArmFails
    <2> QED
      BY <1>6, <2>1, <2>2 DEF ExecuteStep
  <1>7. CASE Commands
    BY <1>7, CellWrites, Reporting, SceneWrites
       DEF Commands, ReadCommand, Tick, QuietTick, Return, EndOfInput
  <1>8. CASE World
    <2>1. CASE HumanUpdatesScene
      <3>1. PICK object \in {"ON_SURFACE", "UNKNOWN"} :
              scene' = [revision |-> scene.revision + 1, object |-> object,
                        source |-> "NONE", release |-> "NONE", writer |-> "HUMAN"]
        BY <2>1 DEF HumanUpdatesScene
      <3>2. scene' \in Scenes
        BY <3>1 DEF Scenes
      <3>3. QED
        BY <2>1, <3>2 DEF HumanUpdatesScene
    <2>2. CASE ~(HumanUpdatesScene)
      BY <1>8, <2>2, CellWrites, Reporting, SceneWrites
         DEF World, Send, CoordinatorExits, Kill, Forget, LeaseLapses, HoldOverdue, Robot,
             AcknowledgeReady
    <2> QED
      BY <1>8, <2>1, <2>2 DEF World
  <1>9. QED
    BY <1>1, <1>2, <1>3, <1>4, <1>5, <1>6, <1>7, <1>8 DEF Next, ThreadStep, Commands, World

LEMMA NumbersKept == Inv /\ Next => NumbersTyped'
  <1> SUFFICES ASSUME Inv, Next PROVE NumbersTyped'
    OBVIOUS
  <1>0. Typed
    BY TypeParts DEF Inv
  <1> USE <1>0, Frames DEF Typed, NumbersTyped
  <1>1. CASE FaultStep
    BY <1>1 DEF FaultStep, FaultCancel, Goto, FaultCell, FaultScene, ExpectedScene, SlotUsable
  <1>2. CASE TickStep
    <2>1. CASE StepDone
      BY <2>1, PhaseFacts
         DEF StepDone, Goto, Polled, HasContinuation, PauseAfter, Inv, InPhase, Alive,
             Gone, Done
    <2>2. CASE TickIdle \/ TickDeadline \/ PollFails \/ PollContinues \/ GripperRejected
      BY <2>2
         DEF TickIdle, Goto, TickDeadline, Fault, Blocks, PollFails, PollContinues, Polled,
             HasContinuation, GripperRejected, VerifiesGripper
    <2> QED
      BY <1>2, <2>1, <2>2 DEF TickStep
  <1>3. CASE StartStep
    BY <1>3
       DEF StartStep, StartFinishes, Goto, Starting, StartHolds, StartDispatches,
           StartFails, Fault, Blocks
  <1>4. CASE DispatchStep
    BY <1>4
       DEF DispatchStep, SendGoal, Goto, SendFails, Fault, Blocks, GoalAccepted,
           GoalRejected, GoalUnanswered
  <1>5. CASE ServeStep
    BY <1>5
       DEF ServeStep, Reject, Serving, Acknowledge, Respond, Approve, Heartbeat,
           CommandFaults, Confirm, Resume, GraspVerdict, SemanticVerdict, ReleaseVerdict,
           ReleaseScene, Goto, ExpectedScene, SlotUsable, ReleaseSceneFails, BlockRelease
  <1>6. CASE ExecuteStep
    BY <1>6
       DEF ExecuteStep, Execute, Serving, ConsumeSource, Goto, ExpectedScene, LockScene,
           Arm, ArmFails
  <1>7. CASE Commands
    BY <1>7 DEF Commands, ReadCommand, Tick, QuietTick, Return, EndOfInput
  <1>8. CASE World
    <2>1. CASE HumanUpdatesScene
      BY <2>1, MaxEditsAssumption DEF HumanUpdatesScene
    <2>2. CASE ~(HumanUpdatesScene)
      BY <1>8, <2>2
         DEF World, Send, CoordinatorExits, Kill, Forget, LeaseLapses, HoldOverdue, Robot,
             AcknowledgeReady
    <2> QED
      BY <1>8, <2>1, <2>2 DEF World
  <1>9. QED
    BY <1>1, <1>2, <1>3, <1>4, <1>5, <1>6, <1>7, <1>8 DEF Next, ThreadStep, Commands, World

LEMMA PlacesKept == Inv /\ Next => PlacesTyped'
  <1> SUFFICES ASSUME Inv, Next PROVE PlacesTyped'
    OBVIOUS
  <1>0. Typed
    BY TypeParts DEF Inv
  <1> USE <1>0, Frames DEF Typed, PlacesTyped
  <1>1. CASE FaultStep
    BY <1>1
       DEF FaultStep, FaultCancel, Goto, FaultCell, FaultScene, ExpectedScene, SlotUsable,
           Steps, Returns, Gone
  <1>2. CASE TickStep
    BY <1>2
       DEF TickStep, TickIdle, Goto, TickDeadline, Fault, Blocks, PollFails, PollContinues,
           Polled, HasContinuation, StepDone, PauseAfter, GripperRejected, VerifiesGripper,
           Steps, Returns, Gone
  <1>3. CASE StartStep
    BY <1>3
       DEF StartStep, StartFinishes, Goto, Starting, StartHolds, StartDispatches,
           StartFails, Fault, Blocks, Steps, Returns, Gone
  <1>4. CASE DispatchStep
    BY <1>4
       DEF DispatchStep, SendGoal, Goto, SendFails, Fault, Blocks, GoalAccepted,
           GoalRejected, GoalUnanswered, Steps, Returns, Gone
  <1>5. CASE ServeStep
    BY <1>5
       DEF ServeStep, Reject, Serving, Acknowledge, Respond, Approve, Heartbeat,
           CommandFaults, Confirm, Resume, GraspVerdict, SemanticVerdict, ReleaseVerdict,
           ReleaseScene, Goto, ExpectedScene, SlotUsable, ReleaseSceneFails, BlockRelease,
           Steps, Returns, Gone
  <1>6. CASE ExecuteStep
    BY <1>6
       DEF ExecuteStep, Execute, Serving, ConsumeSource, Goto, ExpectedScene, LockScene,
           Arm, ArmFails, Steps, Returns, Gone
  <1>7. CASE Commands
    BY <1>7
       DEF Commands, ReadCommand, Tick, QuietTick, Return, EndOfInput, Steps, Returns, Gone
  <1>8. CASE World
    BY <1>8
       DEF World, Send, CoordinatorExits, Kill, Forget, LeaseLapses, HoldOverdue, Robot,
           HumanUpdatesScene, AcknowledgeReady, Steps, Returns, Gone
  <1>9. QED
    BY <1>1, <1>2, <1>3, <1>4, <1>5, <1>6, <1>7, <1>8 DEF Next, ThreadStep, Commands, World

LEMMA StatesKept == Inv /\ Next => StatesTyped'
  <1> SUFFICES ASSUME Inv, Next PROVE StatesTyped'
    OBVIOUS
  <1>0. Typed
    BY TypeParts DEF Inv
  <1> USE <1>0, Frames DEF Typed, StatesTyped
  <1>1. CASE FaultStep
    BY <1>1
       DEF FaultStep, FaultCancel, Goto, FaultCell, FaultScene, ExpectedScene, SlotUsable,
           States, Goals, ACTIVE_STATES, Holds, Final
  <1>2. CASE TickStep
    BY <1>2
       DEF TickStep, TickIdle, Goto, TickDeadline, Fault, Blocks, PollFails, PollContinues,
           Polled, HasContinuation, StepDone, PauseAfter, GripperRejected, VerifiesGripper,
           States, Goals, ACTIVE_STATES, Holds, Final
  <1>3. CASE StartStep
    BY <1>3
       DEF StartStep, StartFinishes, Goto, Starting, StartHolds, StartDispatches,
           StartFails, Fault, Blocks, States, Goals, ACTIVE_STATES, Holds, Final
  <1>4. CASE DispatchStep
    BY <1>4
       DEF DispatchStep, SendGoal, Goto, SendFails, Fault, Blocks, GoalAccepted,
           GoalRejected, GoalUnanswered, States, Goals, ACTIVE_STATES, Holds, Final
  <1>5. CASE ServeStep
    BY <1>5
       DEF ServeStep, Reject, Serving, Acknowledge, Respond, Approve, Heartbeat,
           CommandFaults, Confirm, Resume, GraspVerdict, SemanticVerdict, ReleaseVerdict,
           ReleaseScene, Goto, ExpectedScene, SlotUsable, ReleaseSceneFails, BlockRelease,
           States, Goals, ACTIVE_STATES, Holds, Final
  <1>6. CASE ExecuteStep
    BY <1>6
       DEF ExecuteStep, Execute, Serving, ConsumeSource, Goto, ExpectedScene, LockScene,
           Arm, ArmFails, States, Goals, ACTIVE_STATES, Holds, Final
  <1>7. CASE Commands
    BY <1>7
       DEF Commands, ReadCommand, Tick, QuietTick, Return, EndOfInput, States, Goals,
           ACTIVE_STATES, Holds, Final
  <1>8. CASE World
    BY <1>8
       DEF World, Send, CoordinatorExits, Kill, Forget, LeaseLapses, HoldOverdue, Robot,
           HumanUpdatesScene, AcknowledgeReady, States, Goals, ACTIVE_STATES, Holds, Final
  <1>9. QED
    BY <1>1, <1>2, <1>3, <1>4, <1>5, <1>6, <1>7, <1>8 DEF Next, ThreadStep, Commands, World

LEMMA VerdictsKept == Inv /\ Next => VerdictsTyped'
  <1> SUFFICES ASSUME Inv, Next PROVE VerdictsTyped'
    OBVIOUS
  <1>0. Typed
    BY TypeParts DEF Inv
  <1> USE <1>0, Frames DEF Typed, VerdictsTyped
  <1>1. CASE FaultStep
    BY <1>1
       DEF FaultStep, FaultCancel, Goto, FaultCell, FaultScene, ExpectedScene, SlotUsable,
           Verdicts
  <1>2. CASE TickStep
    BY <1>2
       DEF TickStep, TickIdle, Goto, TickDeadline, Fault, Blocks, PollFails, PollContinues,
           Polled, HasContinuation, StepDone, PauseAfter, GripperRejected, VerifiesGripper,
           Verdicts
  <1>3. CASE StartStep
    BY <1>3
       DEF StartStep, StartFinishes, Goto, Starting, StartHolds, StartDispatches,
           StartFails, Fault, Blocks, Verdicts
  <1>4. CASE DispatchStep
    BY <1>4
       DEF DispatchStep, SendGoal, Goto, SendFails, Fault, Blocks, GoalAccepted,
           GoalRejected, GoalUnanswered, Verdicts
  <1>5. CASE ServeStep
    BY <1>5
       DEF ServeStep, Reject, Serving, Acknowledge, Respond, Approve, Heartbeat,
           CommandFaults, Confirm, Resume, GraspVerdict, SemanticVerdict, ReleaseVerdict,
           ReleaseScene, Goto, ExpectedScene, SlotUsable, ReleaseSceneFails, BlockRelease,
           Verdicts
  <1>6. CASE ExecuteStep
    BY <1>6
       DEF ExecuteStep, Execute, Serving, ConsumeSource, Goto, ExpectedScene, LockScene,
           Arm, ArmFails, Verdicts
  <1>7. CASE Commands
    BY <1>7 DEF Commands, ReadCommand, Tick, QuietTick, Return, EndOfInput, Verdicts
  <1>8. CASE World
    BY <1>8
       DEF World, Send, CoordinatorExits, Kill, Forget, LeaseLapses, HoldOverdue, Robot,
           HumanUpdatesScene, AcknowledgeReady, Verdicts
  <1>9. QED
    BY <1>1, <1>2, <1>3, <1>4, <1>5, <1>6, <1>7, <1>8 DEF Next, ThreadStep, Commands, World

LEMMA FlagsKept == Inv /\ Next => FlagsTyped'
  <1> SUFFICES ASSUME Inv, Next PROVE FlagsTyped'
    OBVIOUS
  <1>0. Typed
    BY TypeParts DEF Inv
  <1> USE <1>0, Frames DEF Typed, FlagsTyped
  <1>1. CASE FaultStep
    <2>1. CASE FaultCancel
      BY <2>1 DEF FaultCancel, Goto
    <2>2. CASE FaultCell
      BY <2>2 DEF FaultCell, Goto
    <2>3. CASE FaultScene
      BY <2>3 DEF FaultScene, Goto, ExpectedScene, SlotUsable
    <2> QED
      BY <1>1, <2>1, <2>2, <2>3 DEF FaultStep
  <1>2. CASE TickStep
    <2>1. CASE TickIdle
      BY <2>1 DEF TickIdle, Goto
    <2>2. CASE TickDeadline
      BY <2>2 DEF TickDeadline, Fault, Blocks
    <2>3. CASE PollFails
      BY <2>3 DEF PollFails, Fault, Blocks
    <2>4. CASE PollContinues
      BY <2>4 DEF PollContinues, Goto, Polled, HasContinuation
    <2>5. CASE StepDone
      BY <2>5 DEF StepDone, Goto, Polled, HasContinuation, PauseAfter
    <2>6. CASE GripperRejected
      BY <2>6 DEF GripperRejected, Fault, Polled, VerifiesGripper, Blocks
    <2> QED
      BY <1>2, <2>1, <2>2, <2>3, <2>4, <2>5, <2>6 DEF TickStep
  <1>3. CASE StartStep
    <2>1. CASE StartFinishes
      BY <2>1 DEF StartFinishes, Goto, Starting
    <2>2. CASE StartHolds
      BY <2>2 DEF StartHolds, Goto, Starting
    <2>3. CASE StartDispatches
      BY <2>3 DEF StartDispatches, Goto, Starting
    <2>4. CASE StartFails
      BY <2>4 DEF StartFails, Fault, Starting, Blocks
    <2> QED
      BY <1>3, <2>1, <2>2, <2>3, <2>4 DEF StartStep
  <1>4. CASE DispatchStep
    <2>1. CASE SendGoal
      BY <2>1 DEF SendGoal, Goto
    <2>2. CASE SendFails
      BY <2>2 DEF SendFails, Fault, Blocks
    <2>3. CASE GoalAccepted
      BY <2>3 DEF GoalAccepted, Goto
    <2>4. CASE GoalRejected
      BY <2>4 DEF GoalRejected, Fault, Blocks
    <2>5. CASE GoalUnanswered
      BY <2>5 DEF GoalUnanswered, Fault, Blocks
    <2> QED
      BY <1>4, <2>1, <2>2, <2>3, <2>4, <2>5 DEF DispatchStep
  <1>5. CASE ServeStep
    <2>1. CASE Reject
      BY <2>1 DEF Reject, Serving
    <2>2. CASE Acknowledge
      BY <2>2 DEF Acknowledge, Serving, Respond
    <2>3. CASE Approve
      BY <2>3 DEF Approve, Serving, Respond
    <2>4. CASE Heartbeat
      BY <2>4 DEF Heartbeat, Serving, Respond
    <2>5. CASE CommandFaults
      BY <2>5 DEF CommandFaults, Serving
    <2>6. CASE Confirm
      BY <2>6 DEF Confirm, Serving, Resume
    <2>7. CASE GraspVerdict
      BY <2>7 DEF GraspVerdict, Serving, Resume
    <2>8. CASE SemanticVerdict
      BY <2>8 DEF SemanticVerdict, Resume
    <2>9. CASE ReleaseVerdict
      BY <2>9 DEF ReleaseVerdict, Serving
    <2>10. CASE ReleaseScene
      BY <2>10 DEF ReleaseScene, Goto, ExpectedScene, SlotUsable
    <2>11. CASE ReleaseSceneFails
      BY <2>11 DEF ReleaseSceneFails, Goto
    <2>12. CASE BlockRelease
      BY <2>12 DEF BlockRelease, Goto
    <2> QED
      BY <1>5, <2>1, <2>2, <2>3, <2>4, <2>5, <2>6, <2>7, <2>8, <2>9, <2>10, <2>11, <2>12
         DEF ServeStep
  <1>6. CASE ExecuteStep
    <2>1. CASE Execute
      BY <2>1 DEF Execute, Serving
    <2>2. CASE ConsumeSource
      BY <2>2 DEF ConsumeSource, Goto, ExpectedScene
    <2>3. CASE LockScene
      BY <2>3 DEF LockScene, Goto, ExpectedScene
    <2>4. CASE Arm
      BY <2>4 DEF Arm, Goto
    <2>5. CASE ArmFails
      BY <2>5 DEF ArmFails, Goto
    <2> QED
      BY <1>6, <2>1, <2>2, <2>3, <2>4, <2>5 DEF ExecuteStep
  <1>7. CASE Commands
    <2>1. CASE ReadCommand
      BY <2>1 DEF ReadCommand, Tick
    <2>2. CASE QuietTick
      BY <2>2 DEF QuietTick, Tick
    <2>3. CASE Return
      BY <2>3 DEF Return
    <2>4. CASE EndOfInput
      BY <2>4 DEF EndOfInput
    <2> QED
      BY <1>7, <2>1, <2>2, <2>3, <2>4 DEF Commands
  <1>8. CASE World
    <2>1. CASE Send
      BY <2>1 DEF Send
    <2>2. CASE CoordinatorExits
      BY <2>2 DEF CoordinatorExits
    <2>3. CASE Kill
      BY <2>3 DEF Kill, Forget
    <2>4. CASE LeaseLapses
      BY <2>4 DEF LeaseLapses
    <2>5. CASE HoldOverdue
      BY <2>5 DEF HoldOverdue
    <2>6. CASE Robot
      BY <2>6 DEF Robot
    <2>7. CASE HumanUpdatesScene
      BY <2>7 DEF HumanUpdatesScene
    <2>8. CASE AcknowledgeReady
      BY <2>8 DEF AcknowledgeReady
    <2> QED
      BY <1>8, <2>1, <2>2, <2>3, <2>4, <2>5, <2>6, <2>7, <2>8 DEF World
  <1>9. QED
    BY <1>1, <1>2, <1>3, <1>4, <1>5, <1>6, <1>7, <1>8 DEF Next, ThreadStep, Commands, World

LEMMA Typing == Inv /\ Next => TypeOK'
  <1>1. QED
    BY RecordsKept, NumbersKept, PlacesKept, StatesKept, VerdictsKept, FlagsKept,
    TypePartsNext

-----------------------------------------------------------------------------
(* Every action keeps the rest of the invariant *)

LEMMA SendInv == ASSUME Inv, TypeOK', Send PROVE Inv'
  BY Frames, PhaseFacts, CellWrites
     DEF Send, TypeOK, Inv, Placed, Armed, Owned, AtRest, Believed, InPhase, Judged,
         Durable, SceneTold, Vacated, Alive, Gone, ACTIVE_STATES, Holds, Unresolved, Done,
         Final, Faulting, BoundaryStep, NeedsConfirmation

LEMMA CoordinatorExitsInv == ASSUME Inv, TypeOK', CoordinatorExits PROVE Inv'
  BY Frames, PhaseFacts, CellWrites
     DEF CoordinatorExits, TypeOK, Inv, Placed, Armed, Owned, AtRest, Believed, InPhase,
         Judged, Durable, SceneTold, Vacated, Alive, Gone, ACTIVE_STATES, Holds, Unresolved,
         Done, Final, Faulting, BoundaryStep, NeedsConfirmation

LEMMA KillInv == ASSUME Inv, TypeOK', Kill PROVE Inv'
  BY Frames, PhaseFacts, CellWrites, Reporting
     DEF Kill, Forget, TypeOK, Inv, Placed, Armed, Owned, AtRest, Believed, InPhase,
         Judged, Durable, SceneTold, Vacated, Alive, Gone, ACTIVE_STATES, Holds, Unresolved,
         Done, Final, Faulting, BoundaryStep, NeedsConfirmation, Reports

LEMMA LeaseLapsesInv == ASSUME Inv, TypeOK', LeaseLapses PROVE Inv'
  BY Frames, PhaseFacts, CellWrites
     DEF LeaseLapses, TypeOK, Inv, Placed, Armed, Owned, AtRest, Believed, InPhase, Judged,
         Durable, SceneTold, Vacated, Alive, Gone, ACTIVE_STATES, Holds, Unresolved, Done,
         Final, Faulting, BoundaryStep, NeedsConfirmation

LEMMA HoldOverdueInv == ASSUME Inv, TypeOK', HoldOverdue PROVE Inv'
  BY Frames, PhaseFacts, CellWrites
     DEF HoldOverdue, TypeOK, Inv, Placed, Armed, Owned, AtRest, Believed, InPhase, Judged,
         Durable, SceneTold, Vacated, Alive, Gone, ACTIVE_STATES, Holds, Unresolved, Done,
         Final, Faulting, BoundaryStep, NeedsConfirmation

LEMMA FaultCancelInv == ASSUME Inv, TypeOK', FaultCancel PROVE Inv'
  BY Frames, PhaseFacts, CellWrites
     DEF FaultCancel, Goto, TypeOK, Inv, Placed, Armed, Owned, AtRest, Believed, InPhase,
         Judged, Durable, SceneTold, Vacated, Alive, Gone, ACTIVE_STATES, Holds, Unresolved,
         Done, Final, Faulting, BoundaryStep, NeedsConfirmation

LEMMA FaultCellInv == ASSUME Inv, TypeOK', FaultCell PROVE Inv'
  BY Frames, PhaseFacts, CellWrites
     DEF FaultCell, Goto, TypeOK, Inv, Placed, Armed, Owned, AtRest, Believed, InPhase,
         Judged, Durable, SceneTold, Vacated, Alive, Gone, ACTIVE_STATES, Holds, Unresolved,
         Done, Final, Faulting, BoundaryStep, NeedsConfirmation

LEMMA FaultSceneInv ==
  ASSUME Inv, TypeOK', FaultScene
  PROVE  Inv'
  <1> USE Frames DEF FaultScene, Goto
  <1>1. scene \in Scenes /\ scene.revision \in Nat /\ bound \in Nat
    BY TypeParts DEF Inv, Typed, RecordsTyped, NumbersTyped, Scenes
  <1>2. pc = "fault.scene" /\ pc' = "return" /\ state = "BLOCKED" /\ state' = state
    BY DEF Inv, Placed
  <1>3. report \in Reports
    BY TypeParts DEF Inv, Typed, RecordsTyped
  <1>4. \/ ~dispatched /\ UNCHANGED scene
        \/ /\ scene.revision = bound /\ scene'.object = "UNKNOWN"
           /\ scene'.revision = scene.revision + 1
        \/ report'.sceneError /\ UNCHANGED scene
    BY <1>1, <1>3, SceneWrites DEF ExpectedScene, Reports
  <1>5. SceneTold'
    BY <1>1, <1>2, <1>4 DEF Inv, SceneTold, Alive, Gone, Final, Faulting
  <1>6. Vacated'
    BY <1>1, SceneWrites DEF Inv, Vacated, SlotUsable
  <1>7. Placed' /\ Armed' /\ Owned' /\ AtRest'
    BY <1>2 DEF Inv, Placed, Armed, Owned, AtRest, Alive, Gone, ACTIVE_STATES, Holds
  <1>8. Believed' /\ InPhase' /\ Judged' /\ Durable'
    BY <1>2 DEF Inv, Believed, InPhase, Judged, Durable, Alive, Gone, Done, BoundaryStep,
                TypeOK
  <1>9. QED
    BY <1>5, <1>6, <1>7, <1>8 DEF Inv

LEMMA TickIdleInv == ASSUME Inv, TypeOK', TickIdle PROVE Inv'
  BY Frames, PhaseFacts, CellWrites
     DEF TickIdle, Goto, TypeOK, Inv, Placed, Armed, Owned, AtRest, Believed, InPhase,
         Judged, Durable, SceneTold, Vacated, Alive, Gone, ACTIVE_STATES, Holds, Unresolved,
         Done, Final, Faulting, BoundaryStep, NeedsConfirmation

LEMMA TickDeadlineInv == ASSUME Inv, TypeOK', TickDeadline PROVE Inv'
  BY Frames, PhaseFacts, CellWrites
     DEF TickDeadline, Fault, Blocks, TypeOK, Inv, Placed, Armed, Owned, AtRest, Believed,
         InPhase, Judged, Durable, SceneTold, Vacated, Alive, Gone, ACTIVE_STATES, Holds,
         Unresolved, Done, Final, Faulting, BoundaryStep, NeedsConfirmation

LEMMA PollFailsInv == ASSUME Inv, TypeOK', PollFails PROVE Inv'
  BY Frames, PhaseFacts, CellWrites
     DEF PollFails, Fault, Blocks, TypeOK, Inv, Placed, Armed, Owned, AtRest, Believed,
         InPhase, Judged, Durable, SceneTold, Vacated, Alive, Gone, ACTIVE_STATES, Holds,
         Unresolved, Done, Final, Faulting, BoundaryStep, NeedsConfirmation

LEMMA PollContinuesInv == ASSUME Inv, TypeOK', PollContinues PROVE Inv'
  BY Frames, PhaseFacts, CellWrites
     DEF PollContinues, Goto, Polled, HasContinuation, TypeOK, Inv, Placed, Armed, Owned,
         AtRest, Believed, InPhase, Judged, Durable, SceneTold, Vacated, Alive, Gone,
         ACTIVE_STATES, Holds, Unresolved, Done, Final, Faulting, BoundaryStep,
         NeedsConfirmation

LEMMA StepDoneInv ==
  ASSUME Inv, TypeOK', StepDone
  PROVE  Inv'
  <1> USE Frames DEF StepDone, Goto, Polled
  <1>1. step \in 1..10 /\ step' = step + 1
    BY PhaseFacts DEF Inv, TypeOK, InPhase, Alive, Gone, Done
  <1>2. /\ PHASES[step] = "GRIPPER_CLOSE" <=> step = 4
        /\ PHASES[step] = "LIFT_LIN" <=> step = 5
        /\ PHASES[step] = "RETREAT_LIN" <=> step = 9
    BY <1>1, PhaseFacts
  <1>3. plan.boundary \in {"LIFT_LIN", "RETREAT_LIN"}
    BY PlansAssumption DEF Inv, TypeOK, PlanShapes
  <1>4. state' \in {"EXECUTING", "GRASP_VERDICT", "SEMANTIC_VERDICT"}
    BY DEF PauseAfter
  <1>5. Judged'
    BY <1>1, <1>2, <1>3, <1>4, PhaseFacts DEF Inv, Judged, PauseAfter, BoundaryStep, Done
  <1>6. Placed' /\ Armed' /\ Owned' /\ AtRest'
    BY <1>4 DEF Inv, Placed, Armed, Owned, AtRest, Alive, Gone, ACTIVE_STATES, Holds, Unresolved
  <1>7. Believed' /\ InPhase' /\ Durable' /\ SceneTold' /\ Vacated'
    BY <1>4 DEF Inv, Believed, InPhase, Durable, SceneTold, Vacated, Alive, Gone, Final, Faulting
  <1>8. QED
    BY <1>5, <1>6, <1>7 DEF Inv

LEMMA GripperRejectedInv == ASSUME Inv, TypeOK', GripperRejected PROVE Inv'
  BY Frames, PhaseFacts, CellWrites
     DEF GripperRejected, Fault, Polled, VerifiesGripper, Blocks, TypeOK, Inv, Placed,
         Armed, Owned, AtRest, Believed, InPhase, Judged, Durable, SceneTold, Vacated, Alive,
         Gone, ACTIVE_STATES, Holds, Unresolved, Done, Final, Faulting, BoundaryStep,
         NeedsConfirmation

LEMMA StartFinishesInv == ASSUME Inv, TypeOK', StartFinishes PROVE Inv'
  BY Frames, PhaseFacts, CellWrites
     DEF StartFinishes, Goto, Starting, TypeOK, Inv, Placed, Armed, Owned, AtRest,
         Believed, InPhase, Judged, Durable, SceneTold, Vacated, Alive, Gone, ACTIVE_STATES,
         Holds, Unresolved, Done, Final, Faulting, BoundaryStep, NeedsConfirmation

LEMMA StartHoldsInv == ASSUME Inv, TypeOK', StartHolds PROVE Inv'
  BY Frames, PhaseFacts, CellWrites
     DEF StartHolds, Goto, Starting, TypeOK, Inv, Placed, Armed, Owned, AtRest, Believed,
         InPhase, Judged, Durable, SceneTold, Vacated, Alive, Gone, ACTIVE_STATES, Holds,
         Unresolved, Done, Final, Faulting, BoundaryStep, NeedsConfirmation

LEMMA StartDispatchesInv == ASSUME Inv, TypeOK', StartDispatches PROVE Inv'
  BY Frames, PhaseFacts, CellWrites
     DEF StartDispatches, Goto, Starting, TypeOK, Inv, Placed, Armed, Owned, AtRest,
         Believed, InPhase, Judged, Durable, SceneTold, Vacated, Alive, Gone, ACTIVE_STATES,
         Holds, Unresolved, Done, Final, Faulting, BoundaryStep, NeedsConfirmation

LEMMA StartFailsInv == ASSUME Inv, TypeOK', StartFails PROVE Inv'
  BY Frames, PhaseFacts, CellWrites
     DEF StartFails, Fault, Starting, Blocks, TypeOK, Inv, Placed, Armed, Owned, AtRest,
         Believed, InPhase, Judged, Durable, SceneTold, Vacated, Alive, Gone, ACTIVE_STATES,
         Holds, Unresolved, Done, Final, Faulting, BoundaryStep, NeedsConfirmation

LEMMA SendGoalInv == ASSUME Inv, TypeOK', SendGoal PROVE Inv'
  BY Frames, PhaseFacts, CellWrites
     DEF SendGoal, Goto, TypeOK, Inv, Placed, Armed, Owned, AtRest, Believed, InPhase,
         Judged, Durable, SceneTold, Vacated, Alive, Gone, ACTIVE_STATES, Holds, Unresolved,
         Done, Final, Faulting, BoundaryStep, NeedsConfirmation

LEMMA SendFailsInv == ASSUME Inv, TypeOK', SendFails PROVE Inv'
  BY Frames, PhaseFacts, CellWrites
     DEF SendFails, Fault, Blocks, TypeOK, Inv, Placed, Armed, Owned, AtRest, Believed,
         InPhase, Judged, Durable, SceneTold, Vacated, Alive, Gone, ACTIVE_STATES, Holds,
         Unresolved, Done, Final, Faulting, BoundaryStep, NeedsConfirmation

LEMMA GoalAcceptedInv == ASSUME Inv, TypeOK', GoalAccepted PROVE Inv'
  BY Frames, PhaseFacts, CellWrites
     DEF GoalAccepted, Goto, TypeOK, Inv, Placed, Armed, Owned, AtRest, Believed, InPhase,
         Judged, Durable, SceneTold, Vacated, Alive, Gone, ACTIVE_STATES, Holds, Unresolved,
         Done, Final, Faulting, BoundaryStep, NeedsConfirmation

LEMMA GoalRejectedInv == ASSUME Inv, TypeOK', GoalRejected PROVE Inv'
  BY Frames, PhaseFacts, CellWrites
     DEF GoalRejected, Fault, Blocks, TypeOK, Inv, Placed, Armed, Owned, AtRest, Believed,
         InPhase, Judged, Durable, SceneTold, Vacated, Alive, Gone, ACTIVE_STATES, Holds,
         Unresolved, Done, Final, Faulting, BoundaryStep, NeedsConfirmation

LEMMA GoalUnansweredInv == ASSUME Inv, TypeOK', GoalUnanswered PROVE Inv'
  BY Frames, PhaseFacts, CellWrites
     DEF GoalUnanswered, Fault, Blocks, TypeOK, Inv, Placed, Armed, Owned, AtRest,
         Believed, InPhase, Judged, Durable, SceneTold, Vacated, Alive, Gone, ACTIVE_STATES,
         Holds, Unresolved, Done, Final, Faulting, BoundaryStep, NeedsConfirmation

LEMMA RejectInv == ASSUME Inv, TypeOK', Reject PROVE Inv'
  BY Frames, PhaseFacts, CellWrites
     DEF Reject, Serving, TypeOK, Inv, Placed, Armed, Owned, AtRest, Believed, InPhase,
         Judged, Durable, SceneTold, Vacated, Alive, Gone, ACTIVE_STATES, Holds, Unresolved,
         Done, Final, Faulting, BoundaryStep, NeedsConfirmation

LEMMA AcknowledgeInv == ASSUME Inv, TypeOK', Acknowledge PROVE Inv'
  BY Frames, PhaseFacts, CellWrites
     DEF Acknowledge, Serving, Respond, TypeOK, Inv, Placed, Armed, Owned, AtRest,
         Believed, InPhase, Judged, Durable, SceneTold, Vacated, Alive, Gone, ACTIVE_STATES,
         Holds, Unresolved, Done, Final, Faulting, BoundaryStep, NeedsConfirmation

LEMMA ApproveInv == ASSUME Inv, TypeOK', Approve PROVE Inv'
  BY Frames, PhaseFacts, CellWrites
     DEF Approve, Serving, Respond, TypeOK, Inv, Placed, Armed, Owned, AtRest, Believed,
         InPhase, Judged, Durable, SceneTold, Vacated, Alive, Gone, ACTIVE_STATES, Holds,
         Unresolved, Done, Final, Faulting, BoundaryStep, NeedsConfirmation

LEMMA HeartbeatInv == ASSUME Inv, TypeOK', Heartbeat PROVE Inv'
  BY Frames, PhaseFacts, CellWrites
     DEF Heartbeat, Serving, Respond, TypeOK, Inv, Placed, Armed, Owned, AtRest, Believed,
         InPhase, Judged, Durable, SceneTold, Vacated, Alive, Gone, ACTIVE_STATES, Holds,
         Unresolved, Done, Final, Faulting, BoundaryStep, NeedsConfirmation

LEMMA CommandFaultsInv == ASSUME Inv, TypeOK', CommandFaults PROVE Inv'
  BY Frames, PhaseFacts, CellWrites
     DEF CommandFaults, Serving, TypeOK, Inv, Placed, Armed, Owned, AtRest, Believed,
         InPhase, Judged, Durable, SceneTold, Vacated, Alive, Gone, ACTIVE_STATES, Holds,
         Unresolved, Done, Final, Faulting, BoundaryStep, NeedsConfirmation

LEMMA ConfirmInv == ASSUME Inv, TypeOK', Confirm PROVE Inv'
  BY Frames, PhaseFacts, CellWrites
     DEF Confirm, Serving, Resume, TypeOK, Inv, Placed, Armed, Owned, AtRest, Believed,
         InPhase, Judged, Durable, SceneTold, Vacated, Alive, Gone, ACTIVE_STATES, Holds,
         Unresolved, Done, Final, Faulting, BoundaryStep, NeedsConfirmation

LEMMA GraspVerdictInv == ASSUME Inv, TypeOK', GraspVerdict PROVE Inv'
  BY Frames, PhaseFacts, CellWrites
     DEF GraspVerdict, Serving, Resume, TypeOK, Inv, Placed, Armed, Owned, AtRest,
         Believed, InPhase, Judged, Durable, SceneTold, Vacated, Alive, Gone, ACTIVE_STATES,
         Holds, Unresolved, Done, Final, Faulting, BoundaryStep, NeedsConfirmation

LEMMA SemanticVerdictInv == ASSUME Inv, TypeOK', SemanticVerdict PROVE Inv'
  BY Frames, PhaseFacts, CellWrites
     DEF SemanticVerdict, Resume, TypeOK, Inv, Placed, Armed, Owned, AtRest, Believed,
         InPhase, Judged, Durable, SceneTold, Vacated, Alive, Gone, ACTIVE_STATES, Holds,
         Unresolved, Done, Final, Faulting, BoundaryStep, NeedsConfirmation

LEMMA ReleaseVerdictInv == ASSUME Inv, TypeOK', ReleaseVerdict PROVE Inv'
  BY Frames, PhaseFacts, CellWrites
     DEF ReleaseVerdict, Serving, TypeOK, Inv, Placed, Armed, Owned, AtRest, Believed,
         InPhase, Judged, Durable, SceneTold, Vacated, Alive, Gone, ACTIVE_STATES, Holds,
         Unresolved, Done, Final, Faulting, BoundaryStep, NeedsConfirmation, ReleaseVerdicts

LEMMA ReleaseSceneInv ==
  ASSUME Inv, TypeOK', ReleaseScene
  PROVE  Inv'
  <1> USE Frames DEF ReleaseScene, Goto
  <1>1. scene \in Scenes /\ scene.revision \in Nat /\ bound \in Nat
    BY TypeParts DEF Inv, Typed, RecordsTyped, NumbersTyped, Scenes
  <1>2. pc = "release" /\ state = "RELEASE_VERDICT"
    BY DEF Inv, Placed
  <1>3. \/ scene' = Landing /\ pc' = "return" /\ state' = "COMPLETED"
        \/ scene' = Quarantine /\ pc' = "release.cell" /\ state' = state
    OBVIOUS
  <1>4. SceneTold'
    BY <1>1, <1>2, <1>3, SceneWrites
       DEF Inv, SceneTold, Alive, Gone, Final, Faulting, ExpectedScene
  <1>5. Vacated'
    BY <1>1, <1>3, SceneWrites DEF Inv, Vacated, SlotUsable
  <1>6. Placed' /\ Armed' /\ Owned' /\ AtRest'
    BY <1>2, <1>3 DEF Inv, Placed, Armed, Owned, AtRest, Alive, Gone, ACTIVE_STATES, Holds
  <1>7. Believed' /\ InPhase' /\ Judged' /\ Durable'
    BY <1>2, <1>3 DEF Inv, Believed, InPhase, Judged, Durable, Alive, Gone, Done, BoundaryStep,
                      TypeOK
  <1>8. QED
    BY <1>4, <1>5, <1>6, <1>7 DEF Inv

LEMMA ReleaseSceneFailsInv == ASSUME Inv, TypeOK', ReleaseSceneFails PROVE Inv'
  BY Frames, PhaseFacts, CellWrites
     DEF ReleaseSceneFails, Goto, TypeOK, Inv, Placed, Armed, Owned, AtRest, Believed,
         InPhase, Judged, Durable, SceneTold, Vacated, Alive, Gone, ACTIVE_STATES, Holds,
         Unresolved, Done, Final, Faulting, BoundaryStep, NeedsConfirmation

LEMMA BlockReleaseInv == ASSUME Inv, TypeOK', BlockRelease PROVE Inv'
  BY Frames, PhaseFacts, CellWrites
     DEF BlockRelease, Goto, TypeOK, Inv, Placed, Armed, Owned, AtRest, Believed, InPhase,
         Judged, Durable, SceneTold, Vacated, Alive, Gone, ACTIVE_STATES, Holds, Unresolved,
         Done, Final, Faulting, BoundaryStep, NeedsConfirmation

LEMMA ExecuteInv == ASSUME Inv, TypeOK', Execute PROVE Inv'
  BY Frames, PhaseFacts, CellWrites
     DEF Execute, Serving, TypeOK, Inv, Placed, Armed, Owned, AtRest, Believed, InPhase,
         Judged, Durable, SceneTold, Vacated, Alive, Gone, ACTIVE_STATES, Holds, Unresolved,
         Done, Final, Faulting, BoundaryStep, NeedsConfirmation

LEMMA ConsumeSourceInv ==
  ASSUME Inv, TypeOK', ConsumeSource
  PROVE  Inv'
  <1> USE Frames DEF ConsumeSource, Goto
  <1>1. scene \in Scenes /\ scene.revision \in Nat /\ bound \in Nat
    BY TypeParts DEF Inv, Typed, RecordsTyped, NumbersTyped, Scenes
  <1>2. pc = "consume" /\ pc' \in {"lock", "return"} /\ state = "APPROVED" /\ state' = state
    BY DEF Inv, Placed
  <1>3. SceneTold'
    BY <1>1, <1>2, ConsumedFacts
       DEF Inv, SceneTold, Alive, Gone, Final, Faulting, ExpectedScene
  <1>4. Vacated'
    BY <1>1, ConsumedFacts DEF Inv, Vacated
  <1>5. Placed' /\ Armed' /\ Owned' /\ AtRest'
    BY <1>2 DEF Inv, Placed, Armed, Owned, AtRest, Alive, Gone, ACTIVE_STATES, Holds
  <1>6. Believed' /\ InPhase' /\ Judged' /\ Durable'
    BY <1>2 DEF Inv, Believed, InPhase, Judged, Durable, Alive, Gone, Done, BoundaryStep,
                TypeOK
  <1>7. QED
    BY <1>3, <1>4, <1>5, <1>6 DEF Inv

LEMMA LockSceneInv == ASSUME Inv, TypeOK', LockScene PROVE Inv'
  BY Frames, PhaseFacts, CellWrites
     DEF LockScene, Goto, ExpectedScene, TypeOK, Inv, Placed, Armed, Owned, AtRest,
         Believed, InPhase, Judged, Durable, SceneTold, Vacated, Alive, Gone, ACTIVE_STATES,
         Holds, Unresolved, Done, Final, Faulting, BoundaryStep, NeedsConfirmation

LEMMA ArmInv == ASSUME Inv, TypeOK', Arm PROVE Inv'
  BY Frames, PhaseFacts, CellWrites
     DEF Arm, Goto, TypeOK, Inv, Placed, Armed, Owned, AtRest, Believed, InPhase, Judged,
         Durable, SceneTold, Vacated, Alive, Gone, ACTIVE_STATES, Holds, Unresolved, Done,
         Final, Faulting, BoundaryStep, NeedsConfirmation

LEMMA ArmFailsInv == ASSUME Inv, TypeOK', ArmFails PROVE Inv'
  BY Frames, PhaseFacts, CellWrites
     DEF ArmFails, Goto, TypeOK, Inv, Placed, Armed, Owned, AtRest, Believed, InPhase,
         Judged, Durable, SceneTold, Vacated, Alive, Gone, ACTIVE_STATES, Holds, Unresolved,
         Done, Final, Faulting, BoundaryStep, NeedsConfirmation

LEMMA ReadCommandInv == ASSUME Inv, TypeOK', ReadCommand PROVE Inv'
  BY Frames, PhaseFacts, CellWrites
     DEF ReadCommand, Tick, TypeOK, Inv, Placed, Armed, Owned, AtRest, Believed, InPhase,
         Judged, Durable, SceneTold, Vacated, Alive, Gone, ACTIVE_STATES, Holds, Unresolved,
         Done, Final, Faulting, BoundaryStep, NeedsConfirmation

LEMMA QuietTickInv == ASSUME Inv, TypeOK', QuietTick PROVE Inv'
  BY Frames, PhaseFacts, CellWrites
     DEF QuietTick, Tick, TypeOK, Inv, Placed, Armed, Owned, AtRest, Believed, InPhase,
         Judged, Durable, SceneTold, Vacated, Alive, Gone, ACTIVE_STATES, Holds, Unresolved,
         Done, Final, Faulting, BoundaryStep, NeedsConfirmation

LEMMA ReturnInv == ASSUME Inv, TypeOK', Return PROVE Inv'
  BY Frames, PhaseFacts, CellWrites
     DEF Return, TypeOK, Inv, Placed, Armed, Owned, AtRest, Believed, InPhase, Judged,
         Durable, SceneTold, Vacated, Alive, Gone, ACTIVE_STATES, Holds, Unresolved, Done,
         Final, Faulting, BoundaryStep, NeedsConfirmation

LEMMA EndOfInputInv == ASSUME Inv, TypeOK', EndOfInput PROVE Inv'
  BY Frames, PhaseFacts, CellWrites
     DEF EndOfInput, TypeOK, Inv, Placed, Armed, Owned, AtRest, Believed, InPhase, Judged,
         Durable, SceneTold, Vacated, Alive, Gone, ACTIVE_STATES, Holds, Unresolved, Done,
         Final, Faulting, BoundaryStep, NeedsConfirmation

LEMMA RobotInv == ASSUME Inv, TypeOK', Robot PROVE Inv'
  BY Frames, PhaseFacts, CellWrites
     DEF Robot, TypeOK, Inv, Placed, Armed, Owned, AtRest, Believed, InPhase, Judged,
         Durable, SceneTold, Vacated, Alive, Gone, ACTIVE_STATES, Holds, Unresolved, Done,
         Final, Faulting, BoundaryStep, NeedsConfirmation

LEMMA HumanUpdatesSceneInv == ASSUME Inv, TypeOK', HumanUpdatesScene PROVE Inv'
  BY Frames, PhaseFacts, CellWrites
     DEF HumanUpdatesScene, TypeOK, Inv, Placed, Armed, Owned, AtRest, Believed, InPhase,
         Judged, Durable, SceneTold, Vacated, Alive, Gone, ACTIVE_STATES, Holds, Unresolved,
         Done, Final, Faulting, BoundaryStep, NeedsConfirmation

LEMMA AcknowledgeReadyInv == ASSUME Inv, TypeOK', AcknowledgeReady PROVE Inv'
  BY Frames, PhaseFacts, CellWrites
     DEF AcknowledgeReady, TypeOK, Inv, Placed, Armed, Owned, AtRest, Believed, InPhase,
         Judged, Durable, SceneTold, Vacated, Alive, Gone, ACTIVE_STATES, Holds, Unresolved,
         Done, Final, Faulting, BoundaryStep, NeedsConfirmation

-----------------------------------------------------------------------------
(* The invariant *)

LEMMA NextInv == Inv /\ [Next]_vars => Inv'
  <1>1. ASSUME Inv, UNCHANGED vars PROVE Inv'
    BY <1>1 DEF vars, Inv, TypeOK, Placed, Armed, Owned, AtRest, Believed, InPhase, Judged,
           Durable, SceneTold, Vacated, Alive, Done, Faulting, BoundaryStep, NeedsConfirmation
  <1>2. SUFFICES ASSUME Inv, Next PROVE Inv'
    BY <1>1
  <1>3. TypeOK'
    BY <1>2, Typing
  <1>4. CASE FaultStep
    BY <1>2, <1>3, <1>4, FaultCancelInv, FaultCellInv, FaultSceneInv DEF FaultStep
  <1>5. CASE TickStep
    BY <1>2, <1>3, <1>5, TickIdleInv, TickDeadlineInv, PollFailsInv, PollContinuesInv,
       StepDoneInv, GripperRejectedInv DEF TickStep
  <1>6. CASE StartStep
    BY <1>2, <1>3, <1>6, StartFinishesInv, StartHoldsInv, StartDispatchesInv, StartFailsInv
       DEF StartStep
  <1>7. CASE DispatchStep
    BY <1>2, <1>3, <1>7, SendGoalInv, SendFailsInv, GoalAcceptedInv, GoalRejectedInv,
       GoalUnansweredInv DEF DispatchStep
  <1>8. CASE ServeStep
    BY <1>2, <1>3, <1>8, RejectInv, AcknowledgeInv, ApproveInv, HeartbeatInv,
       CommandFaultsInv, ConfirmInv, GraspVerdictInv, SemanticVerdictInv, ReleaseVerdictInv,
       ReleaseSceneInv, ReleaseSceneFailsInv, BlockReleaseInv DEF ServeStep
  <1>9. CASE ExecuteStep
    BY <1>2, <1>3, <1>9, ExecuteInv, ConsumeSourceInv, LockSceneInv, ArmInv, ArmFailsInv
       DEF ExecuteStep
  <1>10. CASE Commands
    BY <1>2, <1>3, <1>10, ReadCommandInv, QuietTickInv, ReturnInv, EndOfInputInv DEF Commands
  <1>11. CASE World
    BY <1>2, <1>3, <1>11, SendInv, CoordinatorExitsInv, KillInv, LeaseLapsesInv,
       HoldOverdueInv, RobotInv, HumanUpdatesSceneInv, AcknowledgeReadyInv DEF World
  <1>12. QED
    BY <1>2, <1>4, <1>5, <1>6, <1>7, <1>8, <1>9, <1>10, <1>11
       DEF Next, ThreadStep, Commands, World

\* Inv is an invariant of the executor.
THEOREM Invariance == Spec => []Inv
  <1>1. QED
    BY InitInv, NextInv, PTL DEF Spec

\* The variables keep their types.
THEOREM TypeCorrectness == Spec => []TypeOK
  <1>1. Inv => TypeOK
    BY DEF Inv
  <1>2. QED
    BY <1>1, Invariance, PTL

\* What the coordinator is told of a fault is so: of the goal, of the cell and
\* of the scene.
THEOREM FaultsReportedTrue == Spec => []ReportedFaultIsTrue
  <1>1. Inv => ReportedFaultIsTrue
    BY DEF Inv, ReportedFaultIsTrue, StopIsConfirmed, Owned, AtRest, Believed, Durable,
           SceneTold, Faulting
  <1>2. QED
    BY <1>1, Invariance, PTL

-----------------------------------------------------------------------------
(* Who sends a goal, who completes a run, who writes the scene *)

LEMMA SentBy == Next /\ goal' # goal /\ goal' = "sent" => SendGoal
  <1> SUFFICES ASSUME Next, goal' # goal, goal' = "sent" PROVE SendGoal
    OBVIOUS
  <1> USE Frames
  <1>1. ~FaultStep
    BY DEF FaultStep, FaultCancel, FaultCell, FaultScene
  <1>2. ~TickStep
    BY DEF TickStep, TickIdle, TickDeadline, PollFails, PollContinues, StepDone, GripperRejected
  <1>3. ~StartStep
    BY DEF StartStep, StartFinishes, StartHolds, StartDispatches, StartFails
  <1>4. DispatchStep => SendGoal
    BY DEF DispatchStep, SendFails, GoalAccepted, GoalRejected, GoalUnanswered
  <1>5. ~ServeStep
    BY DEF ServeStep, Reject, Acknowledge, Approve, Heartbeat, CommandFaults, Confirm,
           GraspVerdict, SemanticVerdict, ReleaseVerdict, ReleaseScene, ReleaseSceneFails,
           BlockRelease
  <1>6. ~ExecuteStep
    BY DEF ExecuteStep, Execute, ConsumeSource, LockScene, Arm, ArmFails
  <1>7. ~(ReadCommand \/ QuietTick \/ Return \/ EndOfInput)
    BY DEF ReadCommand, QuietTick, Return, EndOfInput
  <1>8. ~(Send \/ CoordinatorExits \/ Kill \/ LeaseLapses \/ HoldOverdue \/ HumanUpdatesScene
          \/ AcknowledgeReady)
    BY DEF Send, CoordinatorExits, Kill, LeaseLapses, HoldOverdue, HumanUpdatesScene,
           AcknowledgeReady
  <1>9. ~Robot
    BY DEF Robot
  <1>10. QED
    BY <1>1, <1>2, <1>3, <1>4, <1>5, <1>6, <1>7, <1>8, <1>9 DEF Next, ThreadStep

LEMMA CompletedBy ==
    Next /\ state' # state /\ state' = "COMPLETED" => StartFinishes \/ ReleaseScene
  <1> SUFFICES ASSUME Next, state' # state, state' = "COMPLETED"
               PROVE  StartFinishes \/ ReleaseScene
    OBVIOUS
  <1> USE Frames DEF Fault, Blocks
  <1>1. ~FaultStep
    BY DEF FaultStep, FaultCancel, FaultCell, FaultScene
  <1>2. ~TickStep
    BY DEF TickStep, TickIdle, TickDeadline, PollFails, PollContinues, StepDone, GripperRejected,
           PauseAfter
  <1>3. StartStep => StartFinishes
    BY DEF StartStep, StartHolds, StartDispatches, StartFails
  <1>4. ~DispatchStep
    BY DEF DispatchStep, SendGoal, SendFails, GoalAccepted, GoalRejected, GoalUnanswered
  <1>5. ServeStep => ReleaseScene
    BY DEF ServeStep, Reject, Acknowledge, Approve, Heartbeat, CommandFaults, Confirm,
           GraspVerdict, SemanticVerdict, ReleaseVerdict, ReleaseSceneFails, BlockRelease
  <1>6. ~ExecuteStep
    BY DEF ExecuteStep, Execute, ConsumeSource, LockScene, Arm, ArmFails
  <1>7. ~(ReadCommand \/ QuietTick \/ Return \/ EndOfInput)
    BY DEF ReadCommand, QuietTick, Return, EndOfInput
  <1>8. ~(Send \/ CoordinatorExits \/ Kill \/ LeaseLapses \/ HoldOverdue \/ Robot
          \/ HumanUpdatesScene \/ AcknowledgeReady)
    BY DEF Send, CoordinatorExits, Kill, Forget, LeaseLapses, HoldOverdue, Robot,
           HumanUpdatesScene, AcknowledgeReady
  <1>9. QED
    BY <1>1, <1>2, <1>3, <1>4, <1>5, <1>6, <1>7, <1>8 DEF Next, ThreadStep

LEMMA WrittenBy ==
    Next /\ scene' # scene => \/ ConsumeSource \/ FaultScene \/ ReleaseScene
                              \/ HumanUpdatesScene
  <1> SUFFICES ASSUME Next, scene' # scene
               PROVE  ConsumeSource \/ FaultScene \/ ReleaseScene \/ HumanUpdatesScene
    OBVIOUS
  <1> USE Frames
  <1>1. FaultStep => FaultScene
    BY DEF FaultStep, FaultCancel, FaultCell
  <1>2. ~TickStep
    BY DEF TickStep, TickIdle, TickDeadline, PollFails, PollContinues, StepDone, GripperRejected
  <1>3. ~StartStep
    BY DEF StartStep, StartFinishes, StartHolds, StartDispatches, StartFails
  <1>4. ~DispatchStep
    BY DEF DispatchStep, SendGoal, SendFails, GoalAccepted, GoalRejected, GoalUnanswered
  <1>5. ServeStep => ReleaseScene
    BY DEF ServeStep, Reject, Acknowledge, Approve, Heartbeat, CommandFaults, Confirm,
           GraspVerdict, SemanticVerdict, ReleaseVerdict, ReleaseSceneFails, BlockRelease
  <1>6. ExecuteStep => ConsumeSource
    BY DEF ExecuteStep, Execute, LockScene, Arm, ArmFails
  <1>7. ~(ReadCommand \/ QuietTick \/ Return \/ EndOfInput)
    BY DEF ReadCommand, QuietTick, Return, EndOfInput
  <1>8. ~(Send \/ CoordinatorExits \/ Kill \/ LeaseLapses \/ HoldOverdue \/ Robot
          \/ AcknowledgeReady)
    BY DEF Send, CoordinatorExits, Kill, LeaseLapses, HoldOverdue, Robot, AcknowledgeReady
  <1>9. QED
    BY <1>1, <1>2, <1>3, <1>4, <1>5, <1>6, <1>7, <1>8 DEF Next, ThreadStep

\* A goal that may move the robot finds the cell durably not ready, and a goal is
\* only sent when the one before it can no longer move the robot.
THEOREM MotionFenced == Spec => MotionIsFenced
  <1>1. Inv => (goal \in Unresolved => ~cell.ready)
    BY DEF Inv, Owned
  <1>2. Inv /\ [Next]_vars => [goal' = "sent" => goal \notin Unresolved]_<<goal>>
    <2> SUFFICES ASSUME Inv, Next, goal' # goal, goal' = "sent" PROVE goal \notin Unresolved
      BY DEF vars
    <2>1. SendGoal
      BY SentBy
    <2>2. QED
      BY <2>1 DEF SendGoal, Inv, Owned, Alive, Gone
  <1>3. QED
    BY <1>1, <1>2, Invariance, PTL DEF Spec, MotionIsFenced

\* Contact, lift and return wait for the people they are confirmed by, and a run
\* completes with everything done and its landing durable.
THEOREM PeopleGate == Spec => GatedByPeople
  <1>1. Inv /\ [Next]_vars =>
          [goal' = "sent" /\ stage = "none" =>
             /\ plan.holds /\ PHASES[step] = "FINAL_APPROACH_LIN" => confirmed
             /\ plan.holds /\ step > 4 => grasp = "PASS"
             /\ PHASES[step] = "RECYCLE_APPROACH_PTP" /\ plan.boundary = "LIFT_LIN"
                    => semantic # "none"]_<<goal>>
    <2> SUFFICES ASSUME Inv, Next, goal' # goal, goal' = "sent", stage = "none"
                 PROVE  /\ plan.holds /\ PHASES[step] = "FINAL_APPROACH_LIN" => confirmed
                        /\ plan.holds /\ step > 4 => grasp = "PASS"
                        /\ PHASES[step] = "RECYCLE_APPROACH_PTP" /\ plan.boundary = "LIFT_LIN"
                               => semantic # "none"
      BY DEF vars
    <2>1. pc = "send"
      BY SentBy DEF SendGoal
    <2>2. state = "EXECUTING" /\ step \in 1..10 /\ ~NeedsConfirmation
      BY <2>1, PhaseFacts DEF Inv, TypeOK, Placed, InPhase, Alive, Gone, Done
    <2>3. PHASES[step] = "RECYCLE_APPROACH_PTP" <=> step = 6
      BY <2>2, PhaseFacts
    <2>4. QED
      BY <2>2, <2>3, PhaseFacts DEF Inv, Judged, BoundaryStep, NeedsConfirmation, Done
  <1>2. Inv /\ [Next]_vars =>
          [state' = "COMPLETED" =>
             /\ Done /\ ~active /\ ~owned /\ semantic # "none" /\ (plan.holds => grasp = "PASS")
             /\ plan.release => scene'.release = "LANDED"]_<<state>>
    <2> SUFFICES ASSUME Inv, Next, state' # state, state' = "COMPLETED"
                 PROVE  /\ Done /\ ~active /\ ~owned /\ semantic # "none"
                        /\ plan.holds => grasp = "PASS"
                        /\ plan.release => scene'.release = "LANDED"
      BY DEF vars
    <2>1. Done => step > 4 /\ step > BoundaryStep
      BY PhaseFacts DEF Inv, TypeOK, Done, BoundaryStep
    <2>2. CASE StartFinishes
      <3>1. state = "EXECUTING" /\ pc = "start" /\ Done /\ ~plan.release
        BY <2>2 DEF StartFinishes, Starting
      <3>2. QED
        BY <2>1, <3>1 DEF Inv, Judged, AtRest, Alive, Gone
    <2>3. CASE ReleaseScene
      <3>1. state = "RELEASE_VERDICT" /\ pc = "release" /\ scene' = Landing
        BY <2>3 DEF ReleaseScene, Inv, Placed
      <3>2. scene'.release = "LANDED"
        BY <3>1, SceneWrites, TypeParts DEF Inv, Typed, RecordsTyped
      <3>3. QED
        BY <2>1, <3>1, <3>2 DEF Inv, Judged, AtRest, Alive, Gone
    <2>4. QED
      BY <2>2, <2>3, CompletedBy
  <1>3. QED
    BY <1>1, <1>2, Invariance, PTL DEF Spec, GatedByPeople

\* The executor never writes over a scene somebody else changed, and vacates a
\* source slot only with the landing that emptied it.
THEOREM SceneKept == Spec => SceneIsKept
  <1>1. Inv => (scene.source = "AVAILABLE" => scene.release = "LANDED")
    BY DEF Inv, Vacated
  <1>2. [Next]_vars => [scene.revision # bound => scene'.writer = "HUMAN" \/ ~Alive]_<<scene>>
    <2> SUFFICES ASSUME Next, scene' # scene, scene.revision # bound
                 PROVE  scene'.writer = "HUMAN"
      BY DEF vars
    <2>1. HumanUpdatesScene
      BY WrittenBy DEF ConsumeSource, FaultScene, ReleaseScene, ExpectedScene
    <2>2. QED
      BY <2>1 DEF HumanUpdatesScene
  <1>3. QED
    BY <1>1, <1>2, Invariance, PTL DEF Spec, SceneIsKept

================================================================================
