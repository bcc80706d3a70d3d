------------------------------- MODULE Campaign -------------------------------
(***************************************************************************)
(* A collection campaign: several episodes of one manifest, opened one     *)
(* after another by a worker thread, while the operator's requests are     *)
(* served by others.                                                       *)
(*                                                                         *)
(*   OperatorConsole   operator/workflow/campaign.py: the worker's loop,   *)
(*                     the workflow the operator sees, cancel and close    *)
(*   CampaignOperator  campaign_operator.py: one turn of the loop          *)
(*   CampaignSession   campaign_session.py: the sole owner of the start    *)
(*                     transition and of the active child                  *)
(*   SeedCampaign      seed_campaign.py: order, quota, expiry and the      *)
(*                     scene each slot must find                           *)
(*   the start transition  motion/home_recovery.py, under the session      *)
(*   the child         a OneJob driven by run_live (module Episode), here  *)
(*                     reduced to the states the session looks at          *)
(*                                                                         *)
(* at is the worker's next step.  It is cut wherever the worker takes the  *)
(* session's, the console's or the intent core's lock, calls the robot or  *)
(* waits; a request of the operator holds the core, console, operator and  *)
(* session locks together and is one step.  close runs under the lock of   *)
(* the application (workflow/application.py), which then serves no other   *)
(* request and afterwards lets the console go.                             *)
(*                                                                         *)
(* Simplifications: the revision of the scene stands for its digest; run i *)
(* of a session has the id i; the reviews queued by an outcome are left    *)
(* out; compile_draft of a console that asks a button per plan returns at  *)
(* once, since its wait for the first outcome may time out.                *)
(***************************************************************************)
EXTENDS Naturals, Sequences, FiniteSets

CONSTANTS
    Slots,       \* the slots of the manifest
    MaxQuota,    \* bound on the physical episodes the program has left
    MaxChanges   \* bound on the changes other actors make to the scene

ASSUME CampaignAssumption ==
    Slots \in Nat \ {0} /\ MaxQuota \in Nat /\ MaxChanges \in Nat

VARIABLES
    once,        \* campaign_approval_once; a button per plan otherwise
    quota,       \* the physical episodes the program has left at the start
    \* console
    workflow, cancelRequested,
    choice,      \* _plan_choice
    run,         \* _run_index
    bound,       \* _active_intent_projection is not None
    button,      \* ButtonDecisionPort: pending, or the decision
    checkpoint,  \* OperatorCheckpointPort: pending, or the decision; closed
    planned,     \* _episode_plan is not None
    history,     \* _episode_history: run and outcome
    closer,      \* the thread in close()
    \* worker
    at, outcome,
    seen,        \* the scene evidence in hand
    code,        \* failure_code of the start transition
    live,        \* last_live_response
    post,        \* postcommit_scene_state_digest of the last commit
    \* operator, session, campaign
    refused,     \* CampaignOperator._cancelled
    session, campaign,
    used,        \* SeedCampaign._used_run_ids
    \* the world
    goal,        \* the start transition's goal
    job,         \* the child: its state, and whether the arm moves for it
    scene, changes, expired,
    committed    \* the runs whose episode is in the dataset

console == <<workflow, cancelRequested, choice, run, bound, button, checkpoint, planned, history>>
world   == <<goal, job, scene, changes, expired, committed>>
vars == <<once, quota, workflow, cancelRequested, choice, run, bound, button, checkpoint, planned, history,
          closer, at, outcome, seen, code, live, post, refused, session, campaign, used, goal, job,
          scene, changes, expired, committed>>

Workflows == {"AUTHORING", "REVIEW_CAMPAIGN", "AWAITING_APPROVAL", "RUNNING", "CANCELLING",
              "PAUSED_AWAITING_OPERATOR", "TERMINAL", "BLOCKED"}
LiveSteps == {"plan", "planning", "site", "siteWait", "decision", "decisionWait", "start",
              "starting", "drive", "verdict", "verdictWait", "commit", "accept"}
Steps == {"none", "ensure", "scene", "preflight", "activate", "bind", "claim", "send", "dispatch",
          "wait", "settle", "rescene", "open", "report", "unwind", "publish", "check", "advance",
          "done"} \cup LiveSteps
Settled == {"ABORTED", "BLOCKED", "COMMITTED_BLOCKED", "COMPLETE"}
TERMINAL_CHILD_STATES == Settled \cup {"IDLE"}
JobStates == {"none", "PLANNED", "RUNNING", "AWAITING_CELL_READY"} \cup TERMINAL_CHILD_STATES
Codes == {"none", "cancelled", "uncertain", "child_uncertain", "failed"}
CampaignStates == {"READY", "ACTIVE", "COMPLETE", "BLOCKED", "CANCELLED"}
Outcomes == {"PASS", "CANCEL", "PAUSED", "FAIL"}
Runs == 0..(Slots - 1)
Scenes == 0..(Slots + MaxChanges)
NoOutcome == [ok |-> FALSE, state |-> "none", error |-> "none"]

\* The values the variables may take.
TypeOK ==
    /\ once \in BOOLEAN /\ quota \in 0..MaxQuota /\ workflow \in Workflows /\ cancelRequested \in BOOLEAN
    /\ choice \in {"none", "APPROVE", "REJECT", "CANCEL"} /\ run \in Runs /\ bound \in BOOLEAN
    /\ button \in {"none", "pending", "APPROVE", "REJECT", "CANCEL"}
    /\ checkpoint \in {"none", "pending", "yes", "no", "closed"} /\ planned \in BOOLEAN
    /\ history \in Seq([run : Runs, outcome : Outcomes])
    /\ closer \in {"open", "joining", "closed"} /\ at \in Steps
    /\ outcome \in [ok : BOOLEAN, state : CampaignStates \cup {"none"}, error : Codes]
    /\ seen \in [scene : Scenes, fresh : BOOLEAN] /\ code \in Codes
    /\ live \in {"none", "paused", "cancelled", "failed"} /\ post \in Scenes
    /\ refused \in BOOLEAN
    /\ session \in [exists : BOOLEAN, cancelled : BOOLEAN, starting : BOOLEAN, owner : BOOLEAN,
                    child : BOOLEAN, tried : BOOLEAN, error : Codes]
    /\ campaign \in [state : CampaignStates, error : Codes, index : 0..Slots, scene : Scenes]
    /\ used \subseteq Runs /\ goal \in {"none", "moving", "stopped"}
    /\ job \in [state : JobStates, moving : BOOLEAN]
    /\ scene \in Scenes /\ changes \in 0..MaxChanges /\ expired \in BOOLEAN
    /\ committed \subseteq Runs

Init ==
    /\ once \in BOOLEAN /\ quota \in 0..MaxQuota /\ workflow = "AUTHORING" /\ cancelRequested = FALSE /\ choice = "none"
    /\ run = 0 /\ bound = FALSE /\ button = "none" /\ checkpoint = "none" /\ planned = FALSE
    /\ history = <<>> /\ closer = "open" /\ at = "none" /\ outcome = NoOutcome
    /\ seen = [scene |-> 0, fresh |-> FALSE] /\ code = "none" /\ live = "none" /\ post = 0
    /\ refused = FALSE
    /\ session = [exists |-> FALSE, cancelled |-> FALSE, starting |-> FALSE, owner |-> FALSE,
                  child |-> FALSE, tried |-> FALSE, error |-> "none"]
    /\ campaign = [state |-> "READY", error |-> "none", index |-> 0, scene |-> 0]
    /\ used = {} /\ goal = "none" /\ job = [state |-> "none", moving |-> FALSE]
    /\ scene = 0 /\ changes = 0 /\ expired = FALSE /\ committed = {}

-----------------------------------------------------------------------------
(* SeedCampaign.                                                           *)

Live(c) == c.state \in {"READY", "ACTIVE"}
Fault(c, error) == IF Live(c) THEN [c EXCEPT !.state = "BLOCKED", !.error = error] ELSE c
CancelCampaign(c) == IF Live(c) THEN [c EXCEPT !.state = "CANCELLED", !.error = "cancelled"] ELSE c

\* preflight_intent: owner and expiry, a new run id, the scene the previous
\* PASS left (or the initial one), and room in every quota.
Admits(c) ==
    /\ c.state = "READY" /\ ~expired
    /\ run \notin used
    /\ seen.scene = c.scene
    /\ Cardinality(used) < quota

\* Mutant: complete one slot early.
PassedEarly(c) ==
    [c EXCEPT !.index = @ + 1, !.scene = post,
              !.state = IF c.index + 2 >= Slots THEN "COMPLETE" ELSE "READY"]

\* record_technical_result of a PASS, with the scene it left.
Passed(c) ==
    [c EXCEPT !.index = @ + 1, !.scene = post,
              !.state = IF c.index + 1 = Slots THEN "COMPLETE" ELSE "READY"]

-----------------------------------------------------------------------------
(* CampaignSession.                                                        *)

\* OneJob.cancel, by the state the child is in: what it may leave behind.
\* A cancel that raises leaves the child as it is.
JobCancels(j) ==
    CASE j.state = "PLANNED" -> {[j EXCEPT !.state = "ABORTED"], [j EXCEPT !.state = "BLOCKED"]}
      [] j.state = "RUNNING" -> {[state |-> "ABORTED", moving |-> FALSE],
                                 [j EXCEPT !.state = "BLOCKED"], j}
      [] OTHER -> {j}

\* _terminate_active: at most one cancel; a child not known to have ended
\* stays in the session.
TerminateActive(s, j, s2, j2) ==
    IF ~s.child THEN s2 = s /\ j2 = j
    ELSE /\ j2 \in IF j.state \in Settled \/ s.tried THEN {j} ELSE JobCancels(j)
         /\ s2 = IF j2.state \in TERMINAL_CHILD_STATES
                 THEN [s EXCEPT !.cancelled = TRUE, !.child = FALSE, !.tried = FALSE,
                                !.error = "none"]
                 ELSE [s EXCEPT !.cancelled = TRUE, !.tried = @ \/ j.state \notin Settled,
                                !.error = "child_uncertain"]

\* Mutant: the campaign is cancelled, its child left to the worker.
CancelWithoutChild ==
    IF ~session.exists THEN refused' = TRUE /\ UNCHANGED <<session, campaign, job>>
    ELSE /\ session' = [session EXCEPT !.cancelled = TRUE]
         /\ campaign' = IF session.starting THEN campaign ELSE CancelCampaign(campaign)
         /\ UNCHANGED <<refused, job>>

\* CampaignSession.cancel, and cancel_campaign before there is a session.
\* While the start transition runs, its finish seals the campaign.
CancelCampaignCall ==
    IF ~session.exists THEN refused' = TRUE /\ UNCHANGED <<session, campaign, job>>
    ELSE /\ UNCHANGED refused
         /\ IF ~Live(campaign) THEN UNCHANGED <<session, campaign, job>>
            ELSE IF session.starting
            THEN session' = [session EXCEPT !.cancelled = TRUE] /\ UNCHANGED <<campaign, job>>
            ELSE /\ TerminateActive([session EXCEPT !.cancelled = TRUE], job, session', job')
                 /\ campaign' = IF session'.child THEN Fault(campaign, "child_uncertain")
                                ELSE CancelCampaign(campaign)

\* _claim_start_transition is refused after a cancel, or beside another motion.
Claimable == ~session.cancelled /\ ~session.starting /\ ~session.child

\* A campaign cancelled while the start transition ran is sealed by its finish.
Seals(c) == session.cancelled /\ c \in {"none", "cancelled"}

\* Mutant: the uncertain goal is let go with the transition.
FinishAndForget(c, s2, c2) ==
    /\ s2 = [session EXCEPT !.starting = FALSE, !.owner = FALSE]
    /\ c2 = IF Seals(c) THEN CancelCampaign(campaign)
            ELSE IF c = "none" THEN campaign ELSE Fault(campaign, c)

\* _finish_start_transition: an uncertain goal keeps its owner.
Finish(c, s2, c2) ==
    /\ s2 = [session EXCEPT !.starting = (c = "uncertain"), !.owner = (c = "uncertain"),
                            !.error = IF ~Live(campaign) \/ (c = "none" /\ ~Seals(c)) THEN @
                                      ELSE IF Seals(c) THEN "none" ELSE c]
    /\ c2 = IF Seals(c) THEN CancelCampaign(campaign)
            ELSE IF c = "none" THEN campaign ELSE Fault(campaign, c)

\* status asks the retained owner, which answers once the goal has ended.
RefreshStartOwner ==
    /\ session.owner /\ goal # "moving"
    /\ session' = [session EXCEPT !.owner = FALSE, !.starting = FALSE]
    /\ UNCHANGED <<once, quota, console, closer, at, outcome, seen, code, live, post, refused, campaign,
                   used, world>>

-----------------------------------------------------------------------------
(* The operator's requests, and what else happens beside the worker.      *)

\* compile_draft: a console with one approval shows the campaign; one with a
\* button per plan starts the worker.
CompileDraft ==
    /\ workflow = "AUTHORING" /\ at = "none" /\ closer = "open"
    /\ IF once THEN workflow' = "REVIEW_CAMPAIGN" /\ UNCHANGED at
       ELSE workflow' = "RUNNING" /\ at' = "ensure"
    /\ UNCHANGED <<once, quota, cancelRequested, choice, run, bound, button, checkpoint, planned, history,
                   closer, outcome, seen, code, live, post, refused, session, campaign, used, world>>

\* authorize_campaign, the only request that starts the worker of a console
\* with one approval.
AuthorizeCampaign ==
    /\ workflow = "REVIEW_CAMPAIGN" /\ at = "none" /\ closer = "open"
    /\ workflow' = "RUNNING" /\ at' = "ensure"
    /\ UNCHANGED <<once, quota, cancelRequested, choice, run, bound, button, checkpoint, planned, history,
                   closer, outcome, seen, code, live, post, refused, session, campaign, used, world>>

ClearedButton == IF button = "pending" THEN "CANCEL" ELSE button

\* approve_exact_plan and reject_plan, of the plan now pending.
DecidePlan ==
    /\ workflow = "AWAITING_APPROVAL" /\ button = "pending" /\ closer = "open"
    /\ \/ /\ button' = "APPROVE" /\ choice' = "APPROVE" /\ workflow' = "RUNNING"
       \/ /\ button' = "REJECT" /\ choice' = "REJECT" /\ workflow' = "CANCELLING"
    /\ UNCHANGED <<once, quota, cancelRequested, run, bound, checkpoint, planned, history, closer, at,
                   outcome, seen, code, live, post, refused, session, campaign, used, world>>

\* resolve_checkpoint, of the checkpoint now pending.
ResolveCheckpoint ==
    /\ workflow = "RUNNING" /\ checkpoint = "pending" /\ closer = "open"
    /\ checkpoint' \in {"yes", "no"}
    /\ UNCHANGED <<once, quota, workflow, cancelRequested, choice, run, bound, button, planned, history,
                   closer, at, outcome, seen, code, live, post, refused, session, campaign, used,
                   world>>

\* _cancel_owner.
CancelOwner ==
    /\ cancelRequested' = TRUE /\ choice' = "CANCEL"
    /\ button' = ClearedButton /\ checkpoint' = "closed"
    /\ CancelCampaignCall

\* cancel_session.
CancelSession ==
    /\ workflow \in {"AWAITING_APPROVAL", "RUNNING"} /\ closer = "open"
    /\ CancelOwner
    /\ workflow' = "CANCELLING"
    /\ UNCHANGED <<once, quota, run, bound, planned, history, closer, at, outcome, seen, code, live, post,
                   used, goal, scene, changes, expired, committed>>

\* close: cancel a worker that is alive, wait for it, and leave only when no
\* start transition is owned.  A wait that runs out is a close that fails.
CloseBegins ==
    /\ closer = "open"
    /\ IF at \in {"none", "done"}
       THEN UNCHANGED <<cancelRequested, choice, button, checkpoint, refused, session, campaign, job>>
       ELSE CancelOwner
    /\ closer' = "joining"
    /\ UNCHANGED <<once, quota, workflow, run, bound, planned, history, at, outcome, seen, code, live, post,
                   used, goal, scene, changes, expired, committed>>
CloseFails ==
    /\ closer = "joining"
    /\ at \notin {"none", "done"} \/ session.starting
    /\ closer' = "open"
    /\ UNCHANGED <<once, quota, console, at, outcome, seen, code, live, post, refused, session, campaign,
                   used, world>>
CloseEnds ==
    /\ closer = "joining"
    /\ at \in {"none", "done"} /\ ~session.starting
    /\ closer' = "closed" /\ checkpoint' = "closed"
    /\ UNCHANGED <<once, quota, workflow, cancelRequested, choice, run, bound, button, planned, history, at,
                   outcome, seen, code, live, post, refused, session, campaign, used, world>>

\* External: the start transition's goal comes to its end.
GoalEnds ==
    /\ goal = "moving" /\ goal' = "stopped"
    /\ UNCHANGED <<once, quota, console, closer, at, outcome, seen, code, live, post, refused, session,
                   campaign, used, job, scene, changes, expired, committed>>

\* External: the scene file is rewritten by someone else.
SceneChanges ==
    /\ changes < MaxChanges /\ at \notin {"none", "done"}
    /\ changes' = changes + 1 /\ scene' = scene + 1
    /\ UNCHANGED <<once, quota, console, closer, at, outcome, seen, code, live, post, refused, session,
                   campaign, used, goal, job, expired, committed>>

\* The campaign's expiry passes.
Expire ==
    /\ ~expired /\ at \notin {"none", "done"} /\ expired' = TRUE
    /\ UNCHANGED <<once, quota, console, closer, at, outcome, seen, code, live, post, refused, session,
                   campaign, used, goal, job, scene, changes, committed>>

-----------------------------------------------------------------------------
(* The worker: one turn of run_next up to the open intent.                 *)

\* A ContractError of run_next: the outcome carries the session's status.
Fails(c) ==
    /\ at' = "publish"
    /\ outcome' = [ok |-> FALSE, state |-> IF session.exists THEN c.state ELSE "none",
                   error |-> IF session.exists THEN c.error ELSE "none"]

UNCHANGEDTurn == UNCHANGED <<once, quota, console, closer, code, live, post, refused, used, world>>

\* _ensure_session, under the operator's lock: refused after a cancel or when
\* the campaign is over; a subsystem or a root that is not ready fails it.
Ensure ==
    /\ at = "ensure"
    /\ \/ Fails(campaign) /\ UNCHANGED session
       \/ /\ ~refused /\ campaign.state = "READY"
          /\ session' = [session EXCEPT !.exists = TRUE] /\ at' = "scene" /\ UNCHANGED outcome
    /\ UNCHANGED <<seen, campaign>> /\ UNCHANGEDTurn

\* scene_evidence_call.
ReadScene ==
    /\ at = "scene"
    /\ \/ Fails(campaign) /\ UNCHANGED seen
       \/ seen' = [scene |-> scene, fresh |-> TRUE] /\ at' = "preflight" /\ UNCHANGED outcome
    /\ UNCHANGED <<session, campaign>> /\ UNCHANGEDTurn

\* preflight_next: after a cancel, or beside another motion, refused; what the
\* campaign does not admit blocks it.
Gate == ~session.cancelled /\ ~session.starting /\ ~session.child
Preflight ==
    /\ at = "preflight"
    /\ IF ~Gate THEN Fails(campaign) /\ UNCHANGED campaign
       ELSE \/ campaign' = Fault(campaign, "failed") /\ Fails(campaign')
            \/ Admits(campaign) /\ at' = "activate" /\ UNCHANGED <<outcome, campaign>>
    /\ UNCHANGED <<seen, session>> /\ UNCHANGEDTurn

\* _activate_physical between two looks at the cancel event.
Activate ==
    /\ at = "activate"
    /\ \/ Fails(campaign)
       \/ ~session.cancelled /\ at' = "bind" /\ UNCHANGED outcome
    /\ UNCHANGED <<seen, session, campaign>> /\ UNCHANGEDTurn

\* start_binding: the arm must be at HOME; a slot without a qualified start
\* pose, or an arm already there, needs no transition.
Bind ==
    /\ at = "bind"
    /\ \/ Fails(campaign)
       \/ ~session.cancelled /\ at' \in {"claim", "rescene"} /\ UNCHANGED outcome
    /\ UNCHANGED <<seen, session, campaign>> /\ UNCHANGEDTurn

Claim ==
    /\ at = "claim"
    /\ IF Claimable
       THEN /\ session' = [session EXCEPT !.starting = TRUE, !.owner = FALSE, !.error = "none"]
            /\ at' = "send" /\ UNCHANGED outcome
       ELSE Fails(campaign) /\ UNCHANGED session
    /\ UNCHANGED <<seen, campaign>> /\ UNCHANGEDTurn

\* start_phase looks at the cancel event, then sends the goal.
Send ==
    /\ at = "send"
    /\ IF session.cancelled THEN code' = "cancelled" /\ at' = "settle"
       ELSE code' = "none" /\ at' = "dispatch"
    /\ UNCHANGED <<once, quota, console, closer, outcome, seen, live, post, refused, session, campaign,
                   used, world>>
Dispatch ==
    /\ at = "dispatch"
    /\ \/ goal' = "moving" /\ at' = "wait" /\ seen' = [seen EXCEPT !.fresh = FALSE] /\ UNCHANGED code
       \/ code' = "failed" /\ at' = "settle" /\ UNCHANGED <<goal, seen>>
    /\ UNCHANGED <<once, quota, console, closer, outcome, live, post, refused, session, campaign, used, job,
                   scene, changes, expired, committed>>

\* Mutant: the wait for the goal has no bound.
WaitForGoal ==
    /\ at = "wait" /\ at' = "settle"
    /\ goal = "stopped" /\ code' \in {"none", "failed"} /\ UNCHANGED goal
    /\ UNCHANGED <<once, quota, console, closer, outcome, seen, live, post, refused, session, campaign, used,
                   job, scene, changes, expired, committed>>

\* _wait_phase: the goal ends, or after a cancel or a failure it is cancelled,
\* confirmed or not.
Wait ==
    /\ at = "wait" /\ at' = "settle"
    /\ \/ goal = "stopped" /\ code' \in {"none", "failed"} /\ UNCHANGED goal
       \/ goal' = "stopped" /\ code' = IF session.cancelled THEN "cancelled" ELSE "failed"
       \/ code' = "uncertain" /\ UNCHANGED goal
    /\ UNCHANGED <<once, quota, console, closer, outcome, seen, live, post, refused, session, campaign, used,
                   job, scene, changes, expired, committed>>

Settle ==
    /\ at = "settle"
    /\ Finish(code, session', campaign')
    /\ IF code = "none" THEN at' = "rescene" /\ UNCHANGED outcome ELSE Fails(campaign')
    /\ UNCHANGED seen /\ UNCHANGEDTurn

\* Mutant: the evidence read before the transition is used.
KeepFirstScene ==
    /\ at = "rescene"
    /\ \/ Fails(campaign) /\ UNCHANGED seen
       \/ ~session.cancelled /\ at' = "open" /\ UNCHANGED <<outcome, seen>>
    /\ UNCHANGED <<session, campaign>> /\ UNCHANGEDTurn

\* The scene is read again once the arm stands at the start pose.
ReadSceneAgain ==
    /\ at = "rescene"
    /\ \/ Fails(campaign) /\ UNCHANGED seen
       \/ /\ ~session.cancelled
          /\ seen' = [scene |-> scene, fresh |-> TRUE] /\ at' = "open" /\ UNCHANGED outcome
    /\ UNCHANGED <<session, campaign>> /\ UNCHANGEDTurn

\* open_next: the gates again, the bindings, a fresh child and the intent,
\* under one hold of the session's lock.
OpenNext ==
    /\ at = "open"
    /\ IF ~Gate THEN Fails(campaign) /\ UNCHANGED <<session, campaign, used, job, bound, live>>
       ELSE \/ campaign' \in {Fault(campaign, "failed"), campaign} /\ Fails(campaign')
               /\ UNCHANGED <<session, used, job, bound, live>>
            \/ /\ Admits(campaign)
               /\ campaign' = [campaign EXCEPT !.state = "ACTIVE"]
               /\ used' = used \cup {run}
               /\ session' = [session EXCEPT !.child = TRUE, !.tried = FALSE, !.error = "none"]
               /\ job' = [state |-> "IDLE", moving |-> FALSE]
               /\ bound' = TRUE /\ live' = "none" /\ at' = "plan" /\ UNCHANGED outcome
    /\ UNCHANGED <<once, quota, workflow, cancelRequested, choice, run, button, checkpoint, planned, history,
                   closer, seen, code, post, refused, goal, scene, changes, expired, committed>>

-----------------------------------------------------------------------------
(* The worker inside run_live: the episode of the open intent.             *)

liveFrame == <<once, quota, cancelRequested, choice, run, bound, history, closer, outcome, seen, code,
               refused, session, campaign, used, goal, changes, expired>>
ports     == <<workflow, button, checkpoint, planned>>
results   == <<scene, post, committed>>

\* run_live leaves: its response or its exception reaches run_next.  A child
\* that was running is aborted first, a committed one is closed.
LiveEnds(kinds) ==
    /\ live' \in kinds /\ at' = "unwind"
    /\ job' \in CASE job.state = "RUNNING" -> {[state |-> "ABORTED", moving |-> FALSE],
                                              [job EXCEPT !.state = "BLOCKED"]}
                 [] job.state = "AWAITING_CELL_READY" -> {[job EXCEPT !.state = "COMMITTED_BLOCKED"],
                                                          [job EXCEPT !.state = "COMPLETE"]}
                 [] OTHER -> {job}
    /\ UNCHANGED ports /\ UNCHANGED results /\ UNCHANGED liveFrame
LiveFails == LiveEnds({"none", "failed"})

Goes(step) == at' = step /\ UNCHANGED live /\ UNCHANGED liveFrame

\* What the one approval covers: the active child's own run, in time.
Authorized == session.child /\ ~expired

\* The cancel event is looked at, then the child plans.
PlanChild ==
    \/ at = "plan" /\ (LiveFails \/ (~session.cancelled /\ Goes("planning")
                                     /\ UNCHANGED <<ports, results, job>>))
    \/ at = "planning" /\ (LiveFails \/ (Goes("site") /\ job' = [job EXCEPT !.state = "PLANNED"]
                                         /\ UNCHANGED <<ports, results>>))

\* The checkpoint before the approval: confirmed by the campaign's approval,
\* or put to the operator; an offer to a closed port fails.
AskSite ==
    /\ at = "site"
    /\ \/ LiveFails
       \/ once /\ Authorized /\ ~planned /\ Goes("decision") /\ UNCHANGED <<ports, results, job>>
       \/ /\ ~once /\ checkpoint = "none" /\ Goes("siteWait")
          /\ checkpoint' = "pending" /\ workflow' = "RUNNING"
          /\ UNCHANGED <<button, planned, results, job>>
HearSite ==
    /\ at = "siteWait" /\ checkpoint # "pending"
    /\ IF checkpoint = "yes"
       THEN Goes("decision") /\ checkpoint' = "none" /\ UNCHANGED <<workflow, button, planned, results, job>>
       ELSE LiveEnds({"paused"})

\* The decision on the exact plan.
AskDecision ==
    /\ at = "decision"
    /\ \/ LiveFails
       \/ /\ once /\ Authorized /\ planned' = TRUE /\ Goes("start")
          /\ UNCHANGED <<workflow, button, checkpoint, results, job>>
       \/ /\ ~once /\ button = "none" /\ button' = "pending" /\ planned' = TRUE
          /\ workflow' = "AWAITING_APPROVAL" /\ Goes("decisionWait")
          /\ UNCHANGED <<checkpoint, results, job>>
HearDecision ==
    /\ at = "decisionWait" /\ button # "pending"
    /\ IF button = "APPROVE" THEN Goes("start") /\ UNCHANGED <<ports, results, job>>
       ELSE LiveEnds({"cancelled"})

\* The cancel event again, then approve and start of the child, which take
\* only a child that is still planned.
StartChild ==
    \/ at = "start" /\ IF session.cancelled THEN LiveEnds({"cancelled"})
                       ELSE Goes("starting") /\ UNCHANGED <<ports, results, job>>
    \/ /\ at = "starting"
       /\ \/ LiveFails
          \/ /\ job.state = "PLANNED" /\ job' = [state |-> "RUNNING", moving |-> TRUE]
             /\ Goes("drive") /\ UNCHANGED <<ports, results>>

DriveChild ==
    /\ at = "drive"
    /\ \/ LiveFails
       \/ /\ job.state = "RUNNING" /\ ~session.cancelled
          /\ Goes("verdict") /\ UNCHANGED <<ports, results, job>>

\* The release verdict, as the site checkpoint.
AskVerdict ==
    /\ at = "verdict"
    /\ \/ LiveFails
       \/ once /\ Authorized /\ planned /\ Goes("commit") /\ UNCHANGED <<ports, results, job>>
       \/ /\ ~once /\ checkpoint = "none" /\ checkpoint' = "pending" /\ workflow' = "RUNNING"
          /\ Goes("verdictWait") /\ UNCHANGED <<button, planned, results, job>>
HearVerdict ==
    /\ at = "verdictWait" /\ checkpoint # "pending"
    /\ IF checkpoint = "yes"
       THEN Goes("commit") /\ checkpoint' = "none" /\ UNCHANGED <<workflow, button, planned, results, job>>
       ELSE LiveFails

\* The episode is committed and the scene rewritten; then the child completes.
CommitChild ==
    \/ /\ at = "commit"
       /\ \/ LiveFails
          \/ /\ job.state = "RUNNING" /\ job' = [state |-> "AWAITING_CELL_READY", moving |-> FALSE]
             /\ scene' = scene + 1 /\ post' = scene' /\ committed' = committed \cup {run}
             /\ Goes("accept") /\ UNCHANGED ports
    \/ /\ at = "accept"
       /\ \/ LiveFails
          \/ /\ job' = [job EXCEPT !.state = "COMPLETE"] /\ Goes("report")
             /\ UNCHANGED <<ports, results>>

RunLive == \/ PlanChild \/ AskSite \/ HearSite \/ AskDecision \/ HearDecision \/ StartChild
           \/ DriveChild \/ AskVerdict \/ HearVerdict \/ CommitChild

-----------------------------------------------------------------------------
(* The worker: the rest of its turn.                                       *)

\* complete_active.  Evidence the campaign refuses blocks it; without an
\* active child there is nothing to complete.
Report ==
    /\ at = "report"
    /\ IF ~session.child
       THEN campaign' = Fault(campaign, "failed") /\ Fails(campaign') /\ UNCHANGED <<session, job>>
       ELSE \/ /\ campaign' = [campaign EXCEPT !.state = "BLOCKED", !.error = "failed"]
               /\ TerminateActive(session, job, session', job') /\ Fails(campaign')
            \/ /\ campaign.state = "ACTIVE" /\ ~expired /\ job.state = "COMPLETE"
               /\ campaign' = Passed(campaign)
               /\ session' = [session EXCEPT !.child = FALSE, !.tried = FALSE]
               /\ outcome' = [ok |-> TRUE, state |-> campaign'.state, error |-> campaign'.error]
               /\ at' = "publish" /\ UNCHANGED job
    /\ UNCHANGED <<once, quota, console, closer, seen, code, live, post, refused, used, goal, scene, changes,
                   expired, committed>>

\* The failing branch of run_next: end the child, block the campaign.
Unwind ==
    /\ at = "unwind"
    /\ TerminateActive(session, job, session', job')
    /\ campaign' = Fault(campaign, IF session'.child THEN "child_uncertain" ELSE "failed")
    /\ Fails(campaign')
    /\ UNCHANGED <<once, quota, console, closer, seen, code, live, post, refused, used, goal, scene, changes,
                   expired, committed>>

\* Mutant: the loop goes on past the last slot.
ContinuesPastLast == outcome.ok /\ ~cancelRequested /\ once

\* _publish_outcome: what the turn is called, and whether the loop goes on.
Continues == outcome.ok /\ ~cancelRequested /\ once /\ outcome.state = "READY"
Verdict ==
    IF outcome.state = "BLOCKED" /\ outcome.error = "uncertain" THEN <<"FAIL", "BLOCKED">>
    ELSE IF cancelRequested \/ outcome.state = "CANCELLED" THEN <<"CANCEL", "TERMINAL">>
    ELSE IF outcome.ok THEN <<"PASS", IF Continues THEN "RUNNING" ELSE "TERMINAL">>
    ELSE CASE live = "paused"    -> <<"PAUSED", "PAUSED_AWAITING_OPERATOR">>
           [] live = "cancelled" -> <<"CANCEL", "TERMINAL">>
           [] OTHER              -> <<"FAIL", "BLOCKED">>
Publish ==
    /\ at = "publish"
    /\ workflow' = Verdict[2]
    /\ history' = IF bound THEN Append(history, [run |-> run, outcome |-> Verdict[1]]) ELSE history
    /\ button' = ClearedButton /\ checkpoint' = "closed"
    /\ at' = IF Continues THEN "check" ELSE "done"
    /\ UNCHANGED <<once, quota, cancelRequested, choice, run, bound, planned, closer, outcome, seen, code,
                   live, post, refused, session, campaign, used, world>>

\* The loop looks for a cancel once more, then names the next run and gives it
\* fresh ports.
Check ==
    /\ at = "check"
    /\ at' = IF cancelRequested THEN "done" ELSE "advance"
    /\ UNCHANGED <<once, quota, console, closer, outcome, seen, code, live, post, refused, session, campaign,
                   used, world>>
AdvanceRun ==
    /\ at = "advance"
    /\ run' = run + 1 /\ bound' = FALSE /\ choice' = "none" /\ planned' = FALSE
    /\ button' = "none" /\ checkpoint' = "none" /\ at' = "ensure"
    /\ UNCHANGED <<once, quota, workflow, cancelRequested, history, closer, outcome, seen, code, live, post,
                   refused, session, campaign, used, world>>

-----------------------------------------------------------------------------

Worker ==
    \/ Ensure \/ ReadScene \/ Preflight \/ Activate \/ Bind \/ Claim \/ Send \/ Dispatch \/ Wait
    \/ Settle \/ ReadSceneAgain \/ OpenNext \/ RunLive \/ Report \/ Unwind \/ Publish \/ Check
    \/ AdvanceRun
Operator ==
    \/ CompileDraft \/ AuthorizeCampaign \/ DecidePlan \/ ResolveCheckpoint \/ CancelSession
    \/ CloseBegins \/ CloseFails \/ CloseEnds

Next == Worker \/ Operator \/ RefreshStartOwner \/ GoalEnds \/ SceneChanges \/ Expire
Spec == Init /\ [][Next]_vars

\* The worker is a running thread, every wait of it but the operator's bounded.
FairSpec == Spec /\ WF_vars(Worker)

-----------------------------------------------------------------------------
(* Properties.                                                             *)

\* A motion always has an owner, and one at a time: a start transition whose
\* goal may still move stays claimed by the session, with the worker waiting
\* for it or its action handle kept; the child's arm moves only inside run_live
\* or under a session that still holds the child, a stop OneJob itself reports
\* as unconfirmed apart; and a console that closed leaves neither behind.
MotionIsOwned ==
    /\ ~(goal = "moving" /\ job.moving)
    /\ goal = "moving" => session.starting /\ (at \in {"wait", "settle"} \/ session.owner)
    /\ job.moving => job.state = "BLOCKED" \/ session.child \/ at \in LiveSteps
    /\ closer = "closed" => at \in {"none", "done"} /\ goal # "moving"
                            /\ (job.moving => job.state = "BLOCKED")

\* What the operator reads of an episode is what happened to it: a PASS was
\* committed, taken by the campaign in the order of its slots, and stands once
\* in the history; a console with one approval that ends TERMINAL without a
\* cancel has collected every slot.
OutcomeIsTrue ==
    /\ \A i \in DOMAIN history :
          /\ history[i].outcome = "PASS" => history[i].run \in committed /\ i <= campaign.index
          /\ \A j \in DOMAIN history : i < j => history[i].run < history[j].run
    /\ 0..(campaign.index - 1) \subseteq committed
    /\ (workflow = "TERMINAL" /\ once /\ ~cancelRequested /\ live # "cancelled")
          => campaign.state = "COMPLETE" /\ Len(history) = Slots /\ 0..(Slots - 1) \subseteq committed

\* An intent opens only behind the commits of all earlier slots, on the scene
\* the last of them left as it was seen after the arm came to rest, for a run
\* never used, within the quota, and beside no other motion.  After a cancel
\* has reached the session (or the operator, before there is one) no further
\* intent opens, no child begins to move and no start goal is sent but one
\* already past its last look at the cancel event.
NextIsEarned ==
    [][/\ used' # used =>
            /\ used' = 0..run /\ used = 0..(run - 1) /\ used \subseteq committed
            /\ seen.scene = post /\ seen.fresh
            /\ goal # "moving" /\ ~job.moving /\ Cardinality(used') <= quota
       /\ session.cancelled \/ refused =>
            /\ used' = used
            /\ job'.moving => job.moving
            /\ goal' = "moving" => goal = "moving" \/ at = "dispatch"]_vars

\* A worker of a console with one approval comes to its end, whatever fails and
\* whenever the cancel lands.
RunEnds == (once /\ at = "ensure") ~> (at = "done")

\* Of a console with one approval: a cancel that was accepted ends in an outcome
\* the operator can see.
CancelSettles == (once /\ workflow = "CANCELLING") ~> (workflow # "CANCELLING")

=============================================================================
