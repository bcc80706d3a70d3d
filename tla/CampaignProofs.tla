--------------------------- MODULE CampaignProofs ---------------------------
(***************************************************************************)
(* Inv (CampaignInv) is inductive, and what follows from it: a motion has  *)
(* an owner (MotionIsOwned), the history is true (OutcomeIsTrue) and an    *)
(* intent opens only when it is earned (NextIsEarned), for every number of *)
(* slots, every quota and every number of changes to the scene.            *)
(*                                                                         *)
(* The argument: at most one of the two motions is possible at a step of   *)
(* the worker, and the requests that run beside it take from a session but *)
(* never give (Request).  A turn of the worker keeps the order of the runs *)
(* until it leaves, either failed (FailedTurn) or as a PASS, which only an *)
(* episode that was committed comes to.                                    *)
(***************************************************************************)
EXTENDS CampaignInv, FiniteSetTheorems, SequenceTheorems, TLAPS

Campaigns == [state : CampaignStates, error : Codes, index : 0..Slots, scene : Scenes]
Sessions == [exists : BOOLEAN, cancelled : BOOLEAN, starting : BOOLEAN, owner : BOOLEAN,
             child : BOOLEAN, tried : BOOLEAN, error : Codes]
Jobs == [state : JobStates, moving : BOOLEAN]

-----------------------------------------------------------------------------
(* The campaign and the session *)

\* A campaign that ends keeps its place.
LEMMA CampaignFacts ==
  ASSUME TypeOK, NEW error \in Codes
  PROVE  /\ Fault(campaign, error) \in Campaigns
         /\ Fault(campaign, error).index = campaign.index
         /\ Fault(campaign, error).scene = campaign.scene
         /\ Fault(campaign, error).state \in {campaign.state, "BLOCKED"}
         /\ ~Live(campaign) => Fault(campaign, error) = campaign
         /\ CancelCampaign(campaign) \in Campaigns
         /\ CancelCampaign(campaign).index = campaign.index
         /\ CancelCampaign(campaign).scene = campaign.scene
         /\ CancelCampaign(campaign).state \in {campaign.state, "CANCELLED"}
         /\ ~Live(campaign) => CancelCampaign(campaign) = campaign
BY DEF Campaigns, TypeOK, Fault, CancelCampaign, Live, CampaignStates, Codes

\* What a cancel of the child may leave of it.
LEMMA JobCancelsFacts ==
  ASSUME NEW j \in Jobs, NEW j2 \in JobCancels(j), j.moving => j.state # "PLANNED"
  PROVE  /\ j2 \in Jobs
         /\ j2.moving => j.moving
         /\ j2 # j => j.state \in {"PLANNED", "RUNNING"} /\ j2.state \in {"ABORTED", "BLOCKED"}
         /\ j.state = "PLANNED" => j2.state \in {"ABORTED", "BLOCKED"}
         /\ j2.state = "RUNNING" => j2 = j
         /\ j2.moving => j2.state = "BLOCKED" \/ j2 = j
<1>1. {"ABORTED", "BLOCKED", "RUNNING", "PLANNED"} \subseteq JobStates
  BY DEF JobStates, TERMINAL_CHILD_STATES, Settled
<1>2. CASE j.state = "PLANNED"
  <2>1. JobCancels(j) = {[j EXCEPT !.state = "ABORTED"], [j EXCEPT !.state = "BLOCKED"]}
    BY <1>2 DEF JobCancels
  <2>2. CASE j2 = [j EXCEPT !.state = "ABORTED"]
    <3>1. j2 \in Jobs /\ j2.state = "ABORTED" /\ j2.moving = j.moving BY <1>1, <2>2 DEF Jobs
    <3> QED BY <1>2, <3>1
  <2>3. CASE j2 = [j EXCEPT !.state = "BLOCKED"] BY <1>1, <1>2, <2>3 DEF Jobs
  <2> QED BY <2>1, <2>2, <2>3
<1>3. CASE j.state = "RUNNING"
  <2>1. JobCancels(j) = {[state |-> "ABORTED", moving |-> FALSE], [j EXCEPT !.state = "BLOCKED"], j}
    BY <1>3 DEF JobCancels
  <2>2. CASE j2 = [state |-> "ABORTED", moving |-> FALSE] BY <1>1, <1>3, <2>2 DEF Jobs
  <2>3. CASE j2 = [j EXCEPT !.state = "BLOCKED"] BY <1>1, <1>3, <2>3 DEF Jobs
  <2>4. CASE j2 = j BY <1>3, <2>4
  <2> QED BY <2>1, <2>2, <2>3, <2>4
<1>4. CASE j.state \notin {"PLANNED", "RUNNING"}
  <2>1. j2 = j BY <1>4 DEF JobCancels
  <2> QED BY <1>4, <2>1
<1> QED BY <1>2, <1>3, <1>4

\* Ending the child cancels the session and keeps the rest of it.
LEMMA TerminateFacts ==
  ASSUME NEW s \in Sessions, NEW j \in Jobs, NEW s2, NEW j2, TerminateActive(s, j, s2, j2),
         j.moving => j.state # "PLANNED"
  PROVE  /\ s2 \in Sessions /\ j2 \in Jobs
         /\ s2.exists = s.exists /\ s2.starting = s.starting /\ s2.owner = s.owner
         /\ s.cancelled => s2.cancelled
         /\ s2.child => s.child
         /\ s.child => s2.cancelled
         /\ ~s.child => s2 = s /\ j2 = j
         /\ j2.moving => j.moving
         /\ j2 # j => j.state \in {"PLANNED", "RUNNING"} /\ j2.state \in {"ABORTED", "BLOCKED"}
         /\ s.child /\ ~s.tried /\ j.state = "PLANNED" => j2.state # "PLANNED"
         /\ j2.moving => j2.state = "BLOCKED" \/ j2 = j
<1>1. CASE ~s.child BY <1>1 DEF TerminateActive
<1>2. CASE s.child
  <2>1. j2 = j \/ j2 \in JobCancels(j) BY <1>2 DEF TerminateActive
  <2>2. /\ j2 \in Jobs
        /\ j2.moving => j.moving
        /\ j2 # j => j.state \in {"PLANNED", "RUNNING"} /\ j2.state \in {"ABORTED", "BLOCKED"}
        /\ j2.moving => j2.state = "BLOCKED" \/ j2 = j
    BY <2>1, JobCancelsFacts
  <2>3. ~s.tried /\ j.state = "PLANNED" => j2.state # "PLANNED"
    BY <1>2, JobCancelsFacts DEF TerminateActive, Settled
  <2>4. /\ s2 \in Sessions /\ s2.exists = s.exists /\ s2.starting = s.starting
        /\ s2.owner = s.owner /\ s2.cancelled
    <3>1. CASE s2 = [s EXCEPT !.cancelled = TRUE, !.child = FALSE, !.tried = FALSE, !.error = "none"]
      BY <3>1 DEF Sessions, Codes
    <3>2. CASE s2 = [s EXCEPT !.cancelled = TRUE, !.tried = @ \/ j.state \notin Settled,
                              !.error = "child_uncertain"]
      <4>1. (s.tried \/ j.state \notin Settled) \in BOOLEAN OBVIOUS
      <4> QED BY <3>2, <4>1 DEF Sessions, Codes
    <3> QED BY <1>2, <3>1, <3>2 DEF TerminateActive
  <2> QED BY <1>2, <2>2, <2>3, <2>4
<1> QED BY <1>1, <1>2

-----------------------------------------------------------------------------
(* Requests of the operator, and what happens beside the worker *)

\* What a cancel does to a session, its campaign and its child.
LEMMA CancelFacts ==
  ASSUME Inv, CancelCampaignCall
  PROVE  /\ session' \in Sessions /\ job' \in Jobs /\ refused' \in BOOLEAN
         /\ campaign' \in Campaigns
         /\ campaign'.index = campaign.index /\ campaign'.scene = campaign.scene
         /\ campaign.state \notin {"READY", "ACTIVE"} => campaign' = campaign
         /\ session'.exists = session.exists /\ session'.starting = session.starting
         /\ session'.owner = session.owner
         /\ session.cancelled => session'.cancelled
         /\ refused' => refused \/ ~session.exists
         /\ session.exists /\ campaign.state \in {"READY", "ACTIVE"} => session'.cancelled
         /\ session'.child => session.child
         /\ ~session.child => job' = job
         /\ job'.moving => job.moving
         /\ job' # job => job.state \in {"PLANNED", "RUNNING"} /\ job'.state \in {"ABORTED", "BLOCKED"}
         /\ job'.moving => job'.state = "BLOCKED" \/ job' = job
         /\ session.exists /\ session.child /\ ~session.tried /\ job.state = "PLANNED"
              /\ ~session.starting /\ campaign.state \in {"READY", "ACTIVE"} => job'.state # "PLANNED"
<1> USE DEF Inv
<1>0. session \in Sessions /\ job \in Jobs /\ (job.moving => job.state # "PLANNED")
  BY DEF TypeOK, MotionInv, Sessions, Jobs
<1>1. CASE ~session.exists BY <1>0, <1>1 DEF CancelCampaignCall, Campaigns, TypeOK
<1>2. CASE session.exists /\ ~Live(campaign)
  BY <1>0, <1>2 DEF CancelCampaignCall, Campaigns, TypeOK, Live
<1>3. CASE session.exists /\ Live(campaign) /\ session.starting
  <2>1. session' = [session EXCEPT !.cancelled = TRUE] /\ UNCHANGED <<refused, campaign, job>>
    BY <1>3 DEF CancelCampaignCall
  <2>2. /\ session' \in Sessions /\ session'.cancelled /\ session'.exists = session.exists
        /\ session'.starting = session.starting /\ session'.owner = session.owner
        /\ session'.child = session.child
    BY <1>0, <2>1 DEF Sessions
  <2> QED BY <1>0, <1>3, <2>1, <2>2 DEF Campaigns, TypeOK
<1>4. CASE session.exists /\ Live(campaign) /\ ~session.starting
  <2> DEFINE s == [session EXCEPT !.cancelled = TRUE]
  <2>1. /\ s \in Sessions /\ s.exists = session.exists /\ s.starting = session.starting
        /\ s.owner = session.owner /\ s.child = session.child /\ s.tried = session.tried
        /\ s.cancelled = TRUE
    BY <1>0 DEF Sessions
  <2>2. /\ TerminateActive(s, job, session', job') /\ UNCHANGED refused
        /\ campaign' = IF session'.child THEN Fault(campaign, "child_uncertain")
                       ELSE CancelCampaign(campaign)
    BY <1>4 DEF CancelCampaignCall
  <2> HIDE DEF s
  <2>3. /\ session' \in Sessions /\ job' \in Jobs
        /\ session'.exists = session.exists /\ session'.starting = session.starting
        /\ session'.owner = session.owner /\ session'.cancelled
        /\ session'.child => session.child
        /\ ~session.child => job' = job
        /\ job'.moving => job.moving
        /\ job' # job => job.state \in {"PLANNED", "RUNNING"} /\ job'.state \in {"ABORTED", "BLOCKED"}
        /\ job'.moving => job'.state = "BLOCKED" \/ job' = job
        /\ session.child /\ ~session.tried /\ job.state = "PLANNED" => job'.state # "PLANNED"
    BY <1>0, <2>1, <2>2, TerminateFacts
  <2>4. /\ campaign' \in Campaigns
        /\ campaign'.index = campaign.index /\ campaign'.scene = campaign.scene
    BY <2>2, CampaignFacts DEF Codes
  <2> QED BY <1>4, <2>2, <2>3, <2>4 DEF Campaigns, TypeOK, Live
<1> QED BY <1>1, <1>2, <1>3, <1>4

\* A cancel takes from the session and the child, and gives neither anything.
LEMMA CancelOwnerStep ==
  ASSUME Inv, CancelOwner,
         workflow' \in {workflow, "CANCELLING"}, workflow = "TERMINAL" => workflow' = workflow,
         closer' \in {closer, "joining"}, closer = "open",
         UNCHANGED <<once, quota, run, bound, planned, history, at, outcome, seen, code, live, post,
                     used, goal, scene, changes, expired, committed>>
  PROVE  Inv'
<1> USE DEF Inv
<1>1. cancelRequested' = TRUE /\ choice' = "CANCEL" /\ button' = ClearedButton /\ checkpoint' = "closed"
      /\ CancelCampaignCall
  BY DEF CancelOwner
<1>2. TypeOK'
  BY <1>1, CancelFacts DEF TypeOK, Campaigns, Sessions, Jobs, ClearedButton, Workflows
<1>3. SessionInv' BY <1>1, CancelFacts DEF SessionInv, PassedTurn
<1>4. MotionInv' BY <1>1, CancelFacts DEF MotionInv, PassedTurn, TypeOK, Opened
<1>5. LiveInv'
  <2>1. at \in LiveSteps \cup {"report"} => session.exists /\ ~session.starting
    BY DEF SessionInv, MotionInv, Opened, LiveSteps
  <2> QED BY <1>1, <2>1, CancelFacts DEF LiveInv, LiveSteps
<1>6. OrderInv' BY <1>1, CancelFacts DEF OrderInv, PassedTurn
<1>7. HistoryInv' BY <1>1, CancelFacts DEF HistoryInv
<1>8. SceneInv' BY DEF SceneInv
<1> QED BY <1>2, <1>3, <1>4, <1>5, <1>6, <1>7, <1>8

\* Nothing happens.
LEMMA RestStep ==
  ASSUME Inv, UNCHANGED vars
  PROVE  Inv'
<1>1. /\ once' = once /\ quota' = quota /\ workflow' = workflow /\ cancelRequested' = cancelRequested
      /\ choice' = choice /\ run' = run /\ bound' = bound /\ button' = button
      /\ checkpoint' = checkpoint /\ planned' = planned /\ history' = history /\ closer' = closer
      /\ at' = at /\ outcome' = outcome /\ seen' = seen /\ code' = code /\ live' = live /\ post' = post
      /\ refused' = refused /\ session' = session /\ campaign' = campaign /\ used' = used
      /\ goal' = goal /\ job' = job /\ scene' = scene /\ changes' = changes /\ expired' = expired
      /\ committed' = committed
  BY DEF vars
<1>2. TypeOK' BY <1>1 DEF Inv, TypeOK
<1>3. SessionInv' BY <1>1 DEF Inv, SessionInv, PassedTurn
<1>4. MotionInv' BY <1>1 DEF Inv, MotionInv, PassedTurn
<1>5. LiveInv' BY <1>1 DEF Inv, LiveInv
<1>6. OrderInv' BY <1>1 DEF Inv, OrderInv, PassedTurn
<1>7. HistoryInv' BY <1>1 DEF Inv, HistoryInv
<1>8. SceneInv' BY <1>1 DEF Inv, SceneInv
<1> QED BY <1>2, <1>3, <1>4, <1>5, <1>6, <1>7, <1>8 DEF Inv

\* close leaves once the worker and the start transition have ended.
LEMMA CloseEndsStep ==
  ASSUME Inv, CloseEnds
  PROVE  Inv'
<1> USE DEF Inv, CloseEnds, world
<1>1. TypeOK' BY DEF TypeOK
<1>2. SessionInv' BY DEF SessionInv, PassedTurn
<1>3. MotionInv' BY DEF MotionInv, PassedTurn, Before, Moving, Planning, Driving, Opened, Accepted, LiveSteps
<1>4. LiveInv' BY DEF LiveInv, Before, Moving, Planning, Driving, Opened, Accepted, LiveSteps
<1>5. OrderInv' BY DEF OrderInv, PassedTurn, Before, Moving, Planning, Driving, Opened, Accepted, LiveSteps
<1>6. HistoryInv' BY DEF HistoryInv, Before, Moving, Planning, Driving, Opened, Accepted, LiveSteps
<1>7. SceneInv' BY DEF SceneInv, Before, Moving, Planning, Driving, Opened, Accepted, LiveSteps
<1> QED BY <1>1, <1>2, <1>3, <1>4, <1>5, <1>6, <1>7

\* A close that timed out.
LEMMA CloseFailsStep ==
  ASSUME Inv, CloseFails
  PROVE  Inv'
<1> USE DEF Inv, CloseFails, console, world
<1>1. TypeOK' BY DEF TypeOK
<1>2. SessionInv' BY DEF SessionInv, PassedTurn
<1>3. MotionInv' BY DEF MotionInv, PassedTurn, Before, Moving, Planning, Driving, Opened, Accepted, LiveSteps
<1>4. LiveInv' BY DEF LiveInv, Before, Moving, Planning, Driving, Opened, Accepted, LiveSteps
<1>5. OrderInv' BY DEF OrderInv, PassedTurn, Before, Moving, Planning, Driving, Opened, Accepted, LiveSteps
<1>6. HistoryInv' BY DEF HistoryInv, Before, Moving, Planning, Driving, Opened, Accepted, LiveSteps
<1>7. SceneInv' BY DEF SceneInv, Before, Moving, Planning, Driving, Opened, Accepted, LiveSteps
<1> QED BY <1>1, <1>2, <1>3, <1>4, <1>5, <1>6, <1>7

\* The draft is compiled.
LEMMA CompileDraftStep ==
  ASSUME Inv, CompileDraft
  PROVE  Inv'
<1> USE DEF Inv, CompileDraft, world
<1>1. TypeOK' BY DEF TypeOK, Workflows, Steps
<1>2. SessionInv' BY DEF SessionInv, PassedTurn
<1>3. MotionInv' BY DEF MotionInv, PassedTurn, Before, Moving, Planning, Driving, Opened, Accepted, LiveSteps
<1>4. LiveInv' BY DEF LiveInv, Before, Moving, Planning, Driving, Opened, Accepted, LiveSteps
<1>5. OrderInv' BY DEF OrderInv, PassedTurn, Before, Moving, Planning, Driving, Opened, Accepted, LiveSteps
<1>6. HistoryInv' BY DEF HistoryInv, Before, Moving, Planning, Driving, Opened, Accepted, LiveSteps
<1>7. SceneInv' BY DEF SceneInv, Before, Moving, Planning, Driving, Opened, Accepted, LiveSteps
<1> QED BY <1>1, <1>2, <1>3, <1>4, <1>5, <1>6, <1>7

\* The campaign is authorized.
LEMMA AuthorizeCampaignStep ==
  ASSUME Inv, AuthorizeCampaign
  PROVE  Inv'
<1> USE DEF Inv, AuthorizeCampaign, world
<1>1. TypeOK' BY DEF TypeOK, Workflows, Steps
<1>2. SessionInv' BY DEF SessionInv, PassedTurn
<1>3. MotionInv' BY DEF MotionInv, PassedTurn, Before, Moving, Planning, Driving, Opened, Accepted, LiveSteps
<1>4. LiveInv' BY DEF LiveInv, Before, Moving, Planning, Driving, Opened, Accepted, LiveSteps
<1>5. OrderInv' BY DEF OrderInv, PassedTurn, Before, Moving, Planning, Driving, Opened, Accepted, LiveSteps
<1>6. HistoryInv' BY DEF HistoryInv, Before, Moving, Planning, Driving, Opened, Accepted, LiveSteps
<1>7. SceneInv' BY DEF SceneInv, Before, Moving, Planning, Driving, Opened, Accepted, LiveSteps
<1> QED BY <1>1, <1>2, <1>3, <1>4, <1>5, <1>6, <1>7

\* The operator decides on the plan.
LEMMA DecidePlanStep ==
  ASSUME Inv, DecidePlan
  PROVE  Inv'
<1> USE DEF Inv, DecidePlan, world
<1>1. TypeOK' BY DEF TypeOK, Workflows
<1>2. SessionInv' BY DEF SessionInv, PassedTurn
<1>3. MotionInv' BY DEF MotionInv, PassedTurn, Before, Moving, Planning, Driving, Opened, Accepted, LiveSteps
<1>4. LiveInv' BY DEF LiveInv, Before, Moving, Planning, Driving, Opened, Accepted, LiveSteps
<1>5. OrderInv' BY DEF OrderInv, PassedTurn, Before, Moving, Planning, Driving, Opened, Accepted, LiveSteps
<1>6. HistoryInv' BY DEF HistoryInv, Before, Moving, Planning, Driving, Opened, Accepted, LiveSteps
<1>7. SceneInv' BY DEF SceneInv, Before, Moving, Planning, Driving, Opened, Accepted, LiveSteps
<1> QED BY <1>1, <1>2, <1>3, <1>4, <1>5, <1>6, <1>7

\* The operator answers a checkpoint.
LEMMA ResolveCheckpointStep ==
  ASSUME Inv, ResolveCheckpoint
  PROVE  Inv'
<1> USE DEF Inv, ResolveCheckpoint, world
<1>1. TypeOK' BY DEF TypeOK
<1>2. SessionInv' BY DEF SessionInv, PassedTurn
<1>3. MotionInv' BY DEF MotionInv, PassedTurn, Before, Moving, Planning, Driving, Opened, Accepted, LiveSteps
<1>4. LiveInv' BY DEF LiveInv, Before, Moving, Planning, Driving, Opened, Accepted, LiveSteps
<1>5. OrderInv' BY DEF OrderInv, PassedTurn, Before, Moving, Planning, Driving, Opened, Accepted, LiveSteps
<1>6. HistoryInv' BY DEF HistoryInv, Before, Moving, Planning, Driving, Opened, Accepted, LiveSteps
<1>7. SceneInv' BY DEF SceneInv, Before, Moving, Planning, Driving, Opened, Accepted, LiveSteps
<1> QED BY <1>1, <1>2, <1>3, <1>4, <1>5, <1>6, <1>7

\* The start transition's owner is let go.
LEMMA RefreshStartOwnerStep ==
  ASSUME Inv, RefreshStartOwner
  PROVE  Inv'
<1> USE DEF Inv, RefreshStartOwner, console, world
<1>1. TypeOK'
  <2>1. session \in Sessions BY DEF TypeOK, Sessions
  <2>2. session' \in Sessions BY <2>1 DEF Sessions
  <2> QED BY <2>2 DEF TypeOK, Sessions
<1>2. SessionInv' BY DEF SessionInv, PassedTurn
<1>3. MotionInv' BY DEF MotionInv, PassedTurn, Before, Moving, Planning, Driving, Opened, Accepted, LiveSteps
<1>4. LiveInv' BY DEF LiveInv, Before, Moving, Planning, Driving, Opened, Accepted, LiveSteps
<1>5. OrderInv' BY DEF OrderInv, PassedTurn, Before, Moving, Planning, Driving, Opened, Accepted, LiveSteps
<1>6. HistoryInv' BY DEF HistoryInv, Before, Moving, Planning, Driving, Opened, Accepted, LiveSteps
<1>7. SceneInv' BY DEF SceneInv, Before, Moving, Planning, Driving, Opened, Accepted, LiveSteps
<1> QED BY <1>1, <1>2, <1>3, <1>4, <1>5, <1>6, <1>7

\* The goal comes to its end.
LEMMA GoalEndsStep ==
  ASSUME Inv, GoalEnds
  PROVE  Inv'
<1> USE DEF Inv, GoalEnds, console
<1>1. TypeOK' BY DEF TypeOK
<1>2. SessionInv' BY DEF SessionInv, PassedTurn
<1>3. MotionInv' BY DEF MotionInv, PassedTurn, Before, Moving, Planning, Driving, Opened, Accepted, LiveSteps
<1>4. LiveInv' BY DEF LiveInv, Before, Moving, Planning, Driving, Opened, Accepted, LiveSteps
<1>5. OrderInv' BY DEF OrderInv, PassedTurn, Before, Moving, Planning, Driving, Opened, Accepted, LiveSteps
<1>6. HistoryInv' BY DEF HistoryInv, Before, Moving, Planning, Driving, Opened, Accepted, LiveSteps
<1>7. SceneInv' BY DEF SceneInv, Before, Moving, Planning, Driving, Opened, Accepted, LiveSteps
<1> QED BY <1>1, <1>2, <1>3, <1>4, <1>5, <1>6, <1>7

\* Another actor rewrites the scene.
LEMMA SceneChangesStep ==
  ASSUME Inv, SceneChanges
  PROVE  Inv'
<1> USE DEF Inv, SceneChanges, console
<1>1. TypeOK'
  <2>1. scene' \in Scenes /\ changes' \in 0..MaxChanges
    BY CampaignAssumption DEF TypeOK, SceneInv, Scenes, Runs
  <2> QED BY <2>1 DEF TypeOK
<1>2. SessionInv' BY DEF SessionInv, PassedTurn
<1>3. MotionInv' BY DEF MotionInv, PassedTurn, Before, Moving, Planning, Driving, Opened, Accepted, LiveSteps
<1>4. LiveInv' BY DEF LiveInv, Before, Moving, Planning, Driving, Opened, Accepted, LiveSteps
<1>5. OrderInv' BY DEF OrderInv, PassedTurn, Before, Moving, Planning, Driving, Opened, Accepted, LiveSteps
<1>6. HistoryInv' BY DEF HistoryInv, Before, Moving, Planning, Driving, Opened, Accepted, LiveSteps
<1>7. SceneInv' BY CampaignAssumption DEF SceneInv, TypeOK, Scenes, Runs
<1> QED BY <1>1, <1>2, <1>3, <1>4, <1>5, <1>6, <1>7

\* The campaign expires.
LEMMA ExpireStep ==
  ASSUME Inv, Expire
  PROVE  Inv'
<1> USE DEF Inv, Expire, console
<1>1. TypeOK' BY DEF TypeOK
<1>2. SessionInv' BY DEF SessionInv, PassedTurn
<1>3. MotionInv' BY DEF MotionInv, PassedTurn, Before, Moving, Planning, Driving, Opened, Accepted, LiveSteps
<1>4. LiveInv' BY DEF LiveInv, Before, Moving, Planning, Driving, Opened, Accepted, LiveSteps
<1>5. OrderInv' BY DEF OrderInv, PassedTurn, Before, Moving, Planning, Driving, Opened, Accepted, LiveSteps
<1>6. HistoryInv' BY DEF HistoryInv, Before, Moving, Planning, Driving, Opened, Accepted, LiveSteps
<1>7. SceneInv' BY DEF SceneInv, Before, Moving, Planning, Driving, Opened, Accepted, LiveSteps
<1> QED BY <1>1, <1>2, <1>3, <1>4, <1>5, <1>6, <1>7

\* cancel_session.
LEMMA CancelSessionStep ==
  ASSUME Inv, CancelSession
  PROVE  Inv'
<1>1. workflow # "TERMINAL" BY DEF CancelSession
<1> QED BY <1>1, CancelOwnerStep DEF CancelSession

\* close begins with a cancel, when there is a worker.
LEMMA CloseBeginsStep ==
  ASSUME Inv, CloseBegins
  PROVE  Inv'
<1>1. CASE at \notin {"none", "done"}
  BY <1>1, CancelOwnerStep DEF CloseBegins
<1>2. CASE at \in {"none", "done"}
  <2> USE DEF Inv, CloseBegins
  <2>1. TypeOK' BY <1>2 DEF TypeOK
  <2>2. SessionInv' BY <1>2 DEF SessionInv, PassedTurn
  <2>3. MotionInv' BY <1>2 DEF MotionInv, PassedTurn
  <2>4. LiveInv' BY <1>2 DEF LiveInv
  <2>5. OrderInv' BY <1>2 DEF OrderInv, PassedTurn
  <2>6. HistoryInv' BY <1>2 DEF HistoryInv
  <2>7. SceneInv' BY <1>2 DEF SceneInv
  <2> QED BY <2>1, <2>2, <2>3, <2>4, <2>5, <2>6, <2>7
<1> QED BY <1>1, <1>2

-----------------------------------------------------------------------------
(* The worker *)

\* The steps of a turn, told apart.
LEMMA StepFacts ==
  /\ Before \cap Opened = {} /\ Before \cap {"none", "publish", "done"} = {}
  /\ Opened \cap {"none", "publish", "done"} = {} /\ Accepted \cap (Before \cup Opened) = {}
  /\ Accepted \cap {"none", "publish", "done"} = {}
  /\ Before \cup Opened \cup Accepted \cup {"none", "publish", "done"} \subseteq Steps
  /\ LiveSteps \subseteq Opened /\ Moving \subseteq Before
  /\ Planning \subseteq LiveSteps /\ Driving \subseteq LiveSteps /\ Planning \cap Driving = {}
  /\ LiveSteps = Planning \cup Driving \cup {"accept"}
BY DEF Before, Opened, Accepted, Moving, Planning, Driving, LiveSteps, Steps

\* A turn that fails leaves the campaign where it was, and no motion of its
\* own that the session does not own.
LEMMA FailedTurn ==
  ASSUME Inv, at \in Before \cup Opened, Fails(campaign'),
         session' \in Sessions, session'.exists = session.exists,
         campaign' \in Campaigns, campaign'.index = campaign.index,
         campaign'.state = "CANCELLED" => cancelRequested,
         goal' = goal, goal = "moving" => session'.starting /\ session'.owner,
         job' \in Jobs, job'.state # "RUNNING",
         job'.moving => job'.state = "BLOCKED" /\ ~session'.starting,
         UNCHANGED <<once, quota, console, closer, seen, code, live, post, refused, used, scene,
                     changes, expired, committed>>
  PROVE  Inv'
<1>1. at' = "publish" /\ ~outcome'.ok /\ outcome'.state \in {campaign'.state, "none"}
  BY DEF Fails
<1>2. at \notin {"none", "publish", "done"} /\ at \notin Accepted /\ at \in Steps /\ "publish" \in Steps
      /\ "publish" \notin Before \cup Opened \cup Accepted \cup {"none", "done"}
      /\ "publish" \notin Planning \cup Driving \cup LiveSteps \cup Moving
  BY StepFacts
<1>3. outcome' \in [ok : BOOLEAN, state : CampaignStates \cup {"none"}, error : Codes]
  <2>1. campaign'.state \in CampaignStates /\ campaign'.error \in Codes BY DEF Campaigns
  <2>2. "none" \in Codes BY DEF Codes
  <2> QED BY <2>1, <2>2 DEF Fails
<1> USE DEF Inv, console
<1>4. TypeOK' BY <1>1, <1>2, <1>3 DEF TypeOK, Sessions, Jobs, Campaigns
<1>5. SessionInv' BY <1>1, <1>2 DEF SessionInv, PassedTurn
<1>6. MotionInv'
  <2>1. closer # "closed" BY <1>2 DEF SessionInv, PassedTurn
  <2> QED BY <1>1, <1>2, <2>1 DEF MotionInv, PassedTurn
<1>7. LiveInv' BY <1>1, <1>2 DEF LiveInv
<1>8. OrderInv'
  <2>1. campaign.index = run BY <1>2 DEF OrderInv
  <2> QED BY <1>1, <1>2, <2>1 DEF OrderInv, PassedTurn
<1>9. HistoryInv' BY <1>1, <1>2 DEF HistoryInv
<1>10. SceneInv' BY <1>1, <1>2 DEF SceneInv
<1> QED BY <1>4, <1>5, <1>6, <1>7, <1>8, <1>9, <1>10

\* A turn goes on before its intent opens.
LEMMA InTurn ==
  ASSUME Inv, at \in Before, at' \in Before, at' # "ensure",
         session' \in Sessions, session'.exists, ~refused,
         session'.cancelled = session.cancelled, session'.child = session.child,
         campaign' \in Campaigns, campaign'.index = campaign.index, campaign'.scene = campaign.scene,
         campaign'.state = "CANCELLED" => cancelRequested,
         seen' \in [scene : Scenes, fresh : BOOLEAN], at' = "open" => seen'.fresh,
         code' \in Codes, goal' \in {"none", "moving", "stopped"},
         goal' = "moving" => /\ session'.starting
                             /\ at' = "wait" \/ (at' = "settle" /\ code' = "uncertain") \/ session'.owner,
         at' \in Moving => session'.starting /\ ~session'.owner,
         at' \in {"send", "dispatch"} => goal' # "moving",
         UNCHANGED <<once, quota, console, closer, outcome, live, post, refused, used, job, scene,
                     changes, expired, committed>>
  PROVE  Inv'
<1>1. /\ at \notin {"none", "publish", "done"} \cup Accepted \cup Opened
      /\ at' \notin {"none", "publish", "done"} \cup Accepted \cup Opened
      /\ at \notin LiveSteps \cup {"report", "unwind"} /\ at' \notin LiveSteps \cup {"report", "unwind"}
      /\ at' \in Steps
  BY StepFacts DEF Opened
<1>2. at \notin Driving /\ at' \notin Driving BY <1>1, StepFacts
<1> USE DEF Inv, console
<1>4. TypeOK' BY <1>1 DEF TypeOK, Sessions, Campaigns
<1>5. SessionInv' BY <1>1 DEF SessionInv, PassedTurn
<1>6. MotionInv'
  <2>1. closer # "closed" BY <1>1 DEF SessionInv, PassedTurn
  <2>2. ~session.child /\ ~job.moving /\ job.state # "RUNNING" BY <1>1, <1>2 DEF MotionInv
  <2> QED BY <1>1, <1>2, <2>1, <2>2 DEF MotionInv, PassedTurn
<1>7. LiveInv'
  <2>1. at' \notin {"starting", "accept", "report"} BY <1>1 DEF LiveSteps
  <2> QED BY <1>1, <2>1 DEF LiveInv
<1>8. OrderInv'
  <2>1. at' \notin {"accept", "report"} BY <1>1 DEF LiveSteps
  <2> QED BY <1>1, <2>1 DEF OrderInv, PassedTurn
<1>9. HistoryInv' BY <1>1 DEF HistoryInv
<1>10. SceneInv' BY <1>1 DEF SceneInv
<1> QED BY <1>4, <1>5, <1>6, <1>7, <1>8, <1>9, <1>10

\* What a failing step finds before the intent opens.
LEMMA BeforeFacts ==
  ASSUME Inv, at \in Before, at \notin Moving
  PROVE  /\ session \in Sessions /\ job \in Jobs /\ campaign \in Campaigns
         /\ seen \in [scene : Scenes, fresh : BOOLEAN] /\ code \in Codes
         /\ goal \in {"none", "moving", "stopped"}
         /\ job.state # "RUNNING" /\ ~job.moving /\ ~session.child
         /\ campaign.state = "CANCELLED" => cancelRequested
         /\ goal = "moving" => session.starting /\ session.owner
         /\ at # "ensure" => session.exists /\ ~refused
<1>1. at \notin {"wait", "settle", "none", "publish", "done"} BY StepFacts DEF Moving
<1>2. at \notin Driving BY StepFacts
<1> QED BY <1>1, <1>2 DEF Inv, TypeOK, SessionInv, MotionInv, Sessions, Jobs, Campaigns

\* A turn that only fails before the intent opens.
LEMMA FailsBefore ==
  ASSUME Inv, at \in Before, at \notin Moving, Fails(campaign'), session' = session,
         campaign' \in {campaign, Fault(campaign, "failed")},
         UNCHANGED <<once, quota, console, closer, seen, code, live, post, refused, used, world>>
  PROVE  Inv'
<1>1. campaign' \in Campaigns /\ campaign'.index = campaign.index
      /\ (campaign'.state = "CANCELLED" => cancelRequested)
  BY BeforeFacts, CampaignFacts DEF Inv, Codes
<1> QED BY <1>1, BeforeFacts, FailedTurn DEF world

LEMMA EnsureStep ==
  ASSUME Inv, Ensure
  PROVE  Inv'
<1>1. at \in Before /\ at \notin Moving /\ "scene" \in Before /\ "scene" \notin Moving
  BY DEF Ensure, Before, Moving
<1>2. CASE Fails(campaign) /\ UNCHANGED session
  <2>1. Fails(campaign') BY <1>2 DEF Ensure, Fails
  <2> QED BY <1>1, <1>2, <2>1, FailsBefore DEF Ensure, UNCHANGEDTurn
<1>3. CASE /\ ~refused /\ campaign.state = "READY"
           /\ session' = [session EXCEPT !.exists = TRUE] /\ at' = "scene" /\ UNCHANGED outcome
  <2>1. /\ session' \in Sessions /\ session'.exists /\ session'.cancelled = session.cancelled
        /\ session'.child = session.child /\ session'.starting = session.starting
        /\ session'.owner = session.owner
    BY <1>1, <1>3, BeforeFacts DEF Sessions
  <2> QED BY <1>1, <1>3, <2>1, BeforeFacts, InTurn DEF Ensure, UNCHANGEDTurn, world
<1> QED BY <1>2, <1>3 DEF Ensure

LEMMA ReadSceneStep ==
  ASSUME Inv, ReadScene
  PROVE  Inv'
<1>1. at \in Before /\ at \notin Moving /\ at # "ensure" /\ "preflight" \in Before /\ "preflight" \notin Moving
  BY DEF ReadScene, Before, Moving
<1>2. CASE Fails(campaign) /\ UNCHANGED seen
  <2>1. Fails(campaign') BY <1>2 DEF ReadScene, Fails
  <2> QED BY <1>1, <1>2, <2>1, FailsBefore DEF ReadScene, UNCHANGEDTurn
<1>3. CASE seen' = [scene |-> scene, fresh |-> TRUE] /\ at' = "preflight" /\ UNCHANGED outcome
  <2>1. seen' \in [scene : Scenes, fresh : BOOLEAN] BY <1>3 DEF Inv, TypeOK
  <2> QED BY <1>1, <1>3, <2>1, BeforeFacts, InTurn DEF ReadScene, UNCHANGEDTurn, world
<1> QED BY <1>2, <1>3 DEF ReadScene

LEMMA PreflightStep ==
  ASSUME Inv, Preflight
  PROVE  Inv'
<1>1. at \in Before /\ at \notin Moving /\ at # "ensure" /\ "activate" \in Before /\ "activate" \notin Moving
  BY DEF Preflight, Before, Moving
<1>2. CASE Fails(campaign')
  BY <1>1, <1>2, FailsBefore DEF Preflight, UNCHANGEDTurn, Fails
<1>3. CASE at' = "activate" /\ UNCHANGED <<outcome, campaign>>
  BY <1>1, <1>3, BeforeFacts, InTurn DEF Preflight, UNCHANGEDTurn, world
<1> QED BY <1>2, <1>3 DEF Preflight, Fails

LEMMA ActivateStep ==
  ASSUME Inv, Activate
  PROVE  Inv'
<1>1. at \in Before /\ at \notin Moving /\ at # "ensure" /\ "bind" \in Before /\ "bind" \notin Moving
  BY DEF Activate, Before, Moving
<1>2. CASE Fails(campaign)
  BY <1>1, <1>2, FailsBefore DEF Activate, UNCHANGEDTurn, Fails
<1>3. CASE at' = "bind" /\ UNCHANGED outcome
  BY <1>1, <1>3, BeforeFacts, InTurn DEF Activate, UNCHANGEDTurn, world
<1> QED BY <1>2, <1>3 DEF Activate

LEMMA BindStep ==
  ASSUME Inv, Bind
  PROVE  Inv'
<1>1. /\ at \in Before /\ at \notin Moving /\ at # "ensure" /\ {"claim", "rescene"} \subseteq Before
      /\ "claim" \notin Moving /\ "rescene" \notin Moving
  BY DEF Bind, Before, Moving
<1>2. CASE Fails(campaign)
  BY <1>1, <1>2, FailsBefore DEF Bind, UNCHANGEDTurn, Fails
<1>3. CASE at' \in {"claim", "rescene"} /\ UNCHANGED outcome
  BY <1>1, <1>3, BeforeFacts, InTurn DEF Bind, UNCHANGEDTurn, world
<1> QED BY <1>2, <1>3 DEF Bind

\* The claim is made only where no goal is on its way.
LEMMA ClaimStep ==
  ASSUME Inv, Claim
  PROVE  Inv'
<1>1. at \in Before /\ at \notin Moving /\ at # "ensure" /\ "send" \in Before
  BY DEF Claim, Before, Moving
<1>2. CASE Fails(campaign) /\ UNCHANGED session
  BY <1>1, <1>2, FailsBefore DEF Claim, UNCHANGEDTurn, Fails
<1>3. CASE /\ Claimable /\ at' = "send" /\ UNCHANGED outcome
           /\ session' = [session EXCEPT !.starting = TRUE, !.owner = FALSE, !.error = "none"]
  <2>1. /\ session' \in Sessions /\ session'.exists = session.exists /\ session'.cancelled = session.cancelled
        /\ session'.child = session.child /\ session'.starting /\ ~session'.owner
    BY <1>1, <1>3, BeforeFacts DEF Sessions, Codes
  <2>2. goal # "moving" BY <1>1, <1>3, BeforeFacts DEF Claimable
  <2> QED BY <1>1, <1>3, <2>1, <2>2, BeforeFacts, InTurn DEF Claim, UNCHANGEDTurn, world
<1> QED BY <1>2, <1>3 DEF Claim

\* What the start transition finds.
LEMMA MovingFacts ==
  ASSUME Inv, at \in Moving
  PROVE  /\ session \in Sessions /\ job \in Jobs /\ campaign \in Campaigns
         /\ seen \in [scene : Scenes, fresh : BOOLEAN] /\ code \in Codes
         /\ goal \in {"none", "moving", "stopped"}
         /\ job.state # "RUNNING" /\ ~job.moving /\ ~session.child
         /\ campaign.state = "CANCELLED" \/ session.cancelled => cancelRequested
         /\ session.starting /\ ~session.owner /\ session.exists /\ ~refused
         /\ at \in {"send", "dispatch"} => goal # "moving"
         /\ at = "settle" /\ goal = "moving" => code = "uncertain"
<1>1. at \in Before /\ at \notin {"ensure", "none", "publish", "done"} BY StepFacts DEF Moving
<1>2. at \notin Driving BY <1>1, StepFacts
<1> QED BY <1>1, <1>2 DEF Inv, TypeOK, SessionInv, MotionInv, Sessions, Jobs, Campaigns

LEMMA SendStep ==
  ASSUME Inv, Send
  PROVE  Inv'
<1>1. /\ at \in Moving /\ at \in Before /\ at' \in Moving /\ at' \in Before /\ at' \in {"settle", "dispatch"}
      /\ goal # "moving" /\ code' \in Codes
  BY MovingFacts DEF Send, Before, Moving, Codes
<1> QED BY <1>1, MovingFacts, InTurn DEF Send, world

LEMMA DispatchStep ==
  ASSUME Inv, Dispatch
  PROVE  Inv'
<1>1. /\ at \in Moving /\ at \in Before /\ at' \in Moving /\ at' \in Before /\ at' \in {"settle", "wait"}
  BY DEF Dispatch, Before, Moving
<1>2. seen' \in [scene : Scenes, fresh : BOOLEAN] /\ code' \in Codes
  BY <1>1, MovingFacts DEF Dispatch, Codes
<1>3. goal' = "moving" => at' = "wait" BY <1>1, MovingFacts DEF Dispatch
<1>4. goal' \in {"none", "moving", "stopped"} BY <1>1, MovingFacts DEF Dispatch
<1> QED BY <1>1, <1>2, <1>3, <1>4, MovingFacts, InTurn DEF Dispatch

LEMMA WaitStep ==
  ASSUME Inv, Wait
  PROVE  Inv'
<1>1. /\ at \in Moving /\ at \in Before /\ at' \in Moving /\ at' \in Before /\ at' = "settle"
  BY DEF Wait, Before, Moving
<1>2. /\ code' \in Codes /\ goal' \in {"none", "moving", "stopped"}
      /\ goal' = "moving" => code' = "uncertain"
  BY <1>1, MovingFacts DEF Wait, Codes
<1> QED BY <1>1, <1>2, MovingFacts, InTurn DEF Wait

\* A goal that may still move keeps its owner when the transition ends.
LEMMA SettleStep ==
  ASSUME Inv, Settle
  PROVE  Inv'
<1>1. /\ at \in Moving /\ at \in Before /\ at = "settle" /\ "rescene" \in Before /\ "rescene" \notin Moving
  BY DEF Settle, Before, Moving
<1>2. /\ campaign' \in Campaigns /\ campaign'.index = campaign.index /\ campaign'.scene = campaign.scene
      /\ campaign'.state = "CANCELLED" => cancelRequested
  BY <1>1, MovingFacts, CampaignFacts DEF Settle, Finish, Seals, Inv
<1>3. /\ session' \in Sessions /\ session'.exists = session.exists /\ session'.child = session.child
      /\ session'.cancelled = session.cancelled
      /\ session'.starting = (code = "uncertain") /\ session'.owner = (code = "uncertain")
  <2> DEFINE uncertain == (code = "uncertain")
  <2> DEFINE e == IF ~Live(campaign) \/ (code = "none" /\ ~Seals(code)) THEN session.error
                  ELSE IF Seals(code) THEN "none" ELSE code
  <2>1. e \in Codes BY <1>1, MovingFacts DEF Sessions, Codes
  <2>2. session' = [session EXCEPT !.starting = uncertain, !.owner = uncertain, !.error = e]
    BY DEF Settle, Finish
  <2>3. uncertain \in BOOLEAN OBVIOUS
  <2>4. session \in Sessions BY <1>1, MovingFacts
  <2> HIDE DEF e, uncertain
  <2>5. /\ session' \in Sessions /\ session'.exists = session.exists /\ session'.child = session.child
        /\ session'.cancelled = session.cancelled
        /\ session'.starting = uncertain /\ session'.owner = uncertain
    BY <2>1, <2>2, <2>3, <2>4 DEF Sessions
  <2> QED BY <2>5 DEF uncertain
<1>4. CASE code = "none"
  <2>1. goal # "moving" /\ ~session'.starting BY <1>1, <1>3, <1>4, MovingFacts
  <2>2. at' = "rescene" /\ outcome' = outcome BY <1>4 DEF Settle
  <2> QED BY <1>1, <1>2, <1>3, <2>1, <2>2, MovingFacts, InTurn DEF Settle, UNCHANGEDTurn, world
<1>5. CASE code # "none"
  <2>1. Fails(campaign') BY <1>5 DEF Settle
  <2> QED BY <1>1, <1>2, <1>3, <2>1, MovingFacts, FailedTurn DEF Settle, UNCHANGEDTurn, world
<1> QED BY <1>4, <1>5

LEMMA ReadSceneAgainStep ==
  ASSUME Inv, ReadSceneAgain
  PROVE  Inv'
<1>1. at \in Before /\ at \notin Moving /\ at # "ensure" /\ "open" \in Before /\ "open" \notin Moving
  BY DEF ReadSceneAgain, Before, Moving
<1>2. CASE Fails(campaign) /\ UNCHANGED seen
  BY <1>1, <1>2, FailsBefore DEF ReadSceneAgain, UNCHANGEDTurn, Fails
<1>3. CASE seen' = [scene |-> scene, fresh |-> TRUE] /\ at' = "open" /\ UNCHANGED outcome
  <2>1. seen' \in [scene : Scenes, fresh : BOOLEAN] /\ seen'.fresh BY <1>3 DEF Inv, TypeOK
  <2> QED BY <1>1, <1>3, <2>1, BeforeFacts, InTurn DEF ReadSceneAgain, UNCHANGEDTurn, world
<1> QED BY <1>2, <1>3 DEF ReadSceneAgain

\* An intent opens with a child of its own, and nothing moving.
LEMMA OpenNextStep ==
  ASSUME Inv, OpenNext
  PROVE  Inv'
<1>1. at \in Before /\ at \notin Moving /\ at = "open" /\ at # "ensure"
  BY DEF OpenNext, Before, Moving
<1>2. CASE Fails(campaign') /\ campaign' \in {campaign, Fault(campaign, "failed")}
           /\ UNCHANGED <<session, used, job, bound, live>>
  BY <1>1, <1>2, FailsBefore DEF OpenNext, console, world
<1>3. CASE /\ Gate /\ Admits(campaign)
           /\ campaign' = [campaign EXCEPT !.state = "ACTIVE"]
           /\ used' = used \cup {run}
           /\ session' = [session EXCEPT !.child = TRUE, !.tried = FALSE, !.error = "none"]
           /\ job' = [state |-> "IDLE", moving |-> FALSE]
           /\ bound' = TRUE /\ live' = "none" /\ at' = "plan" /\ UNCHANGED outcome
  <2>1. /\ session' \in Sessions /\ session'.exists = session.exists /\ session'.cancelled = session.cancelled
        /\ session'.child /\ ~session'.tried /\ session'.starting = session.starting
        /\ session'.owner = session.owner
    BY <1>1, <1>3, BeforeFacts DEF Sessions, Codes
  <2>2. campaign' \in Campaigns /\ campaign'.index = campaign.index /\ campaign'.state = "ACTIVE"
    BY <1>1, <1>3, BeforeFacts DEF Campaigns, CampaignStates
  <2>3. job' \in Jobs /\ ~job'.moving /\ job'.state = "IDLE"
    BY <1>3 DEF Jobs, JobStates, TERMINAL_CHILD_STATES
  <2>4. ~session.cancelled /\ ~session.starting /\ goal # "moving"
    BY <1>1, <1>3, BeforeFacts DEF Gate
  <2>5. used = 0..(run - 1) /\ campaign.index = run /\ campaign.scene = post /\ run \in Runs
    BY <1>1 DEF Inv, OrderInv, TypeOK
  <2>6. used' = 0..run /\ used' \subseteq Runs
    BY <1>3, <2>5, CampaignAssumption DEF Runs
  <2>7. /\ "plan" \in LiveSteps /\ "plan" \in Opened /\ "plan" \in Planning /\ "plan" \in Steps
        /\ "plan" \notin Before \cup Accepted \cup Moving \cup Driving
    BY DEF LiveSteps, Opened, Planning, Steps, Before, Accepted, Moving, Driving
  <2> USE DEF Inv, OpenNext
  <2>8. TypeOK' BY <1>3, <2>1, <2>2, <2>3, <2>6, <2>7 DEF TypeOK, Sessions, Campaigns, Jobs
  <2>9. SessionInv' BY <1>1, <1>3, <2>1, <2>2 DEF SessionInv, PassedTurn
  <2>10. MotionInv' BY <1>1, <1>3, <2>1, <2>3, <2>4, <2>7 DEF MotionInv, PassedTurn, SessionInv
  <2>11. LiveInv' BY <1>3, <2>1, <2>2, <2>3 DEF LiveInv
  <2>12. OrderInv' BY <1>1, <1>3, <2>2, <2>5, <2>6, <2>7 DEF OrderInv, PassedTurn
  <2>13. HistoryInv' BY <1>1, <1>3, <2>7 DEF HistoryInv, Accepted
  <2>14. SceneInv' BY <1>1, <1>3 DEF SceneInv
  <2> QED BY <2>8, <2>9, <2>10, <2>11, <2>12, <2>13, <2>14
<1> QED BY <1>2, <1>3 DEF OpenNext

-----------------------------------------------------------------------------
(* The episode of an open intent *)

\* What a step of the episode finds.
LEMMA LiveFacts ==
  ASSUME Inv, at \in Opened
  PROVE  /\ session \in Sessions /\ job \in Jobs /\ campaign \in Campaigns
         /\ session.exists /\ ~session.starting /\ goal # "moving" /\ ~refused
         /\ campaign.index = run /\ used = 0..run /\ bound /\ run \in Runs
         /\ job.moving => job.state \in {"RUNNING", "BLOCKED"}
         /\ job.state = "RUNNING" \/ job.moving => at \in Driving \cup {"unwind"}
         /\ campaign.state = "CANCELLED" => cancelRequested
         /\ workflow # "TERMINAL" /\ Len(history) = run /\ closer # "closed"
         /\ at \notin Before \cup Accepted \cup {"none", "publish", "done"}
<1>1. at \notin Before \cup Accepted \cup {"none", "publish", "done"} BY StepFacts
<1>2. at \notin {"wait", "settle", "ensure"} BY <1>1 DEF Before
<1> QED BY <1>1, <1>2 DEF Inv, TypeOK, SessionInv, MotionInv, OrderInv, HistoryInv, Sessions, Jobs,
           Campaigns

\* A step of the episode that goes on, and neither commits nor leaves.
LEMMA GoesOn ==
  ASSUME Inv, at \in LiveSteps, at' \in Planning \cup Driving, at \in Planning \cup Driving,
         job' \in Jobs, job'.moving => job'.state \in {"RUNNING", "BLOCKED"},
         job'.state = "RUNNING" \/ job'.moving => at' \in Driving,
         at' = "starting" => ~session.cancelled \/ job'.state # "PLANNED",
         workflow' \in Workflows, workflow' # "TERMINAL",
         button' \in {"none", "pending", "APPROVE", "REJECT", "CANCEL"},
         checkpoint' \in {"none", "pending", "yes", "no", "closed"}, planned' \in BOOLEAN,
         UNCHANGED live, UNCHANGED liveFrame, UNCHANGED results
  PROVE  Inv'
<1>1. /\ at \in Opened /\ at' \in LiveSteps /\ at' \in Opened /\ at' \in Steps
      /\ at' \notin Before \cup Accepted \cup {"none", "publish", "done"}
      /\ at' \notin {"wait", "settle", "send", "dispatch", "ensure", "open"}
      /\ at' \notin {"accept", "report"} /\ at' \notin Moving
  BY StepFacts DEF Before, Moving, Planning, Driving
<1> USE DEF Inv, liveFrame, results
<1>2. TypeOK' BY <1>1 DEF TypeOK, Jobs
<1>3. SessionInv' BY <1>1, LiveFacts DEF SessionInv, PassedTurn
<1>4. MotionInv' BY <1>1, LiveFacts DEF MotionInv, PassedTurn
<1>5. LiveInv' BY <1>1 DEF LiveInv
<1>6. OrderInv' BY <1>1, LiveFacts DEF OrderInv, PassedTurn
<1>7. HistoryInv' BY <1>1, LiveFacts DEF HistoryInv
<1>8. SceneInv' BY <1>1 DEF SceneInv
<1> QED BY <1>2, <1>3, <1>4, <1>5, <1>6, <1>7, <1>8

\* run_live leaves.
LEMMA LiveEndsStep ==
  ASSUME Inv, at \in LiveSteps,
         NEW kinds \in SUBSET {"none", "paused", "cancelled", "failed"}, LiveEnds(kinds)
  PROVE  Inv'
<1>1. /\ at \in Opened /\ at' = "unwind" /\ at' \in Opened /\ at' \in Steps
      /\ at' \notin Before \cup Accepted \cup {"none", "publish", "done"}
      /\ at' \notin Planning \cup Driving \cup LiveSteps \cup Moving
  BY StepFacts DEF LiveEnds, Opened, Before, Accepted, Planning, Driving, LiveSteps, Moving
<1>2. job' \in Jobs /\ job'.state # "RUNNING" /\ (job'.moving => job'.state = "BLOCKED")
  <2>1. {"ABORTED", "BLOCKED", "COMMITTED_BLOCKED", "COMPLETE"} \subseteq JobStates
    BY DEF JobStates, TERMINAL_CHILD_STATES, Settled
  <2>2. job \in Jobs /\ (job.moving => job.state \in {"RUNNING", "BLOCKED"}) BY <1>1, LiveFacts
  <2>3. CASE job.state = "RUNNING"
    <3>1. CASE job' = [state |-> "ABORTED", moving |-> FALSE] BY <2>1, <3>1 DEF Jobs
    <3>2. CASE job' = [job EXCEPT !.state = "BLOCKED"]
      <4>1. job' \in Jobs /\ job'.state = "BLOCKED" BY <2>1, <2>2, <3>2 DEF Jobs
      <4> QED BY <4>1
    <3> QED BY <2>3, <3>1, <3>2 DEF LiveEnds
  <2>4. CASE job.state = "AWAITING_CELL_READY"
    <3>1. PICK to \in {"COMMITTED_BLOCKED", "COMPLETE"} : job' = [job EXCEPT !.state = to]
      BY <2>4 DEF LiveEnds
    <3>2. job' \in Jobs /\ job'.state = to /\ job'.moving = job.moving
      BY <2>1, <2>2, <3>1 DEF Jobs
    <3> QED BY <2>2, <2>4, <3>2
  <2>5. CASE job.state \notin {"RUNNING", "AWAITING_CELL_READY"} BY <2>2, <2>5 DEF LiveEnds
  <2> QED BY <2>3, <2>4, <2>5
<1>3. live' \in kinds /\ UNCHANGED ports /\ UNCHANGED results /\ UNCHANGED liveFrame BY DEF LiveEnds
<1> USE DEF Inv, liveFrame, results, ports
<1>4. TypeOK' BY <1>1, <1>2, <1>3 DEF TypeOK, Jobs
<1>5. SessionInv' BY <1>1, <1>3, LiveFacts DEF SessionInv, PassedTurn
<1>6. MotionInv' BY <1>1, <1>2, <1>3, LiveFacts DEF MotionInv, PassedTurn
<1>7. LiveInv' BY <1>1 DEF LiveInv
<1>8. OrderInv' BY <1>1, <1>3, LiveFacts DEF OrderInv, PassedTurn
<1>9. HistoryInv' BY <1>1, <1>3, LiveFacts DEF HistoryInv
<1>10. SceneInv' BY <1>1, <1>3 DEF SceneInv
<1> QED BY <1>4, <1>5, <1>6, <1>7, <1>8, <1>9, <1>10

\* The steps of the episode.
LEMMA StepNames ==
  /\ {"plan", "planning", "site", "siteWait", "decision", "decisionWait", "start", "starting"} = Planning
  /\ {"drive", "verdict", "verdictWait", "commit"} = Driving
  /\ Planning \cup Driving \subseteq LiveSteps /\ "accept" \in LiveSteps
  /\ {"none", "failed"} \in SUBSET {"none", "paused", "cancelled", "failed"}
  /\ {"paused"} \in SUBSET {"none", "paused", "cancelled", "failed"}
  /\ {"cancelled"} \in SUBSET {"none", "paused", "cancelled", "failed"}
BY DEF Planning, Driving, LiveSteps

\* What a step that goes on finds of the ports and the child.
LEMMA PortFacts ==
  ASSUME Inv, at \in LiveSteps
  PROVE  /\ workflow \in Workflows /\ workflow # "TERMINAL"
         /\ {"RUNNING", "AWAITING_APPROVAL"} \subseteq Workflows
         /\ button \in {"none", "pending", "APPROVE", "REJECT", "CANCEL"}
         /\ checkpoint \in {"none", "pending", "yes", "no", "closed"} /\ planned \in BOOLEAN
         /\ job \in Jobs /\ job.state \in JobStates /\ job.moving \in BOOLEAN
         /\ job.moving => job.state \in {"RUNNING", "BLOCKED"}
         /\ at \notin Driving => job.state # "RUNNING" /\ ~job.moving
<1>1. at \in Opened /\ at # "unwind" BY StepFacts DEF LiveSteps
<1> QED BY <1>1, LiveFacts DEF Inv, TypeOK, Jobs, Workflows

LEMMA PlanChildStep ==
  ASSUME Inv, PlanChild
  PROVE  Inv'
<1>1. at \in LiveSteps /\ at \in Planning /\ at \in Planning \cup Driving /\ at \notin Driving
  BY StepFacts, StepNames DEF PlanChild
<1>2. CASE LiveFails BY <1>1, <1>2, StepNames, LiveEndsStep DEF LiveFails
<1>3. CASE Goes("planning") /\ UNCHANGED <<ports, results, job>>
  <2>1. at' = "planning" /\ at' \in Planning \cup Driving BY <1>3, StepNames DEF Goes
  <2> QED BY <1>1, <1>3, <2>1, PortFacts, GoesOn DEF Goes, ports
<1>4. CASE Goes("site") /\ job' = [job EXCEPT !.state = "PLANNED"] /\ UNCHANGED <<ports, results>>
  <2>1. at' = "site" /\ at' \in Planning \cup Driving BY <1>4, StepNames DEF Goes
  <2>2. job' \in Jobs /\ job'.state = "PLANNED" /\ ~job'.moving
    BY <1>1, <1>4, PortFacts DEF Jobs, JobStates
  <2> QED BY <1>1, <1>4, <2>1, <2>2, PortFacts, GoesOn DEF Goes, ports
<1> QED BY <1>2, <1>3, <1>4 DEF PlanChild

LEMMA AskSiteStep ==
  ASSUME Inv, AskSite
  PROVE  Inv'
<1>1. at \in LiveSteps /\ at \in Planning /\ at \in Planning \cup Driving /\ at \notin Driving
  BY StepFacts, StepNames DEF AskSite
<1>2. CASE LiveFails BY <1>1, <1>2, StepNames, LiveEndsStep DEF LiveFails
<1>3. CASE Goes("decision") /\ UNCHANGED <<ports, results, job>>
  <2>1. at' = "decision" /\ at' \in Planning \cup Driving BY <1>3, StepNames DEF Goes
  <2> QED BY <1>1, <1>3, <2>1, PortFacts, GoesOn DEF Goes, ports
<1>4. CASE /\ Goes("siteWait") /\ checkpoint' = "pending" /\ workflow' = "RUNNING"
           /\ UNCHANGED <<button, planned, results, job>>
  <2>1. at' = "siteWait" /\ at' \in Planning \cup Driving BY <1>4, StepNames DEF Goes
  <2> QED BY <1>1, <1>4, <2>1, PortFacts, GoesOn DEF Goes
<1> QED BY <1>2, <1>3, <1>4 DEF AskSite

LEMMA HearSiteStep ==
  ASSUME Inv, HearSite
  PROVE  Inv'
<1>1. at \in LiveSteps /\ at \in Planning /\ at \in Planning \cup Driving /\ at \notin Driving
  BY StepFacts, StepNames DEF HearSite
<1>2. CASE LiveEnds({"paused"}) BY <1>1, <1>2, StepNames, LiveEndsStep
<1>3. CASE Goes("decision") /\ checkpoint' = "none" /\ UNCHANGED <<workflow, button, planned, results, job>>
  <2>1. at' = "decision" /\ at' \in Planning \cup Driving BY <1>3, StepNames DEF Goes
  <2> QED BY <1>1, <1>3, <2>1, PortFacts, GoesOn DEF Goes
<1> QED BY <1>2, <1>3 DEF HearSite

LEMMA AskDecisionStep ==
  ASSUME Inv, AskDecision
  PROVE  Inv'
<1>1. at \in LiveSteps /\ at \in Planning /\ at \in Planning \cup Driving /\ at \notin Driving
  BY StepFacts, StepNames DEF AskDecision
<1>2. CASE LiveFails BY <1>1, <1>2, StepNames, LiveEndsStep DEF LiveFails
<1>3. CASE /\ planned' \in BOOLEAN /\ Goes("start")
           /\ UNCHANGED <<workflow, button, checkpoint, results, job>>
  <2>1. at' = "start" /\ at' \in Planning \cup Driving BY <1>3, StepNames DEF Goes
  <2> QED BY <1>1, <1>3, <2>1, PortFacts, GoesOn DEF Goes
<1>4. CASE /\ button' = "pending" /\ planned' \in BOOLEAN
           /\ workflow' = "AWAITING_APPROVAL" /\ Goes("decisionWait")
           /\ UNCHANGED <<checkpoint, results, job>>
  <2>1. at' = "decisionWait" /\ at' \in Planning \cup Driving BY <1>4, StepNames DEF Goes
  <2>2. /\ workflow' \in Workflows /\ workflow' # "TERMINAL" /\ planned' \in BOOLEAN
        /\ button' \in {"none", "pending", "APPROVE", "REJECT", "CANCEL"}
    BY <1>1, <1>4, PortFacts
  <2>3. /\ checkpoint' = checkpoint /\ job' = job /\ UNCHANGED <<live, results>> /\ UNCHANGED liveFrame
    BY <1>4 DEF Goes
  <2> QED BY <1>1, <2>1, <2>2, <2>3, PortFacts, GoesOn
<1> QED BY <1>2, <1>3, <1>4 DEF AskDecision

LEMMA HearDecisionStep ==
  ASSUME Inv, HearDecision
  PROVE  Inv'
<1>1. at \in LiveSteps /\ at \in Planning /\ at \in Planning \cup Driving /\ at \notin Driving
  BY StepFacts, StepNames DEF HearDecision
<1>2. CASE LiveEnds({"cancelled"}) BY <1>1, <1>2, StepNames, LiveEndsStep
<1>3. CASE Goes("start") /\ UNCHANGED <<ports, results, job>>
  <2>1. at' = "start" /\ at' \in Planning \cup Driving BY <1>3, StepNames DEF Goes
  <2> QED BY <1>1, <1>3, <2>1, PortFacts, GoesOn DEF Goes, ports
<1> QED BY <1>2, <1>3 DEF HearDecision

\* The child starts only while it is planned, which a cancel has ended.
LEMMA StartChildStep ==
  ASSUME Inv, StartChild
  PROVE  Inv'
<1>1. at \in LiveSteps /\ at \in Planning /\ at \in Planning \cup Driving /\ at \notin Driving
  BY StepFacts, StepNames DEF StartChild
<1>2. CASE LiveFails BY <1>1, <1>2, StepNames, LiveEndsStep DEF LiveFails
<1>3. CASE LiveEnds({"cancelled"}) BY <1>1, <1>3, StepNames, LiveEndsStep
<1>4. CASE ~session.cancelled /\ Goes("starting") /\ UNCHANGED <<ports, results, job>>
  <2>1. at' = "starting" /\ at' \in Planning \cup Driving BY <1>4, StepNames DEF Goes
  <2> QED BY <1>1, <1>4, <2>1, PortFacts, GoesOn DEF Goes, ports
<1>5. CASE /\ job' = [state |-> "RUNNING", moving |-> TRUE] /\ Goes("drive") /\ UNCHANGED <<ports, results>>
  <2>1. at' = "drive" /\ at' \in Planning \cup Driving /\ at' \in Driving BY <1>5, StepNames DEF Goes
  <2>2. job' \in Jobs BY <1>5 DEF Jobs, JobStates
  <2> QED BY <1>1, <1>5, <2>1, <2>2, PortFacts, GoesOn DEF Goes, ports
<1> QED BY <1>2, <1>3, <1>4, <1>5 DEF StartChild

LEMMA DriveChildStep ==
  ASSUME Inv, DriveChild
  PROVE  Inv'
<1>1. at \in LiveSteps /\ at \in Planning \cup Driving BY StepNames DEF DriveChild
<1>2. CASE LiveFails BY <1>1, <1>2, StepNames, LiveEndsStep DEF LiveFails
<1>3. CASE Goes("verdict") /\ UNCHANGED <<ports, results, job>>
  <2>1. at' = "verdict" /\ at' \in Planning \cup Driving /\ at' \in Driving BY <1>3, StepNames DEF Goes
  <2> QED BY <1>1, <1>3, <2>1, PortFacts, GoesOn DEF Goes, ports
<1> QED BY <1>2, <1>3 DEF DriveChild

LEMMA AskVerdictStep ==
  ASSUME Inv, AskVerdict
  PROVE  Inv'
<1>1. at \in LiveSteps /\ at \in Planning \cup Driving BY StepNames DEF AskVerdict
<1>2. CASE LiveFails BY <1>1, <1>2, StepNames, LiveEndsStep DEF LiveFails
<1>3. CASE Goes("commit") /\ UNCHANGED <<ports, results, job>>
  <2>1. at' = "commit" /\ at' \in Planning \cup Driving /\ at' \in Driving BY <1>3, StepNames DEF Goes
  <2> QED BY <1>1, <1>3, <2>1, PortFacts, GoesOn DEF Goes, ports
<1>4. CASE /\ checkpoint' = "pending" /\ workflow' = "RUNNING" /\ Goes("verdictWait")
           /\ UNCHANGED <<button, planned, results, job>>
  <2>1. at' = "verdictWait" /\ at' \in Planning \cup Driving /\ at' \in Driving
    BY <1>4, StepNames DEF Goes
  <2> QED BY <1>1, <1>4, <2>1, PortFacts, GoesOn DEF Goes
<1> QED BY <1>2, <1>3, <1>4 DEF AskVerdict

LEMMA HearVerdictStep ==
  ASSUME Inv, HearVerdict
  PROVE  Inv'
<1>1. at \in LiveSteps /\ at \in Planning \cup Driving BY StepNames DEF HearVerdict
<1>2. CASE LiveFails BY <1>1, <1>2, StepNames, LiveEndsStep DEF LiveFails
<1>3. CASE Goes("commit") /\ checkpoint' = "none" /\ UNCHANGED <<workflow, button, planned, results, job>>
  <2>1. at' = "commit" /\ at' \in Planning \cup Driving /\ at' \in Driving BY <1>3, StepNames DEF Goes
  <2> QED BY <1>1, <1>3, <2>1, PortFacts, GoesOn DEF Goes
<1> QED BY <1>2, <1>3 DEF HearVerdict

\* The commit puts the run into the dataset and moves the scene on; the child
\* completes before the worker reports.
LEMMA CommitChildStep ==
  ASSUME Inv, CommitChild
  PROVE  Inv'
<1>1. at \in LiveSteps /\ at \in Opened /\ at \in {"commit", "accept"}
  BY StepNames, StepFacts DEF CommitChild
<1>2. CASE LiveFails BY <1>1, <1>2, StepNames, LiveEndsStep DEF LiveFails
<1>3. CASE /\ at = "commit" /\ job' = [state |-> "AWAITING_CELL_READY", moving |-> FALSE]
           /\ scene' = scene + 1 /\ post' = scene' /\ committed' = committed \cup {run}
           /\ Goes("accept") /\ UNCHANGED ports
  <2>1. /\ at' = "accept" /\ at' \in LiveSteps /\ at' \in Opened /\ at' \in Steps
        /\ at' \notin Before \cup Accepted \cup {"none", "publish", "done"} \cup Moving
        /\ at' \notin Planning \cup Driving
    BY <1>3 DEF Goes, LiveSteps, Opened, Steps, Before, Accepted, Moving, Planning, Driving
  <2>2. job' \in Jobs /\ ~job'.moving /\ job'.state = "AWAITING_CELL_READY" BY <1>3 DEF Jobs, JobStates
  <2>3. scene <= changes + run /\ run \in Runs /\ changes \in 0..MaxChanges /\ scene \in Scenes
    BY <1>3, StepNames DEF Inv, SceneInv, TypeOK
  <2>4. scene' \in Scenes /\ scene' <= changes + run + 1
    BY <1>3, <2>3, CampaignAssumption DEF Scenes, Runs
  <2>5. committed' \subseteq Runs /\ run \in committed' /\ committed \subseteq committed'
    BY <1>3, <2>3 DEF Inv, TypeOK
  <2>6. UNCHANGED liveFrame /\ UNCHANGED live BY <1>3 DEF Goes
  <2> USE DEF Inv, liveFrame, ports
  <2>7. TypeOK' BY <1>3, <2>1, <2>2, <2>4, <2>5, <2>6 DEF TypeOK, Jobs
  <2>8. SessionInv' BY <1>1, <2>1, <2>6, LiveFacts DEF SessionInv, PassedTurn
  <2>9. MotionInv' BY <1>1, <2>1, <2>2, <2>6, LiveFacts DEF MotionInv, PassedTurn
  <2>10. LiveInv' BY <1>1, <2>1, <2>2, <2>6 DEF LiveInv
  <2>11. OrderInv'
    <3>1. /\ used = 0..run /\ campaign.index = run /\ bound /\ 0..(campaign.index - 1) \subseteq committed
      BY <1>1, LiveFacts DEF OrderInv
    <3> QED BY <1>1, <2>1, <2>5, <2>6, <3>1 DEF OrderInv, PassedTurn
  <2>12. HistoryInv' BY <1>1, <1>3, <2>1, <2>6, LiveFacts DEF HistoryInv
  <2>13. SceneInv' BY <2>1, <2>4, <2>6 DEF SceneInv
  <2> QED BY <2>7, <2>8, <2>9, <2>10, <2>11, <2>12, <2>13
<1>4. CASE /\ at = "accept" /\ job' = [job EXCEPT !.state = "COMPLETE"] /\ Goes("report")
           /\ UNCHANGED <<ports, results>>
  <2>1. /\ at' = "report" /\ at' \in Opened /\ at' \in Steps /\ at' \notin LiveSteps
        /\ at' \notin Before \cup Accepted \cup {"none", "publish", "done"} \cup Moving
        /\ at' \notin Planning \cup Driving
    BY <1>4 DEF Goes, LiveSteps, Opened, Steps, Before, Accepted, Moving, Planning, Driving
  <2>2. job' \in Jobs /\ ~job'.moving /\ job'.state = "COMPLETE"
    <3>1. job \in Jobs /\ ~job.moving BY <1>1, <1>4, PortFacts, StepNames
    <3> QED BY <1>4, <3>1 DEF Jobs, JobStates, TERMINAL_CHILD_STATES, Settled
  <2>3. UNCHANGED liveFrame /\ UNCHANGED live BY <1>4 DEF Goes
  <2> USE DEF Inv, liveFrame, ports, results
  <2>7. TypeOK' BY <1>4, <2>1, <2>2, <2>3 DEF TypeOK, Jobs
  <2>8. SessionInv' BY <1>1, <2>1, <2>3, LiveFacts DEF SessionInv, PassedTurn
  <2>9. MotionInv' BY <1>1, <2>1, <2>2, <2>3, LiveFacts DEF MotionInv, PassedTurn
  <2>10. LiveInv' BY <1>1, <2>1, <2>2, <2>3 DEF LiveInv
  <2>11. OrderInv' BY <1>1, <1>4, <2>1, <2>3, LiveFacts DEF OrderInv, PassedTurn
  <2>12. HistoryInv' BY <1>1, <1>4, <2>1, <2>3, LiveFacts DEF HistoryInv
  <2>13. SceneInv' BY <1>4, <2>1, <2>3 DEF SceneInv
  <2> QED BY <2>7, <2>8, <2>9, <2>10, <2>11, <2>12, <2>13
<1> QED BY <1>2, <1>3, <1>4 DEF CommitChild

-----------------------------------------------------------------------------
(* The worker: the rest of its turn *)

\* The ways out of a turn keep the child's motion under the session.
LEMMA TerminatedTurn ==
  ASSUME Inv, at \in {"report", "unwind"}, TerminateActive(session, job, session', job')
  PROVE  /\ session' \in Sessions /\ session'.exists = session.exists
         /\ ~session'.starting
         /\ job' \in Jobs /\ job'.state # "RUNNING" /\ (job'.moving => job'.state = "BLOCKED")
<1>1. at \in Opened /\ at \notin Driving BY DEF Opened, Driving
<1>2. /\ session \in Sessions /\ job \in Jobs /\ ~session.starting
      /\ job.moving => job.state \in {"RUNNING", "BLOCKED"}
  BY <1>1, LiveFacts
<1>3. job.state # "RUNNING" BY <1>1 DEF Inv, MotionInv
<1> QED BY <1>2, <1>3, TerminateFacts

\* A PASS is taken only of a child that completed, whose run is committed.
LEMMA ReportStep ==
  ASSUME Inv, Report
  PROVE  Inv'
<1>1. at = "report" /\ at \in Opened /\ at \in Before \cup Opened BY DEF Report, Opened
<1>2. UNCHANGED <<once, quota, console, closer, seen, code, live, post, refused, used, goal, scene, changes,
                  expired, committed>>
  BY DEF Report
<1>3. job.state = "COMPLETE" /\ ~job.moving /\ job \in Jobs
  <2>1. job.state = "COMPLETE" BY <1>1 DEF Inv, LiveInv
  <2> QED BY <1>1, <2>1, LiveFacts
<1>4. CASE /\ campaign' = Fault(campaign, "failed") /\ Fails(campaign') /\ UNCHANGED <<session, job>>
  <2>1. /\ campaign' \in Campaigns /\ campaign'.index = campaign.index
        /\ campaign'.state = "CANCELLED" => cancelRequested
    BY <1>1, <1>4, LiveFacts, CampaignFacts DEF Inv, Codes
  <2> QED BY <1>1, <1>2, <1>3, <1>4, <2>1, LiveFacts, FailedTurn
<1>5. CASE /\ campaign' = [campaign EXCEPT !.state = "BLOCKED", !.error = "failed"]
           /\ TerminateActive(session, job, session', job') /\ Fails(campaign')
  <2>1. /\ campaign' \in Campaigns /\ campaign'.index = campaign.index /\ campaign'.state = "BLOCKED"
    BY <1>1, <1>5, LiveFacts DEF Campaigns, CampaignStates, Codes
  <2> QED BY <1>1, <1>2, <1>5, <2>1, LiveFacts, TerminatedTurn, FailedTurn
<1>6. CASE /\ campaign.state = "ACTIVE" /\ campaign' = Passed(campaign)
           /\ session' = [session EXCEPT !.child = FALSE, !.tried = FALSE] /\ session.child
           /\ outcome' = [ok |-> TRUE, state |-> campaign'.state, error |-> campaign'.error]
           /\ at' = "publish" /\ UNCHANGED job
  <2>1. /\ campaign \in Campaigns /\ campaign.index = run /\ run \in Runs /\ post \in Scenes
        /\ session \in Sessions
    BY <1>1, LiveFacts DEF Inv, TypeOK
  <2>2. /\ campaign' \in Campaigns /\ campaign'.index = run + 1 /\ campaign'.scene = post
        /\ campaign'.state \in {"READY", "COMPLETE"}
        /\ campaign'.state = "READY" => campaign'.index < Slots
        /\ campaign'.state = "COMPLETE" => campaign'.index = Slots
    <3> DEFINE to == IF campaign.index + 1 = Slots THEN "COMPLETE" ELSE "READY"
    <3>1. campaign' = [campaign EXCEPT !.index = @ + 1, !.scene = post, !.state = to]
      BY <1>6 DEF Passed
    <3>2. run \in 0..(Slots - 1) /\ Slots \in Nat /\ run + 1 \in 0..Slots
      BY <2>1, CampaignAssumption DEF Runs
    <3>3. to \in {"READY", "COMPLETE"} /\ (to = "COMPLETE" <=> run + 1 = Slots) BY <2>1
    <3>4. to \in CampaignStates BY <3>3 DEF CampaignStates
    <3> HIDE DEF to
    <3>5. /\ campaign' \in Campaigns /\ campaign'.index = run + 1 /\ campaign'.scene = post
          /\ campaign'.state = to
      BY <2>1, <3>1, <3>2, <3>4 DEF Campaigns
    <3> QED BY <3>2, <3>3, <3>5
  <2>3. /\ session' \in Sessions /\ session'.exists = session.exists
        /\ session'.cancelled = session.cancelled /\ ~session'.child
        /\ session'.starting = session.starting /\ session'.owner = session.owner
    BY <1>6, <2>1 DEF Sessions
  <2>4. /\ outcome' \in [ok : BOOLEAN, state : CampaignStates \cup {"none"}, error : Codes]
        /\ outcome'.ok /\ outcome'.state = campaign'.state
    BY <1>6, <2>2 DEF Campaigns
  <2>5. /\ at' \in Steps /\ at' \notin Before \cup Opened \cup Accepted \cup {"none", "done"}
        /\ at' \notin Moving \cup LiveSteps \cup Planning \cup Driving
        /\ at \notin {"none", "publish", "done", "ensure"} \cup Accepted
    BY <1>1, <1>6, StepFacts
  <2>6. run \in committed BY <1>1 DEF Inv, OrderInv
  <2>7. 0..(campaign'.index - 1) \subseteq committed
    <3>1. 0..(run - 1) \subseteq committed BY <2>1 DEF Inv, OrderInv
    <3>2. run \in Nat BY <2>1, CampaignAssumption DEF Runs
    <3> QED BY <2>2, <2>6, <3>1, <3>2
  <2> USE DEF Inv, console
  <2>8. TypeOK' BY <1>2, <1>6, <2>2, <2>3, <2>4, <2>5 DEF TypeOK, Campaigns, Sessions
  <2>9. SessionInv' BY <1>1, <1>2, <1>6, <2>2, <2>3, <2>4, <2>5, LiveFacts DEF SessionInv, PassedTurn
  <2>10. MotionInv' BY <1>1, <1>2, <1>3, <1>6, <2>3, <2>5, LiveFacts DEF MotionInv, PassedTurn
  <2>11. LiveInv' BY <1>6, <2>5 DEF LiveInv
  <2>12. OrderInv' BY <1>1, <1>2, <1>6, <2>2, <2>4, <2>5, <2>7, LiveFacts DEF OrderInv, PassedTurn
  <2>13. HistoryInv' BY <1>1, <1>2, <1>6, <2>5, LiveFacts DEF HistoryInv
  <2>14. SceneInv' BY <1>2, <2>5 DEF SceneInv
  <2> QED BY <2>8, <2>9, <2>10, <2>11, <2>12, <2>13, <2>14
<1> QED BY <1>4, <1>5, <1>6 DEF Report

LEMMA UnwindStep ==
  ASSUME Inv, Unwind
  PROVE  Inv'
<1>1. at = "unwind" /\ at \in Opened /\ at \in Before \cup Opened BY DEF Unwind, Opened
<1>2. /\ campaign' \in Campaigns /\ campaign'.index = campaign.index
      /\ campaign'.state = "CANCELLED" => cancelRequested
  BY <1>1, LiveFacts, CampaignFacts DEF Unwind, Inv, Codes
<1> QED BY <1>1, <1>2, LiveFacts, TerminatedTurn, FailedTurn DEF Unwind

\* A turn is published as what it came to.
LEMMA PublishStep ==
  ASSUME Inv, Publish
  PROVE  Inv'
<1>1. at = "publish" /\ UNCHANGED <<once, quota, cancelRequested, choice, run, bound, planned, closer, outcome,
                                    seen, code, live, post, refused, session, campaign, used, world>>
  BY DEF Publish
<1>2. /\ at \notin Before \cup Opened \cup Accepted \cup {"none", "done"} /\ closer # "closed"
      /\ at \notin Driving \cup LiveSteps
      /\ {"check", "done"} \subseteq Steps /\ "check" \in Accepted
      /\ "check" \notin Before \cup Opened \cup LiveSteps \cup Moving \cup Planning \cup Driving
      /\ "done" \notin Before \cup Opened \cup LiveSteps \cup Moving \cup Planning \cup Driving \cup Accepted
  <2>1. "check" \in Accepted BY DEF Accepted
  <2>2. closer # "closed" BY <1>1 DEF Inv, SessionInv
  <2> QED BY <1>1, <2>1, <2>2, StepFacts
<1>3. /\ Continues => at' = "check" /\ Verdict[1] = "PASS" /\ Verdict[2] = "RUNNING"
      /\ ~Continues => at' = "done"
  <2>1. ASSUME Continues PROVE Verdict = <<"PASS", "RUNNING">>
    <3>1. outcome.ok /\ ~cancelRequested /\ outcome.state = "READY" BY <2>1 DEF Continues
    <3>2. outcome.state # "BLOCKED" /\ outcome.state # "CANCELLED" BY <3>1
    <3>3. Verdict = <<"PASS", IF Continues THEN "RUNNING" ELSE "TERMINAL">>
      BY <3>1, <3>2 DEF Verdict
    <3>4. (IF Continues THEN "RUNNING" ELSE "TERMINAL") = "RUNNING" BY <2>1
    <3> QED BY <3>3, <3>4
  <2> QED BY <2>1 DEF Publish
<1>4. Verdict[1] \in Outcomes /\ Verdict[2] \in Workflows
  BY DEF Verdict, Outcomes, Workflows
<1>5. Verdict[1] = "PASS" => outcome.ok BY DEF Verdict
<1>6. Verdict[2] = "TERMINAL" /\ ~cancelRequested /\ live # "cancelled" =>
        outcome.ok /\ ~Continues
  BY DEF Verdict, Inv, SessionInv
<1>7. /\ run \in Runs /\ run \in Nat /\ history \in Seq([run : Runs, outcome : Outcomes]) /\ Len(history) = run
      /\ bound \in BOOLEAN
  BY <1>1, <1>2, CampaignAssumption DEF Inv, TypeOK, HistoryInv, Runs
<1>8. outcome.ok => /\ used = 0..run /\ campaign.index = run + 1 /\ campaign.scene = post /\ bound
                    /\ outcome.state \in {"READY", "COMPLETE"}
                    /\ outcome.state = "READY" => campaign.index < Slots
                    /\ outcome.state = "COMPLETE" => campaign.state = "COMPLETE" /\ campaign.index = Slots
                    /\ ~session.child /\ ~job.moving
  BY <1>1 DEF Inv, OrderInv, MotionInv, PassedTurn
<1>9. /\ history' \in Seq([run : Runs, outcome : Outcomes])
      /\ Len(history') \in {run, run + 1} /\ (bound => Len(history') = run + 1)
      /\ \A i \in 1..run : history'[i] = history[i]
      /\ Len(history') = run + 1 => history'[run + 1] = [run |-> run, outcome |-> Verdict[1]]
  <2> DEFINE e == [run |-> run, outcome |-> Verdict[1]]
  <2>1. e \in [run : Runs, outcome : Outcomes] BY <1>4, <1>7
  <2>2. history' = IF bound THEN Append(history, e) ELSE history BY DEF Publish
  <2> HIDE DEF e
  <2>3. /\ history' \in Seq([run : Runs, outcome : Outcomes])
        /\ Len(history') \in {run, run + 1} /\ (bound => Len(history') = run + 1)
        /\ \A i \in 1..run : history'[i] = history[i]
        /\ Len(history') = run + 1 => history'[run + 1] = e
    <3>1. CASE bound
      <4>1. history' = Append(history, e) BY <2>2, <3>1
      <4> QED BY <1>7, <2>1, <4>1
    <3>2. CASE ~bound
      <4>1. history' = history BY <2>2, <3>2
      <4> QED BY <1>7, <3>2, <4>1
    <3> QED BY <3>1, <3>2
  <2> QED BY <2>3 DEF e
<1> USE DEF Inv, world
<1>10. TypeOK'
  <2>1. /\ workflow' \in Workflows /\ checkpoint' = "closed" /\ at' \in Steps
        /\ button' \in {"none", "pending", "APPROVE", "REJECT", "CANCEL"}
    BY <1>2, <1>3, <1>4 DEF Publish, ClearedButton, TypeOK
  <2> QED BY <1>1, <1>9, <2>1 DEF TypeOK
<1>11. SessionInv'
  <2>1. Continues => session.exists /\ ~session.cancelled BY <1>1 DEF SessionInv, PassedTurn, Continues, Publish
  <2> QED BY <1>1, <1>2, <1>3, <2>1 DEF SessionInv, PassedTurn
<1>12. MotionInv' BY <1>1, <1>2, <1>3, <1>8 DEF MotionInv, PassedTurn, Continues
<1>13. LiveInv'
  <2>1. at' \notin LiveSteps \cup {"report", "starting", "accept"} BY <1>3 DEF LiveSteps
  <2> QED BY <2>1 DEF LiveInv
<1>14. OrderInv' BY <1>1, <1>2, <1>3, <1>8 DEF OrderInv, PassedTurn, Continues
<1>15. HistoryInv'
  <2>1. workflow' = Verdict[2] BY DEF Publish
  <2>2. ASSUME NEW i \in 1..run PROVE history'[i] = [run |-> i - 1, outcome |-> "PASS"]
    <3>1. history[i] = [run |-> i - 1, outcome |-> "PASS"] BY DEF HistoryInv
    <3> QED BY <1>9, <3>1
  <2>3. Len(history') = run + 1 =>
          /\ history'[run + 1].run = run
          /\ history'[run + 1].outcome = "PASS" => campaign.index = run + 1
    BY <1>5, <1>8, <1>9
  <2>4. at' \in Accepted => Len(history') = run + 1 /\ history'[run + 1].outcome = "PASS"
    <3>1. ASSUME at' \in Accepted PROVE Continues BY <1>2, <1>3, <3>1
    <3>2. ASSUME Continues PROVE Len(history') = run + 1 /\ history'[run + 1].outcome = "PASS"
      <4>1. bound /\ Verdict[1] = "PASS" BY <1>3, <1>8, <3>2 DEF Continues
      <4> QED BY <1>9, <4>1
    <3> QED BY <3>1, <3>2
  <2>5. workflow' = "TERMINAL" =>
          /\ at' = "done"
          /\ once /\ ~cancelRequested /\ live # "cancelled" =>
               campaign.state = "COMPLETE" /\ campaign.index = Slots /\ Len(history') = Slots
    <3>1. ASSUME workflow' = "TERMINAL" PROVE at' = "done" BY <1>3, <2>1, <3>1
    <3>2. ASSUME workflow' = "TERMINAL", once, ~cancelRequested, live # "cancelled"
          PROVE  campaign.state = "COMPLETE" /\ campaign.index = Slots /\ Len(history') = Slots
      <4>1. outcome.ok /\ ~Continues BY <1>6, <2>1, <3>2
      <4>2. outcome.state = "COMPLETE" BY <1>8, <3>2, <4>1 DEF Continues
      <4> QED BY <1>8, <1>9, <4>1, <4>2
    <3> QED BY <3>1, <3>2
  <2> QED BY <1>1, <1>3, <1>9, <2>2, <2>3, <2>4, <2>5, <1>2 DEF HistoryInv
<1>16. SceneInv' BY <1>1, <1>2, <1>3 DEF SceneInv
<1> QED BY <1>10, <1>11, <1>12, <1>13, <1>14, <1>15, <1>16

LEMMA CheckStep ==
  ASSUME Inv, Check
  PROVE  Inv'
<1>1. /\ at \in Accepted /\ at' \in {"done", "advance"} /\ at' \in Steps
      /\ at' \notin Before \cup Opened \cup LiveSteps \cup Moving \cup Planning \cup Driving
      /\ at \notin {"none", "ensure", "publish", "done", "wait", "settle"} \cup Driving
      /\ at' = "advance" => at' \in Accepted
      /\ at' = "done" => at' \notin Accepted
      /\ UNCHANGED <<once, quota, console, closer, outcome, seen, code, live, post, refused, session,
                     campaign, used, world>>
  BY StepFacts DEF Check, Accepted, Steps, Driving
<1> USE DEF Inv, console, world
<1>2. TypeOK' BY <1>1 DEF TypeOK
<1>3. SessionInv' BY <1>1 DEF SessionInv, PassedTurn
<1>4. MotionInv' BY <1>1 DEF MotionInv, PassedTurn
<1>5. LiveInv'
  <2>1. at' \notin LiveSteps \cup {"report", "starting", "accept"} BY <1>1 DEF LiveSteps
  <2> QED BY <2>1 DEF LiveInv
<1>6. OrderInv' BY <1>1 DEF OrderInv, PassedTurn
<1>7. HistoryInv' BY <1>1 DEF HistoryInv
<1>8. SceneInv' BY <1>1 DEF SceneInv
<1> QED BY <1>2, <1>3, <1>4, <1>5, <1>6, <1>7, <1>8

\* The next run has every earlier one behind it.
LEMMA AdvanceRunStep ==
  ASSUME Inv, AdvanceRun
  PROVE  Inv'
<1>1. /\ at \in Accepted /\ at' = "ensure" /\ at' \in Before /\ at' \in Steps
      /\ at' \notin Accepted \cup Opened \cup LiveSteps \cup Moving \cup Driving
      /\ at \notin {"none", "ensure", "publish", "done", "wait", "settle"} \cup Driving
      /\ run' = run + 1
      /\ UNCHANGED <<once, quota, workflow, cancelRequested, history, closer, outcome, seen, code, live,
                     post, refused, session, campaign, used, world>>
  BY StepFacts DEF AdvanceRun, Accepted, Before, Moving, Driving
<1>2. /\ used = 0..run /\ campaign.index = run + 1 /\ campaign.scene = post /\ campaign.index < Slots
      /\ 0..(campaign.index - 1) \subseteq committed
  BY <1>1 DEF Inv, OrderInv
<1>3. run \in Nat /\ run' \in Runs /\ changes \in Nat /\ scene \in Nat
  BY <1>1, <1>2, CampaignAssumption DEF Inv, TypeOK, Runs, Scenes
<1>4. Len(history) = run + 1 /\ history[run + 1].outcome = "PASS" /\ history[run + 1].run = run
  BY <1>1 DEF Inv, HistoryInv
<1>5. history \in Seq([run : Runs, outcome : Outcomes]) BY DEF Inv, TypeOK
<1> USE DEF Inv, world
<1>6. TypeOK'
  <2>1. /\ bound' = FALSE /\ choice' = "none" /\ planned' = FALSE
        /\ button' = "none" /\ checkpoint' = "none"
    BY DEF AdvanceRun
  <2>2. /\ once' = once /\ quota' = quota /\ workflow' = workflow /\ cancelRequested' = cancelRequested
        /\ history' = history /\ closer' = closer /\ outcome' = outcome /\ seen' = seen
        /\ code' = code /\ live' = live /\ post' = post /\ refused' = refused /\ session' = session
        /\ campaign' = campaign /\ used' = used /\ goal' = goal /\ job' = job /\ scene' = scene
        /\ changes' = changes /\ expired' = expired /\ committed' = committed
    BY <1>1
  <2>3. /\ at' \in Steps /\ run' \in Runs /\ bound' \in BOOLEAN /\ planned' \in BOOLEAN
        /\ choice' \in {"none", "APPROVE", "REJECT", "CANCEL"}
        /\ button' \in {"none", "pending", "APPROVE", "REJECT", "CANCEL"}
        /\ checkpoint' \in {"none", "pending", "yes", "no", "closed"}
    BY <1>1, <1>3, <2>1
  <2> HIDE DEF world
  <2> QED BY <2>2, <2>3 DEF TypeOK
<1>7. SessionInv' BY <1>1 DEF SessionInv, PassedTurn
<1>8. MotionInv' BY <1>1 DEF MotionInv, PassedTurn
<1>9. LiveInv' BY <1>1 DEF LiveInv
<1>10. OrderInv' BY <1>1, <1>2, <1>3 DEF OrderInv, PassedTurn
<1>11. HistoryInv'
  <2>1. history[run + 1] = [run |-> run, outcome |-> "PASS"]
    <3>1. run + 1 \in 1..Len(history) BY <1>3, <1>4
    <3>2. history[run + 1] \in [run : Runs, outcome : Outcomes] BY <1>5, <3>1, ElementOfSeq
    <3> QED BY <1>4, <3>2
  <2>2. ASSUME NEW i \in 1..run' PROVE history[i] = [run |-> i - 1, outcome |-> "PASS"]
    <3>1. CASE i \in 1..run BY <3>1 DEF HistoryInv
    <3>2. CASE i = run + 1 BY <1>3, <2>1, <3>2
    <3> QED BY <1>1, <1>3, <3>1, <3>2
  <2>3. workflow # "TERMINAL" BY <1>1 DEF HistoryInv
  <2> QED BY <1>1, <1>3, <1>4, <2>2, <2>3 DEF HistoryInv
<1>12. SceneInv' BY <1>1, <1>3 DEF SceneInv
<1> QED BY <1>6, <1>7, <1>8, <1>9, <1>10, <1>11, <1>12

-----------------------------------------------------------------------------
(* Inv is inductive *)

LEMMA InitInv == Init => Inv
<1> SUFFICES ASSUME Init PROVE Inv OBVIOUS
<1>1. /\ 0 \in Runs /\ 0 \in Scenes /\ 0 \in 0..MaxChanges /\ 0 \in 0..Slots /\ 0..(0 - 1) = {}
  BY CampaignAssumption DEF Runs, Scenes
<1>2. TypeOK
  <2>1. /\ "none" \in Codes /\ "READY" \in CampaignStates /\ "none" \in JobStates /\ "none" \in Steps
        /\ "AUTHORING" \in Workflows
    BY DEF Codes, CampaignStates, JobStates, Steps, Workflows
  <2>2. history \in Seq([run : Runs, outcome : Outcomes]) BY DEF Init
  <2>3. outcome \in [ok : BOOLEAN, state : CampaignStates \cup {"none"}, error : Codes]
    BY <2>1 DEF Init, NoOutcome
  <2>4. /\ session \in [exists : BOOLEAN, cancelled : BOOLEAN, starting : BOOLEAN, owner : BOOLEAN,
                        child : BOOLEAN, tried : BOOLEAN, error : Codes]
        /\ campaign \in [state : CampaignStates, error : Codes, index : 0..Slots, scene : Scenes]
        /\ job \in [state : JobStates, moving : BOOLEAN] /\ seen \in [scene : Scenes, fresh : BOOLEAN]
    BY <1>1, <2>1 DEF Init
  <2>5. /\ cancelRequested \in BOOLEAN /\ bound \in BOOLEAN /\ planned \in BOOLEAN /\ refused \in BOOLEAN
        /\ expired \in BOOLEAN
    BY DEF Init
  <2> QED BY <1>1, <2>1, <2>2, <2>3, <2>4, <2>5 DEF Init, TypeOK
<1>3. /\ "none" \notin Before \cup Opened \cup Accepted \cup LiveSteps \cup Planning \cup Driving \cup Moving
  BY StepFacts DEF Planning, Driving, LiveSteps
<1> USE DEF Init
<1>4. SessionInv BY DEF SessionInv, PassedTurn, NoOutcome
<1>5. MotionInv BY <1>3 DEF MotionInv, PassedTurn
<1>6. LiveInv BY <1>3 DEF LiveInv
<1>7. OrderInv BY <1>1, <1>3 DEF OrderInv, PassedTurn
<1>8. HistoryInv BY <1>3 DEF HistoryInv
<1>9. SceneInv BY <1>3 DEF SceneInv
<1> QED BY <1>2, <1>4, <1>5, <1>6, <1>7, <1>8, <1>9 DEF Inv

LEMMA NextInv == Inv /\ [Next]_vars => Inv'
<1> SUFFICES ASSUME Inv, [Next]_vars PROVE Inv' OBVIOUS
<1>1. CASE UNCHANGED vars BY <1>1, RestStep
<1>2. CASE Worker
  <2>1. CASE RunLive
    BY <2>1, PlanChildStep, AskSiteStep, HearSiteStep, AskDecisionStep, HearDecisionStep,
       StartChildStep, DriveChildStep, AskVerdictStep, HearVerdictStep, CommitChildStep DEF RunLive
  <2> QED BY <1>2, <2>1, EnsureStep, ReadSceneStep, PreflightStep, ActivateStep, BindStep, ClaimStep,
             SendStep, DispatchStep, WaitStep, SettleStep, ReadSceneAgainStep, OpenNextStep,
             ReportStep, UnwindStep, PublishStep, CheckStep, AdvanceRunStep DEF Worker
<1>3. CASE Operator
  BY <1>3, CompileDraftStep, AuthorizeCampaignStep, DecidePlanStep, ResolveCheckpointStep,
     CancelSessionStep, CloseBeginsStep, CloseFailsStep, CloseEndsStep DEF Operator
<1>4. CASE RefreshStartOwner \/ GoalEnds \/ SceneChanges \/ Expire
  BY <1>4, RefreshStartOwnerStep, GoalEndsStep, SceneChangesStep, ExpireStep
<1> QED BY <1>1, <1>2, <1>3, <1>4 DEF Next

\* Inv holds in every state.
THEOREM Invariance == Spec => []Inv
BY InitInv, NextInv, PTL DEF Spec

\* The variables keep their types.
THEOREM TypeCorrectness == Spec => []TypeOK
<1>1. Inv => TypeOK BY DEF Inv
<1> QED BY <1>1, Invariance, PTL

-----------------------------------------------------------------------------
(* What follows *)

LEMMA OwnedMotion == Inv => MotionIsOwned
<1> SUFFICES ASSUME Inv PROVE MotionIsOwned OBVIOUS
<1>1. closer = "closed" => at \in {"none", "done"} /\ at \notin Driving
  BY StepFacts DEF Inv, SessionInv, Driving
<1>2. Driving \subseteq LiveSteps BY StepFacts
<1> QED BY <1>1, <1>2 DEF Inv, MotionInv, MotionIsOwned

\* A motion always has an owner, and one at a time.
THEOREM MotionOwned == Spec => []MotionIsOwned
BY Invariance, OwnedMotion, PTL

LEMMA TrueOutcome == Inv => OutcomeIsTrue
<1> SUFFICES ASSUME Inv PROVE OutcomeIsTrue OBVIOUS
<1>1. /\ run \in Nat /\ campaign.index \in {run, run + 1} /\ Len(history) \in {run, run + 1}
      /\ 0..(campaign.index - 1) \subseteq committed
  BY CampaignAssumption DEF Inv, TypeOK, OrderInv, HistoryInv, Runs
<1>2. \A i \in 1..run : history[i] = [run |-> i - 1, outcome |-> "PASS"] BY Zenon DEF Inv, HistoryInv
<1>3. Len(history) = run + 1 =>
        /\ history[run + 1].run = run
        /\ history[run + 1].outcome = "PASS" => campaign.index = run + 1
  BY DEF Inv, HistoryInv
<1>4. ASSUME NEW k \in 1..Len(history)
      PROVE  history[k].run = k - 1 /\ (history[k].outcome = "PASS" => k <= campaign.index)
  <2>1. CASE k \in 1..run
    <3>1. history[k] = [run |-> k - 1, outcome |-> "PASS"] BY <1>2, <2>1
    <3> QED BY <1>1, <2>1, <3>1
  <2>2. CASE k = run + 1 /\ Len(history) = run + 1 BY <1>1, <1>3, <2>2
  <2> QED BY <1>1, <2>1, <2>2
<1>5. ASSUME NEW k \in 1..Len(history), history[k].outcome = "PASS"
      PROVE  history[k].run \in committed /\ k <= campaign.index
  <2>1. history[k].run = k - 1 /\ k <= campaign.index BY <1>4, <1>5
  <2>2. k - 1 \in 0..(campaign.index - 1) BY <1>1, <2>1
  <2> QED BY <1>1, <2>1, <2>2
<1>6. ASSUME NEW k \in 1..Len(history), NEW l \in 1..Len(history), k < l
      PROVE  history[k].run < history[l].run
  <2>1. history[k].run = k - 1 /\ history[l].run = l - 1 BY <1>4
  <2> QED BY <1>1, <1>6, <2>1
<1>7. ASSUME workflow = "TERMINAL", once, ~cancelRequested, live # "cancelled"
      PROVE  campaign.state = "COMPLETE" /\ Len(history) = Slots /\ 0..(Slots - 1) \subseteq committed
  <2>1. campaign.state = "COMPLETE" /\ campaign.index = Slots /\ Len(history) = Slots
    BY <1>7 DEF Inv, HistoryInv
  <2> QED BY <1>1, <2>1
<1>8. DOMAIN history = 1..Len(history) BY DEF Inv, TypeOK
<1>9. \A i \in DOMAIN history :
          /\ history[i].outcome = "PASS" => history[i].run \in committed /\ i <= campaign.index
          /\ \A j \in DOMAIN history : i < j => history[i].run < history[j].run
  BY <1>5, <1>6, <1>8, Zenon
<1>10. 0..(campaign.index - 1) \subseteq committed BY <1>1
<1> QED BY <1>7, <1>9, <1>10, Zenon DEF OutcomeIsTrue

\* What the operator reads of an episode is what happened to it.
THEOREM OutcomeTrue == Spec => []OutcomeIsTrue
BY Invariance, TrueOutcome, PTL

\* The step an intent opens with.
LEMMA OpensEarned ==
  ASSUME Inv, OpenNext, used' # used
  PROVE  /\ used' = 0..run /\ used = 0..(run - 1) /\ used \subseteq committed
         /\ seen.scene = post /\ seen.fresh
         /\ goal # "moving" /\ ~job.moving /\ Cardinality(used') <= quota
         /\ ~session.cancelled /\ ~refused
<1>1. at = "open" /\ at \in Before /\ at \notin Moving /\ at # "ensure"
  BY DEF OpenNext, Before, Moving
<1>2. Gate /\ Admits(campaign) /\ used' = used \cup {run} BY DEF OpenNext
<1>3. /\ used = 0..(run - 1) /\ campaign.index = run /\ campaign.scene = post /\ seen.fresh
      /\ 0..(campaign.index - 1) \subseteq committed /\ run \in Runs
  BY <1>1 DEF Inv, OrderInv, TypeOK
<1>4. run \in Nat /\ used' = 0..run /\ run \notin used /\ quota \in Nat
  BY <1>2, <1>3, CampaignAssumption DEF Runs, Inv, TypeOK
<1>5. Cardinality(used') <= quota
  <2>1. IsFiniteSet(used) /\ Cardinality(used) \in Nat
    BY <1>3, <1>4, FS_Interval, FS_CardinalityType
  <2>2. Cardinality(used') = Cardinality(used) + 1 BY <1>2, <1>4, <2>1, FS_AddElement
  <2> QED BY <1>2, <1>4, <2>1, <2>2 DEF Admits
<1> QED BY <1>1, <1>2, <1>3, <1>4, <1>5, BeforeFacts DEF Gate, Admits

\* No other step moves anything it should not.
LEMMA KeepsStill ==
  ASSUME Inv, [Next]_vars, ~OpenNext
  PROVE  /\ used' = used
         /\ session.cancelled \/ refused =>
              /\ job'.moving => job.moving
              /\ goal' = "moving" => goal = "moving" \/ at = "dispatch"
<1>1. CASE UNCHANGED vars BY <1>1 DEF vars
<1>2. CASE RunLive
  <2>1. UNCHANGED <<used, goal>> BY <1>2 DEF RunLive, PlanChild, AskSite, HearSite, AskDecision,
      HearDecision, StartChild, DriveChild, AskVerdict, HearVerdict, CommitChild, LiveFails, LiveEnds,
      Goes, liveFrame
  <2>2. at \in LiveSteps /\ at \in Opened
    BY <1>2, StepFacts DEF RunLive, PlanChild, AskSite, HearSite, AskDecision, HearDecision, StartChild,
      DriveChild, AskVerdict, HearVerdict, CommitChild, LiveSteps
  <2>3. job \in Jobs /\ ~refused BY <2>2, LiveFacts
  <2>4. ASSUME NEW kinds, LiveEnds(kinds) PROVE job'.moving => job.moving
    BY <2>3, <2>4 DEF LiveEnds, Jobs
  <2>5. CASE StartChild
    <3>1. at = "starting" /\ job.state = "PLANNED" => ~session.cancelled BY DEF Inv, LiveInv
    <3> QED BY <2>1, <2>3, <2>4, <2>5, <3>1 DEF StartChild, LiveFails
  <2>6. CASE PlanChild
    BY <2>1, <2>3, <2>4, <2>6 DEF PlanChild, LiveFails, Jobs
  <2>7. CASE CommitChild
    BY <2>1, <2>3, <2>4, <2>7 DEF CommitChild, LiveFails, Jobs
  <2>8. CASE AskSite \/ HearSite \/ AskDecision \/ HearDecision \/ DriveChild \/ AskVerdict \/ HearVerdict
    BY <2>1, <2>4, <2>8 DEF AskSite, HearSite, AskDecision, HearDecision, DriveChild, AskVerdict,
       HearVerdict, LiveFails
  <2> QED BY <1>2, <2>5, <2>6, <2>7, <2>8 DEF RunLive
<1>3. CASE CancelSession \/ CloseBegins
  <2>1. UNCHANGED <<used, goal>> BY <1>3 DEF CancelSession, CloseBegins
  <2>2. CancelCampaignCall \/ UNCHANGED job BY <1>3 DEF CancelSession, CloseBegins, CancelOwner
  <2> QED BY <2>1, <2>2, CancelFacts
<1>4. CASE Report \/ Unwind
  <2>1. at \in Opened BY <1>4 DEF Report, Unwind, Opened
  <2>2. /\ job \in Jobs /\ session \in Sessions
        /\ job.moving => job.state \in {"RUNNING", "BLOCKED"}
    BY <2>1, LiveFacts
  <2>3. TerminateActive(session, job, session', job') => (job'.moving => job.moving)
    BY <2>2, TerminateFacts
  <2>4. UNCHANGED <<used, goal>> BY <1>4 DEF Report, Unwind
  <2> QED BY <1>4, <2>3, <2>4 DEF Report, Unwind
<1>5. CASE Ensure \/ ReadScene \/ Preflight \/ Activate \/ Bind \/ Claim \/ Send \/ Settle \/ ReadSceneAgain
           \/ Publish \/ Check \/ AdvanceRun \/ CompileDraft \/ AuthorizeCampaign \/ DecidePlan
           \/ ResolveCheckpoint \/ CloseFails \/ CloseEnds \/ RefreshStartOwner \/ SceneChanges \/ Expire
  <2>1. UNCHANGED <<used, goal, job>>
    BY <1>5 DEF Ensure, ReadScene, Preflight, Activate, Bind, Claim, Send, Settle, ReadSceneAgain, Publish,
      Check, AdvanceRun, CompileDraft, AuthorizeCampaign, DecidePlan, ResolveCheckpoint, CloseFails,
      CloseEnds, RefreshStartOwner, SceneChanges, Expire, UNCHANGEDTurn, world
  <2> QED BY <2>1
<1>6. CASE Dispatch \/ Wait \/ GoalEnds
  BY <1>6 DEF Dispatch, Wait, GoalEnds
<1> QED BY <1>1, <1>2, <1>3, <1>4, <1>5, <1>6 DEF Next, Worker, Operator

\* An intent opens only when it is earned, and a cancel lets nothing begin.
THEOREM NextEarned == Spec => NextIsEarned
<1> DEFINE Earned ==
      /\ used' # used =>
            /\ used' = 0..run /\ used = 0..(run - 1) /\ used \subseteq committed
            /\ seen.scene = post /\ seen.fresh
            /\ goal # "moving" /\ ~job.moving /\ Cardinality(used') <= quota
      /\ session.cancelled \/ refused =>
            /\ used' = used
            /\ job'.moving => job.moving
            /\ goal' = "moving" => goal = "moving" \/ at = "dispatch"
<1>1. ASSUME Inv, [Next]_vars PROVE [Earned]_vars
  <2>1. CASE OpenNext
    <3>1. CASE used' = used
      <4>1. UNCHANGED <<job, goal>>
        <5>1. run \in used' \/ UNCHANGED job BY <2>1 DEF OpenNext
        <5>2. at = "open" /\ at \in Before BY <2>1 DEF OpenNext, Before
        <5>3. used = 0..(run - 1) /\ run \in Nat
          BY <1>1, <5>2, CampaignAssumption DEF Inv, OrderInv, TypeOK, Runs
        <5>4. run \notin used BY <5>3
        <5> QED BY <2>1, <3>1, <5>1, <5>4 DEF OpenNext
      <4> QED BY <3>1, <4>1
    <3>2. CASE used' # used
      BY <1>1, <2>1, <3>2, OpensEarned
    <3> QED BY <3>1, <3>2
  <2>2. CASE ~OpenNext
    BY <1>1, <2>2, KeepsStill
  <2> QED BY <2>1, <2>2
<1>2. Spec => [][Earned]_vars
  BY <1>1, Invariance, PTL DEF Spec
<1> QED BY <1>2 DEF NextIsEarned
=============================================================================
