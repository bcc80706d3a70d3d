---------------------------- MODULE CampaignInv ----------------------------
(***************************************************************************)
(* The inductive invariant of Campaign: what the session knows of a cancel *)
(* (SessionInv), which motion may be on its way at which step (MotionInv,  *)
(* LiveInv), and how far the runs, the campaign, the history and the scene *)
(* have come at each step of the worker (OrderInv, HistoryInv, SceneInv).  *)
(* TLC checks it on small instances, CampaignProofs proves it.             *)
(***************************************************************************)
EXTENDS Campaign

Before    == {"ensure", "scene", "preflight", "activate", "bind", "claim", "send", "dispatch",
              "wait", "settle", "rescene", "open"}
Moving    == {"send", "dispatch", "wait", "settle"}
Planning  == {"plan", "planning", "site", "siteWait", "decision", "decisionWait", "start", "starting"}
Driving   == {"drive", "verdict", "verdictWait", "commit"}
Opened    == LiveSteps \cup {"report", "unwind"}
Accepted  == {"check", "advance"}

\* The turn that is being published was a PASS.
PassedTurn == at = "publish" /\ outcome.ok

\* A session is cancelled by the operator, or by the worker on its way out.
SessionInv ==
    /\ session.exists => ~refused
    /\ at \notin {"none", "ensure", "publish", "done"} \/ PassedTurn => session.exists
    /\ session.cancelled => cancelRequested \/ (at \in {"publish", "done"} /\ ~outcome.ok)
    /\ campaign.state = "CANCELLED" \/ outcome.state = "CANCELLED" => cancelRequested
    /\ closer = "closed" => at \in {"none", "done"}

\* One motion at a time: the start transition's goal while the session has it
\* claimed, the child's arm only after an open intent.
MotionInv ==
    /\ goal = "moving" => /\ session.starting
                          /\ at = "wait" \/ (at = "settle" /\ code = "uncertain") \/ session.owner
    /\ at \in Moving => session.starting /\ ~session.owner
    /\ at \in {"send", "dispatch"} \/ closer = "closed" => goal # "moving"
    /\ at \in Opened => ~session.starting
    /\ job.moving => /\ job.state \in {"RUNNING", "BLOCKED"} /\ ~session.starting
                     /\ at \in Driving \cup {"unwind", "publish", "done"}
    /\ job.state = "RUNNING" => at \in Driving
    /\ at \in Before \cup Accepted \cup {"none"} \/ PassedTurn => ~session.child /\ ~job.moving

\* A cancel reaches the child that is open; one that is planned ends with it.
LiveInv ==
    /\ at \in LiveSteps \cup {"report"} /\ ~session.cancelled =>
         session.child /\ ~session.tried /\ campaign.state = "ACTIVE"
    /\ at = "starting" /\ job.state = "PLANNED" => ~session.cancelled
    /\ at = "accept" => job.state = "AWAITING_CELL_READY"
    /\ at = "report" => job.state = "COMPLETE"

\* Runs are used, committed and accepted in the order of the slots.
OrderInv ==
    /\ at \in Before \cup {"none"} => used = 0..(run - 1) /\ campaign.index = run /\ campaign.scene = post
    /\ at = "open" => seen.fresh
    /\ at \in Opened => used = 0..run /\ campaign.index = run /\ bound
    /\ at = "publish" /\ ~outcome.ok => campaign.index = run
    /\ at \in Accepted \/ PassedTurn =>
         /\ used = 0..run /\ campaign.index = run + 1 /\ campaign.scene = post /\ bound
         /\ outcome.ok /\ outcome.state \in {"READY", "COMPLETE"}
         /\ outcome.state = "READY" => campaign.index < Slots
         /\ outcome.state = "COMPLETE" => campaign.state = "COMPLETE" /\ campaign.index = Slots
    /\ at \in Accepted => outcome.state = "READY"
    /\ campaign.index \in {run, run + 1}
    /\ 0..(campaign.index - 1) \subseteq committed
    /\ at \in {"accept", "report"} => run \in committed

\* The history has a PASS for every earlier run, and at most one more entry.
HistoryInv ==
    /\ at \notin Accepted \cup {"done"} => Len(history) = run
    /\ at \in Accepted => Len(history) = run + 1 /\ history[run + 1].outcome = "PASS"
    /\ Len(history) \in {run, run + 1}
    /\ \A i \in 1..run : history[i] = [run |-> i - 1, outcome |-> "PASS"]
    /\ Len(history) = run + 1 =>
         /\ history[run + 1].run = run
         /\ history[run + 1].outcome = "PASS" => campaign.index = run + 1
    /\ workflow = "TERMINAL" =>
         /\ at = "done"
         /\ once /\ ~cancelRequested /\ live # "cancelled" =>
              campaign.state = "COMPLETE" /\ campaign.index = Slots /\ Len(history) = Slots

\* The scene has been rewritten by the commits and by others.
SceneInv ==
    /\ scene <= changes + run + 1
    /\ at \in Before \cup {"none"} \cup Planning \cup Driving => scene <= changes + run

Inv == /\ TypeOK /\ SessionInv /\ MotionInv /\ LiveInv /\ OrderInv /\ HistoryInv /\ SceneInv
=============================================================================
