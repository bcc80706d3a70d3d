------------------------------ MODULE EpisodeInv ------------------------------
(***************************************************************************)
(* The inductive invariant of an episode.  The coordinator knows its two   *)
(* children by what their channels told it, so each part below is about    *)
(* one side, the line between them, or what the coordinator may conclude.  *)
(***************************************************************************)
EXTENDS Episode

Ans(c) == chan[c].answer
MotionCalls == {"execute", "confirm", "grasp_verdict", "semantic_verdict"}

(***************************************************************************)
(* The executor: holds in the order of the route, each at rest             *)
(***************************************************************************)
SemanticLeg == IF plan.holds THEN 3 ELSE 1

RunOK(e) ==
    /\ e.state \in {"IDLE", "PLANNED", "APPROVED"} => e.leg = 1 /\ ~e.moving /\ e.semantic = "none"
    /\ e.state \in Holds => e.leg <= Len(Route) /\ e.state = Route[e.leg] /\ ~e.moving
    /\ e.state = "EXECUTING" => e.leg <= Len(Route) + 1
    /\ e.state = "COMPLETED" => e.leg >= Len(Route) /\ ~e.moving
    /\ e.state = "BLOCKED" /\ e.moving => ~e.certain
    /\ plan.holds /\ e.leg > 2 /\ e.state # "BLOCKED" => e.grasp = "PASS"
    /\ e.semantic # "none" => e.leg > SemanticLeg

ExecutorOK == RunOK(exe)

(***************************************************************************)
(* The recorder: it never goes back, and an end is an end                  *)
(***************************************************************************)
Sealed == rec.state \notin {"IDLE", "RECORDING"}

RecorderOK ==
    /\ rec.process = "running" =>
          /\ rec.state \notin RecorderEnds
          /\ Ans("recorder") # NoReply => rec.state = Ans("recorder").state
          /\ Request("recorder") = "begin" \/ (at = "begin" /\ ~sent) => rec.state = "IDLE"
          /\ Request("recorder") = "trim" \/ at \in {"firstrow", "trim"} => rec.state = "RECORDING"
    /\ at \in {"plan", "approve"} \/ (at = "idle" /\ job.state \in {"PLANNED", "APPROVED"}) =>
          /\ rec.process = "none" /\ rec.state = "IDLE" /\ ~job.leased
          /\ Request("recorder") = "none" /\ Ans("recorder") = NoReply
    /\ job.leased \/ at = "trim" => rec.wrote

(***************************************************************************)
(* The lines: a request is not yet answered, and an unread answer is to    *)
(* the last request                                                        *)
(***************************************************************************)
LinesOK ==
    /\ \A c \in Children :
          /\ Request(c) # "none" => chan[c].pending /\ Ans(c) = NoReply
          /\ Ans(c) # NoReply => chan[c].pending
    /\ Ans("recorder") # NoReply => Ans("recorder").state \in RecorderStates
    /\ Ans("executor") # NoReply => Ans("executor").state \in ExecutorStates
    /\ sent => /\ at # "idle" /\ chan[Target(at)].pending
               /\ Request(Target(at)) \in {"none", Command(at)}
    /\ beat # "none" => at = "freeze"
    /\ beat = "sent" => chan["executor"].pending /\ Request("executor") \in {"none", "heartbeat"}
    /\ at \in {"begin", "firstrow", "trim"} /\ ~sent =>
          Request("recorder") = "none" /\ Ans("recorder") = NoReply

(***************************************************************************)
(* What an answer tells is so when it is read, and after                   *)
(***************************************************************************)
RecorderHeard ==
    /\ \A s \in {job.recorder, Ans("recorder").state} :
          /\ s \in RecorderEnds => rec.state = s
          /\ s = "FROZEN" => Sealed
    /\ sent /\ at \in {"firstrow", "status"} /\ Ans("recorder") # NoReply =>
          /\ Ans("recorder").state \notin RecorderEnds
          /\ Ans("recorder").note = "none" => rec.wrote

ExecutorHeard ==
    /\ "COMPLETED" \in {job.executor, Ans("executor").state} => exe.state = "COMPLETED"
    /\ /\ Ans("executor").state = "BLOCKED"
       /\ Ans("executor").note \notin {"undurable", "cancel_error"}
       => exe.state = "BLOCKED" /\ ~exe.moving
    /\ Ans("executor").state = "SEMANTIC_VERDICT" =>
          exe.state \in {"SEMANTIC_VERDICT", "BLOCKED"} /\ ~exe.moving
    /\ sent /\ at = "semantic_verdict" /\ Is(Ans("executor"), "EXECUTING") => exe.semantic = choice
    /\ sent /\ at = "release_verdict" /\ Ans("executor") # NoReply =>
          /\ Ans("executor").state \in {"IDLE", "BLOCKED", "COMPLETED"}
          /\ Ans("executor").state = "BLOCKED" => ~exe.moving

(***************************************************************************)
(* The coordinator                                                         *)
(***************************************************************************)
\* What it has asked for fits what it has heard.
JobOK ==
    /\ at \in {"status", "heartbeat", "freeze"} => job.state \in ACTIVE_STATES
    /\ at = "semantic_verdict" => job.state = "SEMANTIC_VERDICT" /\ choice \in {"PASS", "FAIL"}
    /\ Request("executor") = "semantic_verdict" /\ exe.state # "COMPLETED" =>
          choice \in {"PASS", "FAIL"}
    /\ job.state = "SEMANTIC_VERDICT" \/ Request("executor") = "semantic_verdict" => Sealed
    /\ job.semantic # "none" => exe.semantic = job.semantic
    /\ job.recorder = "QUARANTINED_COMMIT" =>
          at = "idle" /\ job.state \in {"QUARANTINED_COMMIT", "BLOCKED"}
    /\ job.cancelError => at \in {"cancel", "abort.blind"} \/ (at = "idle" /\ job.state = "BLOCKED")
    /\ at = "abort.blind" => job.cancelError

\* No goal starts without the lease, nor once the stop is taken for confirmed.
MotionOK ==
    /\ at \in MotionCalls \/ Request("executor") = "execute" \/ job.state \in ACTIVE_STATES =>
          job.leased
    /\ at \in {"begin", "firstrow", "trim"} => ~job.leased
    /\ ~job.leased => exe.state \in {"IDLE", "PLANNED", "APPROVED"}
    /\ Request("executor") \in MotionCalls =>
          \/ sent /\ at = Request("executor")
          \/ at = "cancel" /\ ~sent
          \/ job.cancelError
          \/ exe.state = "COMPLETED"
    /\ at = "freeze" => exe.state \in {"SEMANTIC_VERDICT", "BLOCKED"} /\ ~exe.moving
    /\ (at = "abort" \/ Over) /\ ~job.cancelError => ~exe.moving

\* What is committed was a success, and the ends are those of the recorder.
EndsOK ==
    /\ at = "commit" \/ Request("recorder") = "commit" \/ rec.state = "COMMITTED" =>
          exe.state = "COMPLETED" /\ exe.semantic = "PASS"
    /\ at = "idle" /\ job.state \in {"AWAITING_CELL_READY", "COMPLETE"} => rec.state = "COMMITTED"
    /\ at = "idle" /\ job.state \in {"ABORTED", "QUARANTINED_COMMIT"} => rec.state = job.state

Consistent == ExecutorOK /\ RecorderOK /\ LinesOK /\ RecorderHeard /\ ExecutorHeard
              /\ JobOK /\ MotionOK /\ EndsOK

Inv == TypeOK /\ Consistent

===============================================================================
