---------------------------- MODULE EpisodeProofs ----------------------------
(***************************************************************************)
(* For every set of plans and every bound on faults, an episode keeps Inv, *)
(* and Inv gives what an episode promises.                                 *)
(*                                                                         *)
(* A call that ends reads a line and leaves the children alone (Frame), so *)
(* what the coordinator knew it still knows (Known), with what it was told *)
(* (Told); the lemmas RestKeeps, CallKeeps and AbortKeeps then say when it *)
(* may rest, call next or abort.  A step of a child changes that child and *)
(* its line: RecorderAnswersKeeps for a recorder that only goes forward    *)
(* (Advances), ExecutorKeeps and AnswerKeeps for a run that becomes        *)
(* another (Becomes), of which the coordinator's conclusions stay true     *)
(* (StaysTrue).  Every action of Next then has a lemma of its own.         *)
(***************************************************************************)
EXTENDS EpisodeInv, SequenceTheorems, TLAPS

USE DEF Holds, ACTIVE_STATES, OpenStates, RecorderEnds, RecorderStates, ExecutorStates,
        JobEnds, JobStates, Verdicts, Releases, RecorderCalls, ExecutorCalls, Calls, Children,
        Commands, Notes, MotionCalls

(***************************************************************************)
(* Types                                                                   *)
(***************************************************************************)
\* What a call may end with.
LEMMA OutcomeTyped ==
  ASSUME TypeOK, NEW call \in Calls, NEW written \in BOOLEAN, NEW r \in Outcomes(call, written)
  PROVE  /\ r \in Replies \cup {Raised, Late}
         /\ r = Late => faults < MaxFaults
<1>1. chan[Target(call)].answer \in Replies
  BY DEF TypeOK, Target, ChannelType
<1>2. Late \notin Replies /\ Late # Raised
  BY DEF Late, Raised, Reply, Replies
<1> QED BY <1>1, <1>2 DEF Outcomes

\* What the job knows after an answer.
LEMMA HeardTyped ==
  ASSUME TypeOK, LinesOK, NEW call \in Calls, NEW written \in BOOLEAN,
         NEW r \in Outcomes(call, written)
  PROVE  Heard(call, r) \in JobType
<1>1. CASE Failed(r)
  BY <1>1 DEF TypeOK, Heard, JobType, Failed
<1>2. CASE ~Failed(r)
  <2>1. Ans(Target(call)) # NoReply /\ r = Ans(Target(call))
    BY <1>2 DEF Outcomes, Failed, Ans
  <2>2. CASE call \in RecorderCalls
    <3>1. r.state \in RecorderStates
      BY <2>1, <2>2 DEF LinesOK, Target
    <3> QED BY <1>2, <2>2, <3>1 DEF TypeOK, Heard, JobType, Failed
  <2>3. CASE call \notin RecorderCalls
    <3>1. r.state \in ExecutorStates
      BY <2>1, <2>3 DEF LinesOK, Target
    <3> QED BY <1>2, <2>3, <3>1 DEF TypeOK, Heard, JobType, Failed
  <2> QED BY <2>2, <2>3
<1> QED BY <1>1, <1>2

\* The variables of the environment and of the line when a call ends.
LEMMA EndsTyped ==
  ASSUME TypeOK, NEW call \in Calls, NEW r \in Outcomes(call, sent), Ends(call, r)
  PROVE  /\ plan' \in Plans /\ sent' \in BOOLEAN /\ cancelled' \in BOOLEAN
         /\ runner' \in {"running", "closing.recorder", "closing.executor", "raised", "done"}
         /\ chan' \in [Children -> ChannelType]
         /\ rec' \in RecorderType /\ exe' \in ExecutorType
         /\ cell' \in {"READY", "IN_PROGRESS", "FAULT", "ACKNOWLEDGED"}
         /\ faults' \in 0..MaxFaults
<1>1. /\ plan' \in Plans /\ sent' \in BOOLEAN /\ cancelled' \in BOOLEAN
      /\ runner' \in {"running", "closing.recorder", "closing.executor", "raised", "done"}
      /\ rec' \in RecorderType /\ exe' \in ExecutorType
      /\ cell' \in {"READY", "IN_PROGRESS", "FAULT", "ACKNOWLEDGED"}
  BY DEF TypeOK, Ends, people, children
<1>2. chan' \in [Children -> ChannelType]
  <2>1. NoReply \in Replies
    BY DEF NoReply, Reply, Replies
  <2>2. Target(call) \in Children
    BY DEF Target
  <2> DEFINE c == Target(call)
               k == [chan[c] EXCEPT !.answer = NoReply, !.pending = FALSE]
  <2>4. k \in ChannelType
    BY <2>1, <2>2 DEF TypeOK, ChannelType
  <2>5. [chan EXCEPT ![c] = k] \in [Children -> ChannelType]
    BY <2>2, <2>4 DEF TypeOK
  <2>6. Read(c) \in [Children -> ChannelType]
    BY <2>5 DEF TypeOK, Read
  <2> QED BY <2>6 DEF TypeOK, Ends
<1>3. sent \in BOOLEAN
  BY DEF TypeOK
<1>4. faults' \in 0..MaxFaults
  BY <1>3, OutcomeTyped, MaxFaultsAssumption DEF TypeOK, Ends
<1> QED BY <1>1, <1>2, <1>4
(***************************************************************************)
(* A call that ends: the coordinator moves, nobody else does               *)
(***************************************************************************)
\* A line may lose its unread answer.
Lines == \A c \in Children :
    /\ chan'[c] \in ChannelType
    /\ chan'[c].request = chan[c].request
    /\ chan'[c].answer \in {NoReply, chan[c].answer}
    /\ chan'[c].request # "none" \/ chan'[c].answer # NoReply => chan'[c].pending

Frame == /\ plan' = plan /\ rec' = rec /\ exe' = exe
         /\ sent' = FALSE /\ beat' = "none" /\ Lines

\* The answer r was read.
Told(call, r) ==
    /\ sent /\ r \in Replies /\ r # NoReply /\ r = Ans(Target(call))
    /\ Request(Target(call)) = "none" /\ chan'[Target(call)].answer = NoReply

LEMMA EndsFrame ==
  ASSUME Inv, NEW call \in Calls, NEW r \in Outcomes(call, sent), Ends(call, r)
  PROVE  /\ at = call /\ sent' = FALSE
         /\ plan' = plan /\ rec' = rec /\ exe' = exe
         /\ Lines
         /\ ~Failed(r) => Told(call, r)
<1> DEFINE c == Target(call)
<1>1. c \in Children
  BY DEF Target
<1>2. \A d \in Children : chan[d] \in ChannelType
  BY DEF Inv, TypeOK
<1>3. \A d \in Children : /\ Request(d) # "none" => chan[d].pending /\ Ans(d) = NoReply
                          /\ Ans(d) # NoReply => chan[d].pending
  BY DEF Inv, Consistent, LinesOK
<1>4. NoReply \in Replies
  BY DEF NoReply, Reply, Replies
<1>5. /\ at = call /\ sent' = FALSE /\ plan' = plan /\ rec' = rec /\ exe' = exe
      /\ chan' = IF sent THEN Read(c) ELSE chan
  BY DEF Ends, children
<1>6. CASE sent /\ Ans(c) # NoReply
  <2> DEFINE k == [chan[c] EXCEPT !.answer = NoReply, !.pending = FALSE]
  <2>1. chan' = [chan EXCEPT ![c] = k]
    BY <1>5, <1>6 DEF Read, Ans
  <2>2. /\ k \in ChannelType /\ k.request = chan[c].request /\ k.answer = NoReply
    BY <1>1, <1>2, <1>4 DEF ChannelType
  <2>3. /\ chan'[c] = k /\ \A d \in Children \ {c} : chan'[d] = chan[d]
    BY <1>1, <2>1 DEF Inv, TypeOK
  <2>4. Request(c) = "none"
    BY <1>1, <1>3, <1>6
  <2>5. Lines
    BY <1>2, <1>3, <2>2, <2>3, <2>4 DEF Lines, Request, Ans
  <2>6. r = Ans(c)
    BY <1>6 DEF Outcomes, Ans
  <2>7. r \in Replies
    BY <1>1, <1>2, <2>6 DEF ChannelType, Ans
  <2> QED BY <1>5, <1>6, <2>2, <2>3, <2>4, <2>5, <2>6, <2>7 DEF Told
<1>7. CASE ~(sent /\ Ans(c) # NoReply)
  <2>1. chan' = chan
    BY <1>5, <1>7 DEF Read, Ans
  <2>2. Failed(r)
    BY <1>7 DEF Outcomes, Failed, Ans
  <2>3. Lines
    BY <1>2, <1>3, <2>1 DEF Lines, Request, Ans
  <2> QED BY <1>5, <2>2, <2>3
<1> QED BY <1>6, <1>7

\* What the job says of the children is so.
Known(j) ==
    /\ j \in JobType
    /\ j.executor = "COMPLETED" => exe.state = "COMPLETED"
    /\ j.recorder \in RecorderEnds => rec.state = j.recorder
    /\ j.recorder = "FROZEN" => Sealed
    /\ j.semantic # "none" => exe.semantic = j.semantic

LEMMA JobKnown == Inv => Known(job)
BY DEF Inv, TypeOK, Consistent, RecorderHeard, ExecutorHeard, JobOK, Known

\* Only what the job has heard of one child changes.
SameOtherwise(j) ==
    /\ j.state = job.state /\ j.leased = job.leased /\ j.cancelError = job.cancelError
    /\ j.rejected = job.rejected /\ j.grasp = job.grasp /\ j.semantic = job.semantic

LEMMA HeardKnown ==
  ASSUME Inv, NEW call \in Calls, NEW r \in Outcomes(call, sent), Ends(call, r)
  PROVE  /\ Known(Heard(call, r)) /\ SameOtherwise(Heard(call, r))
         /\ ~Failed(r) /\ call \in RecorderCalls \ {"freeze"} => Heard(call, r).recorder = r.state
         /\ ~Failed(r) /\ call \in ExecutorCalls => Heard(call, r).executor = r.state
         /\ Heard(call, r).recorder # job.recorder => call \in RecorderCalls
         /\ Failed(r) => Heard(call, r).recorder \in {job.recorder, "STATUS_UNCERTAIN"}
<1> DEFINE j == Heard(call, r)
<1>1. Known(job) /\ job \in JobType
  BY JobKnown DEF Inv, TypeOK
<1>2. j \in JobType
  BY HeardTyped DEF Inv, Consistent, TypeOK
<1>3. CASE Failed(r)
  BY <1>1, <1>2, <1>3 DEF Heard, Known, SameOtherwise, JobType, Failed
<1>4. CASE ~Failed(r)
  <2>1. r = Ans(Target(call))
    BY <1>4, EndsFrame DEF Told
  <2>2. CASE call = "freeze"
    BY <1>1, <1>4, <2>2 DEF Heard, SameOtherwise, Failed
  <2>3. CASE call \in RecorderCalls \ {"freeze"}
    <3>1. r = Ans("recorder")
      BY <2>1, <2>3 DEF Target
    <3>2. j = [job EXCEPT !.recorder = r.state]
      BY <1>4, <2>3 DEF Heard, Failed
    <3>3. /\ r.state \in RecorderEnds => rec.state = r.state
          /\ r.state = "FROZEN" => Sealed
      BY <3>1 DEF Inv, Consistent, RecorderHeard
    <3> QED BY <1>1, <1>2, <1>4, <2>3, <3>2, <3>3 DEF Known, SameOtherwise, JobType
  <2>4. CASE call \in ExecutorCalls
    <3>1. r = Ans("executor")
      BY <2>1, <2>4 DEF Target
    <3>2. j = [job EXCEPT !.executor = r.state]
      BY <1>4, <2>4 DEF Heard, Failed
    <3>3. r.state = "COMPLETED" => exe.state = "COMPLETED"
      BY <3>1 DEF Inv, Consistent, ExecutorHeard
    <3> QED BY <1>1, <1>2, <1>4, <2>4, <3>2, <3>3 DEF Known, SameOtherwise, JobType
  <2> QED BY <2>2, <2>3, <2>4
<1> QED BY <1>3, <1>4

\* Half of the invariant does not depend on where the coordinator goes, as long
\* as it asks for no command that needs a silent line.
LEMMA FrameKeeps ==
  ASSUME Inv, Frame, Known(job'),
         at' \in {"begin", "firstrow", "trim"} =>
           Request("recorder") = "none" /\ chan'["recorder"].answer = NoReply
  PROVE  ExecutorOK' /\ LinesOK' /\ RecorderHeard' /\ ExecutorHeard'
<1>1. ExecutorOK'
  BY DEF Inv, Consistent, ExecutorOK, RunOK, Frame, Route, SemanticLeg
<1>2. LinesOK'
  BY DEF Inv, Consistent, LinesOK, Frame, Lines, Request, Ans, NoReply, Reply
<1>3. RecorderHeard'
  BY DEF Inv, Consistent, RecorderHeard, Frame, Lines, Ans, NoReply, Reply, Known, Sealed
<1>4. ExecutorHeard'
  BY DEF Inv, Consistent, ExecutorHeard, Frame, Lines, Ans, NoReply, Reply, Known
<1> QED BY <1>1, <1>2, <1>3, <1>4

\* Everything but the job, the call and its verdict keeps its type.
Typed == /\ plan' \in Plans /\ sent' \in BOOLEAN /\ cancelled' \in BOOLEAN
         /\ beat' \in {"none", "sent", "failed"} /\ deadline' \in BOOLEAN /\ preserved' \in BOOLEAN
         /\ runner' \in {"running", "closing.recorder", "closing.executor", "raised", "done"}
         /\ chan' \in [Children -> ChannelType]
         /\ rec' \in RecorderType /\ exe' \in ExecutorType
         /\ cell' \in {"READY", "IN_PROGRESS", "FAULT", "ACKNOWLEDGED"}
         /\ faults' \in 0..MaxFaults

\* No goal is in flight, and none is on its way.
Quieted == Request("executor") \in MotionCalls => exe.state = "COMPLETED"
Still   == ~exe.moving /\ Quieted

\* When the coordinator may rest with job j in state s.
MayRest(j, s) ==
    /\ Known(j) /\ j.leased = job.leased /\ s \in JobStates
    /\ s \in {"PLANNED", "APPROVED"} => at \in {"plan", "approve"}
    /\ s \in ACTIVE_STATES => j.leased
    /\ s = "SEMANTIC_VERDICT" => Sealed
    /\ s # "BLOCKED" => ~j.cancelError
    /\ s # "QUARANTINED_COMMIT" /\ s # "BLOCKED" => j.recorder # "QUARANTINED_COMMIT"
    /\ s \in {"AWAITING_CELL_READY", "COMPLETE"} => rec.state = "COMMITTED"
    /\ s \in {"ABORTED", "QUARANTINED_COMMIT"} => rec.state = s
    /\ s \in JobEnds \cup {"AWAITING_CELL_READY"} => ~exe.moving \/ j.cancelError
    /\ Quieted \/ j.cancelError

\* When the coordinator may go on with call n and job j.
MayCall(j, n) ==
    /\ Known(j) /\ j.state = job.state /\ j.recorder # "QUARANTINED_COMMIT"
    /\ IF n \in {"firstrow", "trim"}
       THEN /\ rec.process = "running" => rec.state = "RECORDING"
            /\ Request("recorder") = "none" /\ chan'["recorder"].answer = NoReply
            /\ ~j.leased
       ELSE n \notin {"plan", "approve", "begin"}
    /\ n = "trim" => rec.wrote
    /\ j.leased # job.leased => j.leased /\ rec.wrote
    /\ n = "execute" => j.leased
    /\ n \notin {"confirm", "grasp_verdict", "semantic_verdict"}
    /\ n \in {"status", "heartbeat", "freeze"} => job.state \in ACTIVE_STATES
    /\ j.cancelError => n \in {"cancel", "abort.blind"}
    /\ n = "abort.blind" => j.cancelError
    /\ n = "cancel" \/ j.cancelError \/ Quieted
    /\ n = "freeze" => exe.state \in {"SEMANTIC_VERDICT", "BLOCKED"} /\ ~exe.moving
    /\ n = "abort" => ~exe.moving
    /\ n = "commit" => exe.state = "COMPLETED" /\ exe.semantic = "PASS"

LEMMA RestKeeps ==
  ASSUME Inv, Frame, Typed, NEW j, NEW s, MayRest(j, s), Rest(j, s)
  PROVE  Inv'
<1>1. j \in JobType
  BY DEF MayRest, Known
<1>2. job' = [j EXCEPT !.state = s] /\ at' = "idle" /\ choice' = choice
  BY DEF Rest
<1>3. /\ job' \in JobType /\ job'.state = s /\ job'.recorder = j.recorder
      /\ job'.executor = j.executor /\ job'.cancelError = j.cancelError /\ job'.leased = j.leased
      /\ job'.semantic = j.semantic
  BY <1>1, <1>2 DEF JobType, MayRest
<1>4. Known(job')
  BY <1>3 DEF MayRest, Known
<1>5. /\ Request("executor")' = Request("executor") /\ Request("recorder")' = Request("recorder")
      /\ Ans("recorder")' \in {NoReply, Ans("recorder")}
      /\ exe' = exe /\ rec' = rec /\ plan' = plan /\ sent' = FALSE
  BY DEF Frame, Lines, Request, Ans
<1>6. TypeOK'
  BY <1>2, <1>3 DEF Typed, Inv, TypeOK
<1>7. ExecutorOK' /\ LinesOK' /\ RecorderHeard' /\ ExecutorHeard'
  BY <1>2, <1>4, FrameKeeps
<1>8. RecorderOK'
  BY <1>2, <1>3, <1>5 DEF Inv, Consistent, RecorderOK, MayRest
<1>9. JobOK'
  BY <1>2, <1>3, <1>5 DEF Inv, Consistent, JobOK, MayRest, Known, Sealed
<1>10. MotionOK'
  BY <1>2, <1>3, <1>5 DEF Inv, Consistent, MotionOK, MayRest, Quieted, Over
<1>11. EndsOK'
  BY <1>2, <1>3, <1>5 DEF Inv, Consistent, EndsOK, MayRest
<1> QED BY <1>6, <1>7, <1>8, <1>9, <1>10, <1>11 DEF Inv, Consistent

LEMMA CallKeeps ==
  ASSUME Inv, Frame, Typed, NEW j, NEW n \in Calls, MayCall(j, n), Call(j, n)
  PROVE  Inv'
<1>1. job' = j /\ at' = n /\ choice' = choice
  BY DEF Call
<1>2. Known(job') /\ job' \in JobType
  BY <1>1 DEF MayCall, Known
<1>3. /\ Request("executor")' = Request("executor") /\ Request("recorder")' = Request("recorder")
      /\ Ans("recorder")' \in {NoReply, Ans("recorder")}
      /\ exe' = exe /\ rec' = rec /\ plan' = plan /\ sent' = FALSE
  BY DEF Frame, Lines, Request, Ans
<1>4. TypeOK'
  BY <1>1, <1>2 DEF Typed, Inv, TypeOK
<1>5. ExecutorOK' /\ LinesOK' /\ RecorderHeard' /\ ExecutorHeard'
  BY <1>1, <1>2, FrameKeeps DEF MayCall
<1>6. RecorderOK'
  BY <1>1, <1>3 DEF Inv, Consistent, RecorderOK, MayCall
<1>7. JobOK'
  BY <1>1, <1>3 DEF Inv, Consistent, JobOK, MayCall, Known, Sealed
<1>8. MotionOK'
  BY <1>1, <1>3 DEF Inv, Consistent, MotionOK, MayCall, Quieted, Over
<1>9. EndsOK'
  BY <1>1, <1>3 DEF Inv, Consistent, EndsOK, MayCall
<1> QED BY <1>4, <1>5, <1>6, <1>7, <1>8, <1>9 DEF Inv, Consistent

(***************************************************************************)
(* An abort, and what it does after the cancel                             *)
(***************************************************************************)
\* The calls an abort may come from, and the job it may start with.
MayAbort(j) ==
    /\ at \notin {"plan", "approve", "cancel", "abort", "abort.blind"}
    /\ at = "idle" => job.state \in ACTIVE_STATES
    /\ Known(j) /\ j.state = job.state /\ j.leased = job.leased
    /\ j.recorder = "QUARANTINED_COMMIT" => Still /\ ~j.cancelError

LEMMA DiscardKeeps ==
  ASSUME Inv, Frame, NEW j, NEW kept \in BOOLEAN, Discard(j, kept),
         preserved' \in BOOLEAN => Typed,
         Known(j), j.state = job.state, j.leased = job.leased,
         j.recorder # "QUARANTINED_COMMIT",
         ~j.cancelError => Still
  PROVE  Inv'
<1>1. Typed
  BY DEF Discard
<1>2. CASE j.cancelError /\ j.recorder \in OpenStates
  <2>1. MayCall(j, "abort.blind") /\ Call(j, "abort.blind")
    BY <1>2 DEF Discard, MayCall
  <2> QED BY <1>1, <2>1, CallKeeps
<1>3. CASE j.cancelError /\ j.recorder \notin OpenStates
  <2>1. MayRest(j, "BLOCKED") /\ Rest(j, "BLOCKED")
    BY <1>3 DEF Discard, MayRest
  <2> QED BY <1>1, <2>1, RestKeeps
<1>4. CASE ~j.cancelError /\ j.recorder = "STATUS_UNCERTAIN" /\ j.leased
  <2>1. MayRest(j, "BLOCKED") /\ Rest(j, "BLOCKED")
    BY <1>4 DEF Discard, MayRest, Still
  <2> QED BY <1>1, <2>1, RestKeeps
<1>5. CASE ~j.cancelError /\ ~(j.recorder = "STATUS_UNCERTAIN" /\ j.leased)
  <2>1. MayCall(j, "abort") /\ Call(j, "abort")
    BY <1>5 DEF Discard, MayCall, Still
  <2> QED BY <1>1, <2>1, CallKeeps
<1> QED BY <1>2, <1>3, <1>4, <1>5

\* Once a run is complete, or was never started, nothing moves.
LEMMA AbortKeeps ==
  ASSUME Inv, Frame, NEW j, NEW kept \in BOOLEAN, MayAbort(j), Abort(j, kept),
         preserved' \in BOOLEAN => Typed
  PROVE  Inv'
<1>1. CASE j.recorder = "QUARANTINED_COMMIT"
  <2>1. Rest(j, "QUARANTINED_COMMIT") /\ preserved' = kept
    BY <1>1 DEF Abort
  <2>2. MayRest(j, "QUARANTINED_COMMIT")
    BY <1>1 DEF MayAbort, MayRest, Known, Still
  <2> QED BY <2>1, <2>2, RestKeeps
<1>2. CASE j.recorder # "QUARANTINED_COMMIT" /\ j.leased /\ j.executor # "COMPLETED"
  <2>1. Call(j, "cancel") /\ preserved' = kept
    BY <1>2 DEF Abort
  <2>2. MayCall(j, "cancel")
    BY <1>2 DEF MayAbort, MayCall
  <2> QED BY <2>1, <2>2, CallKeeps
<1>3. CASE j.recorder # "QUARANTINED_COMMIT" /\ ~(j.leased /\ j.executor # "COMPLETED")
  <2>1. Discard(j, kept)
    BY <1>3 DEF Abort
  <2>2. j.executor = "COMPLETED" => exe.state = "COMPLETED"
    BY DEF MayAbort, Known
  <2>3. ~job.cancelError
    BY DEF Inv, Consistent, JobOK, MayAbort
  <2>4. Still
    BY <1>3, <2>2, <2>3 DEF Inv, Consistent, ExecutorOK, RunOK, MotionOK, MayAbort, Still, Quieted
  <2> QED BY <1>3, <2>1, <2>4, DiscardKeeps DEF MayAbort
<1> QED BY <1>1, <1>2, <1>3

(***************************************************************************)
(* The calls, each with what it may end with                               *)
(***************************************************************************)
LEMMA CallOver ==
  ASSUME Inv, NEW call \in Calls \ {"freeze"}, NEW r \in Outcomes(call, sent), Ends(call, r),
         beat' = beat
  PROVE  /\ at = call /\ Frame
         /\ ~Failed(r) => Told(call, r)
         /\ deadline' \in BOOLEAN /\ preserved' \in BOOLEAN => Typed
<1>1. beat' = "none"
  BY EndsFrame DEF Inv, TypeOK, Consistent, LinesOK
<1> QED BY <1>1, EndsFrame, EndsTyped DEF Inv, Frame, Typed

\* The same with the rest of what most calls leave alone.
LEMMA CallSame ==
  ASSUME Inv, NEW call \in Calls \ {"freeze"}, NEW r \in Outcomes(call, sent), Ends(call, r), Same
  PROVE  /\ at = call /\ Frame
         /\ ~Failed(r) => Told(call, r)
         /\ preserved' \in BOOLEAN => Typed
         /\ UNCHANGED preserved => Typed
BY CallOver DEF Same, Inv, TypeOK

LEMMA PlanEndsKeeps == Inv /\ PlanEnds => Inv'
<1> SUFFICES ASSUME Inv, NEW r \in Outcomes("plan", sent), PlanEnds!(r) PROVE Inv'
  BY DEF PlanEnds
<1> DEFINE j == Heard("plan", r)
           s == IF Is(r, "PLANNED") THEN "PLANNED" ELSE "BLOCKED"
<1>1. at = "plan" /\ Frame /\ Typed
  BY CallSame DEF Back
<1>2. Known(j) /\ SameOtherwise(j)
  BY HeardKnown
<1>3. MayRest(j, s)
  BY <1>1, <1>2 DEF Inv, Consistent, RecorderOK, ExecutorOK, RunOK, JobOK, MotionOK, MayRest,
                    Known, SameOtherwise,
                    Quieted
<1> QED BY <1>1, <1>3, RestKeeps DEF Back

LEMMA ApproveEndsKeeps == Inv /\ ApproveEnds => Inv'
<1> SUFFICES ASSUME Inv, NEW r \in Outcomes("approve", sent), ApproveEnds!(r) PROVE Inv'
  BY DEF ApproveEnds
<1> DEFINE j == Heard("approve", r)
           s == IF Is(r, "APPROVED") THEN "APPROVED" ELSE "PLANNED"
<1>1. at = "approve" /\ Frame /\ Typed
  BY CallSame DEF Back
<1>2. Known(j) /\ SameOtherwise(j)
  BY HeardKnown
<1>3. MayRest(j, s)
  BY <1>1, <1>2 DEF Inv, Consistent, RecorderOK, ExecutorOK, RunOK, JobOK, MotionOK, MayRest,
                    Known, SameOtherwise,
                    Quieted
<1> QED BY <1>1, <1>3, RestKeeps DEF Back

LEMMA BeginEndsKeeps == Inv /\ BeginEnds => Inv'
<1> SUFFICES ASSUME Inv, NEW r \in Outcomes("begin", sent), BeginEnds!(r) PROVE Inv'
  BY DEF BeginEnds
<1> DEFINE j == Heard("begin", r)
<1>1. /\ at = "begin" /\ Frame /\ (preserved' \in BOOLEAN => Typed)
      /\ ~Failed(r) => Told("begin", r)
      /\ UNCHANGED preserved => Typed
  BY CallSame
<1>2. /\ Known(j) /\ SameOtherwise(j)
      /\ ~Failed(r) => j.recorder = r.state
  BY HeardKnown
<1>3. ~job.leased /\ Still /\ ~job.cancelError /\ preserved \in BOOLEAN
  BY <1>1 DEF Inv, TypeOK, Consistent, MotionOK, ExecutorOK, RunOK, JobOK, Still, Quieted
<1>4. CASE Is(r, "RECORDING")
  <2>1. ~Failed(r)
    BY <1>4 DEF Is, Failed, Raised, Late, Reply
  <2>2. /\ rec.process = "running" => rec.state = "RECORDING"
        /\ Request("recorder") = "none" /\ chan'["recorder"].answer = NoReply
    BY <1>1, <1>4, <2>1 DEF Inv, Consistent, RecorderOK, Told, Target, Is
  <2>3. MayCall(j, "firstrow")
    BY <1>1, <1>2, <1>3, <1>4, <2>1, <2>2 DEF MayCall, SameOtherwise, Still, Is
  <2> QED BY <1>1, <1>4, <2>3, CallKeeps
<1>5. CASE ~Is(r, "RECORDING")
  <2>1. MayAbort(j)
    BY <1>1, <1>2, <1>3 DEF MayAbort, SameOtherwise
  <2> QED BY <1>1, <1>3, <1>5, <2>1, AbortKeeps
<1> QED BY <1>4, <1>5

\* The recorder is ready: the trim, or the lease and the start.
LEMMA ArmKeeps ==
  ASSUME Inv, Frame, Typed, NEW j, Arm(j), Known(j), SameOtherwise(j), at \in {"firstrow", "trim"},
         Request("recorder") = "none", chan'["recorder"].answer = NoReply,
         j.recorder # "QUARANTINED_COMMIT", rec.wrote
  PROVE  Inv'
<1>1. /\ ~j.leased /\ Still /\ ~j.cancelError
      /\ rec.process = "running" => rec.state = "RECORDING"
  BY DEF Inv, Consistent, RecorderOK, MotionOK, ExecutorOK, RunOK, JobOK, Still, Quieted,
         SameOtherwise
<1>2. CASE plan.readiness /\ at = "firstrow"
  <2>1. MayCall(j, "trim")
    BY <1>1 DEF MayCall, SameOtherwise, Still
  <2> QED BY <1>2, <2>1, CallKeeps DEF Arm
<1>3. CASE ~(plan.readiness /\ at = "firstrow")
  <2> DEFINE k == [j EXCEPT !.leased = TRUE]
  <2>1. /\ k \in JobType /\ k.leased /\ k.state = j.state /\ k.recorder = j.recorder
        /\ k.executor = j.executor /\ k.cancelError = j.cancelError /\ k.semantic = j.semantic
    BY DEF Known, JobType
  <2>2. Known(k)
    BY <2>1 DEF Known
  <2>3. MayCall(k, "execute")
    BY <1>1, <2>1, <2>2 DEF MayCall, SameOtherwise, Still
  <2> QED BY <1>3, <2>3, CallKeeps DEF Arm
<1> QED BY <1>2, <1>3

LEMMA FirstRowEndsKeeps == Inv /\ FirstRowEnds => Inv'
<1> SUFFICES ASSUME Inv, NEW r \in Outcomes("firstrow", sent), FirstRowEnds!(r) PROVE Inv'
  BY DEF FirstRowEnds
<1> DEFINE j     == Heard("firstrow", r)
           ready == Is(r, "RECORDING") /\ r.note = "none"
           again == Is(r, "RECORDING") /\ r.note = "no_rows" /\ ~deadline
<1>1. /\ at = "firstrow" /\ Frame
      /\ ~Failed(r) => Told("firstrow", r)
      /\ preserved' \in BOOLEAN => Typed
  BY CallOver
<1>2. /\ Known(j) /\ SameOtherwise(j)
      /\ ~Failed(r) => j.recorder = r.state
      /\ Failed(r) => j.recorder \in {job.recorder, "STATUS_UNCERTAIN"}
  BY HeardKnown
<1>3. /\ ~job.leased /\ Still /\ ~job.cancelError /\ preserved \in BOOLEAN
      /\ job.recorder # "QUARANTINED_COMMIT" /\ Keeps("firstrow", r) \in BOOLEAN
      /\ rec.process = "running" => rec.state = "RECORDING"
  BY <1>1 DEF Inv, TypeOK, Consistent, RecorderOK, MotionOK, ExecutorOK, RunOK, JobOK, Still,
              Quieted, Keeps
<1>4. CASE Is(r, "RECORDING")
  <2>1. ~Failed(r)
    BY <1>4 DEF Is, Failed, Raised, Late, Reply
  <2>2. /\ Request("recorder") = "none" /\ chan'["recorder"].answer = NoReply
        /\ j.recorder = "RECORDING"
        /\ ready => rec.wrote
    BY <1>1, <1>2, <1>4, <2>1 DEF Inv, Consistent, RecorderHeard, Told, Target, Is
  <2>3. CASE ready /\ Arm(j) /\ UNCHANGED preserved
    BY <1>1, <1>2, <1>3, <2>2, <2>3, ArmKeeps
  <2>4. CASE again /\ Call(j, "firstrow") /\ UNCHANGED preserved
    <3>1. MayCall(j, "firstrow")
      BY <1>1, <1>2, <1>3, <2>2 DEF MayCall, SameOtherwise, Still
    <3> QED BY <1>1, <1>3, <2>4, <3>1, CallKeeps
  <2>5. CASE Abort(j, Keeps("firstrow", r))
    <3>1. MayAbort(j)
      BY <1>1, <1>2, <1>3, <2>2 DEF MayAbort, SameOtherwise
    <3> QED BY <1>1, <1>3, <2>5, <3>1, AbortKeeps
  <2> QED BY <2>3, <2>4, <2>5
<1>5. CASE ~Is(r, "RECORDING")
  <2>1. MayAbort(j)
    BY <1>1, <1>2, <1>3 DEF MayAbort, SameOtherwise
  <2>2. Abort(j, Keeps("firstrow", r))
    BY <1>5
  <2> QED BY <1>1, <1>3, <2>1, <2>2, AbortKeeps
<1> QED BY <1>4, <1>5

LEMMA TrimEndsKeeps == Inv /\ TrimEnds => Inv'
<1> SUFFICES ASSUME Inv, NEW r \in Outcomes("trim", sent), TrimEnds!(r) PROVE Inv'
  BY DEF TrimEnds
<1> DEFINE j == Heard("trim", r)
<1>1. /\ at = "trim" /\ Frame
      /\ ~Failed(r) => Told("trim", r)
      /\ preserved' \in BOOLEAN => Typed
  BY CallSame
<1>2. /\ Known(j) /\ SameOtherwise(j)
      /\ ~Failed(r) => j.recorder = r.state
  BY HeardKnown
<1>3. ~job.leased /\ Still /\ ~job.cancelError /\ preserved \in BOOLEAN /\ rec.wrote
  BY <1>1 DEF Inv, TypeOK, Consistent, RecorderOK, MotionOK, ExecutorOK, RunOK, JobOK, Still,
              Quieted
<1>4. CASE Is(r, "RECORDING") /\ Arm(j) /\ UNCHANGED preserved
  <2>1. ~Failed(r)
    BY <1>4 DEF Is, Failed, Raised, Late, Reply
  <2>2. /\ Request("recorder") = "none" /\ chan'["recorder"].answer = NoReply
        /\ j.recorder = "RECORDING"
    BY <1>1, <1>2, <1>4, <2>1 DEF Told, Target, Is
  <2> QED BY <1>1, <1>2, <1>3, <1>4, <2>2, ArmKeeps
<1>5. CASE Abort(j, preserved)
  <2>1. MayAbort(j)
    BY <1>1, <1>2, <1>3 DEF MayAbort, SameOtherwise
  <2> QED BY <1>1, <1>3, <1>5, <2>1, AbortKeeps
<1> QED BY <1>4, <1>5

\* What every call once the robot may move starts from.
LEMMA OnTheWay ==
  ASSUME Inv, at \notin {"idle", "cancel", "abort", "abort.blind"}
  PROVE  /\ ~job.cancelError /\ job.recorder # "QUARANTINED_COMMIT"
         /\ preserved \in BOOLEAN /\ job \in JobType
         /\ at \notin MotionCalls \/ Request("executor") = "none" => Quieted
BY DEF Inv, TypeOK, Consistent, JobOK, MotionOK, Quieted

LEMMA MovesKeeps ==
  ASSUME Inv, NEW call \in {"execute", "confirm", "grasp_verdict"}, Moves(call)
  PROVE  Inv'
<1>0. PICK r \in Outcomes(call, sent) : Moves(call)!(r)
  BY DEF Moves
<1> DEFINE j == Heard(call, r)
<1>1. /\ at = call /\ Frame
      /\ ~Failed(r) => Told(call, r)
      /\ preserved' \in BOOLEAN => Typed
  BY <1>0, CallSame
<1>2. /\ Known(j) /\ SameOtherwise(j)
      /\ j.recorder # job.recorder => call \in RecorderCalls
  BY <1>0, HeardKnown
<1>3. job.leased
  BY <1>1 DEF Inv, Consistent, MotionOK
<1>4. CASE Is(r, "EXECUTING")
  <2>1. ~Failed(r)
    BY <1>4 DEF Is, Failed, Raised, Late, Reply
  <2>2. Request("executor") = "none"
    BY <1>1, <2>1 DEF Told, Target
  <2>3. MayRest(j, "EXECUTING")
    BY <1>1, <1>2, <1>3, <2>2, OnTheWay DEF MayRest, SameOtherwise
  <2> QED BY <1>0, <1>1, <1>4, <2>3, OnTheWay, RestKeeps DEF Back
<1>5. CASE ~Is(r, "EXECUTING")
  <2>1. MayAbort(j)
    BY <1>1, <1>2, OnTheWay DEF MayAbort, SameOtherwise
  <2> QED BY <1>0, <1>1, <1>5, <2>1, OnTheWay, AbortKeeps
<1> QED BY <1>4, <1>5

LEMMA ExecuteEndsKeeps == Inv /\ ExecuteEnds => Inv'
BY MovesKeeps DEF ExecuteEnds

LEMMA ConfirmEndsKeeps == Inv /\ ConfirmEnds => Inv'
BY MovesKeeps DEF ConfirmEnds

LEMMA GraspVerdictEndsKeeps == Inv /\ GraspVerdictEnds => Inv'
BY MovesKeeps DEF GraspVerdictEnds

LEMMA SemanticVerdictEndsKeeps == Inv /\ SemanticVerdictEnds => Inv'
<1> SUFFICES ASSUME Inv, NEW r \in Outcomes("semantic_verdict", sent), SemanticVerdictEnds!(r)
             PROVE  Inv'
  BY DEF SemanticVerdictEnds
<1> DEFINE j == Heard("semantic_verdict", r)
<1>1. /\ at = "semantic_verdict" /\ Frame
      /\ ~Failed(r) => Told("semantic_verdict", r)
      /\ preserved' \in BOOLEAN => Typed
  BY CallSame
<1>2. /\ Known(j) /\ SameOtherwise(j)
      /\ j.recorder = job.recorder
  BY HeardKnown
<1>3. job.leased /\ choice \in {"PASS", "FAIL"}
  BY <1>1 DEF Inv, Consistent, JobOK, MotionOK
<1>4. CASE Is(r, "EXECUTING")
  <2> DEFINE k == [j EXCEPT !.semantic = choice]
  <2>1. ~Failed(r)
    BY <1>4 DEF Is, Failed, Raised, Late, Reply
  <2>2. Request("executor") = "none" /\ r = Ans("executor") /\ sent
    BY <1>1, <2>1 DEF Told, Target
  <2>3. exe.semantic = choice
    BY <1>1, <1>4, <2>2 DEF Inv, Consistent, ExecutorHeard
  <2>4. /\ k \in JobType /\ k.leased = j.leased /\ k.state = j.state /\ k.recorder = j.recorder
        /\ k.executor = j.executor /\ k.cancelError = j.cancelError /\ k.semantic = choice
    BY <1>2, <1>3 DEF Known, JobType
  <2>5. Known(k)
    BY <1>2, <2>3, <2>4 DEF Known
  <2>6. MayRest(k, "EXECUTING")
    BY <1>1, <1>2, <1>3, <2>2, <2>4, <2>5, OnTheWay DEF MayRest, SameOtherwise
  <2> QED BY <1>1, <1>4, <2>6, OnTheWay, RestKeeps
<1>5. CASE ~Is(r, "EXECUTING")
  <2>1. MayAbort(j)
    BY <1>1, <1>2, OnTheWay DEF MayAbort, SameOtherwise
  <2> QED BY <1>1, <1>5, <2>1, OnTheWay, AbortKeeps
<1> QED BY <1>4, <1>5

LEMMA ReleaseVerdictEndsKeeps == Inv /\ ReleaseVerdictEnds => Inv'
<1> SUFFICES ASSUME Inv, NEW r \in Outcomes("release_verdict", sent), ReleaseVerdictEnds!(r)
             PROVE  Inv'
  BY DEF ReleaseVerdictEnds
<1> DEFINE j == Heard("release_verdict", r)
           s == IF r.state = "COMPLETED" THEN "EXECUTING" ELSE r.state
           failed == Failed(r) \/ (choice = "LANDED" /\ ~Is(r, "COMPLETED"))
<1>1. /\ at = "release_verdict" /\ Frame
      /\ ~Failed(r) => Told("release_verdict", r)
      /\ preserved' \in BOOLEAN => Typed
  BY CallSame
<1>2. /\ Known(j) /\ SameOtherwise(j)
      /\ j.recorder = job.recorder
      /\ ~Failed(r) => j.executor = r.state
  BY HeardKnown
<1>3. CASE ~failed
  <2>1. Request("executor") = "none" /\ r = Ans("executor") /\ sent /\ r # NoReply
    BY <1>1, <1>3 DEF Told, Target
  <2>2. /\ r.state \in {"IDLE", "BLOCKED", "COMPLETED"}
        /\ r.state = "BLOCKED" => ~exe.moving
    BY <1>1, <2>1 DEF Inv, Consistent, ExecutorHeard
  <2>3. r.state = "COMPLETED" => job.leased
    BY <1>2, <1>3 DEF Inv, Consistent, MotionOK, Known
  <2>4. MayRest(j, s)
    BY <1>1, <1>2, <2>1, <2>2, <2>3, OnTheWay DEF MayRest, SameOtherwise
  <2> QED BY <1>1, <1>3, <2>4, OnTheWay, RestKeeps DEF Back
<1>4. CASE failed
  <2>1. MayAbort(j)
    BY <1>1, <1>2, OnTheWay DEF MayAbort, SameOtherwise
  <2> QED BY <1>1, <1>4, <2>1, OnTheWay, AbortKeeps
<1> QED BY <1>3, <1>4

LEMMA StatusEndsKeeps == Inv /\ StatusEnds => Inv'
<1> SUFFICES ASSUME Inv, NEW r \in Outcomes("status", sent), StatusEnds!(r) PROVE Inv'
  BY DEF StatusEnds
<1> DEFINE j == Heard("status", r)
           fine == Is(r, ExpectedRecorder) /\ r.note # "unhealthy"
<1>1. /\ at = "status" /\ Frame
      /\ ~Failed(r) => Told("status", r)
      /\ preserved' \in BOOLEAN => Typed
  BY CallSame
<1>2. /\ Known(j) /\ SameOtherwise(j)
      /\ ~Failed(r) => j.recorder = r.state
      /\ Failed(r) => j.recorder \in {job.recorder, "STATUS_UNCERTAIN"}
  BY HeardKnown
<1>3. ~Failed(r) => r.state \notin RecorderEnds
  BY <1>1 DEF Inv, Consistent, RecorderHeard, Told, Target
<1>4. j.recorder # "QUARANTINED_COMMIT" /\ Keeps("status", r) \in BOOLEAN
  BY <1>1, <1>2, <1>3, OnTheWay DEF Keeps, JobType
<1>5. CASE fine
  <2>1. MayCall(j, "heartbeat")
    BY <1>1, <1>2, <1>4, OnTheWay DEF MayCall, SameOtherwise, Inv, Consistent, JobOK
  <2> QED BY <1>1, <1>5, <2>1, OnTheWay, CallKeeps
<1>6. CASE ~fine
  <2>1. MayAbort(j)
    BY <1>1, <1>2, <1>4, OnTheWay DEF MayAbort, SameOtherwise
  <2>2. Abort(j, Keeps("status", r))
    BY <1>6
  <2> QED BY <1>1, <1>4, <2>1, <2>2, OnTheWay, AbortKeeps
<1> QED BY <1>5, <1>6

LEMMA HeartbeatEndsKeeps == Inv /\ HeartbeatEnds => Inv'
<1> SUFFICES ASSUME Inv, NEW r \in Outcomes("heartbeat", sent), HeartbeatEnds!(r) PROVE Inv'
  BY DEF HeartbeatEnds
<1> DEFINE j == Heard("heartbeat", r)
<1>1. /\ at = "heartbeat" /\ Frame
      /\ ~Failed(r) => Told("heartbeat", r)
      /\ preserved' \in BOOLEAN => Typed
  BY CallSame
<1>2. /\ Known(j) /\ SameOtherwise(j)
      /\ j.recorder = job.recorder
      /\ ~Failed(r) => j.executor = r.state
  BY HeardKnown
<1>3. job.leased /\ job.state \in ACTIVE_STATES /\ Quieted
  BY <1>1, OnTheWay DEF Inv, Consistent, JobOK, MotionOK
<1>4. MayAbort(j) /\ (UNCHANGED preserved => Typed)
  BY <1>1, <1>2, OnTheWay DEF MayAbort, SameOtherwise
<1>5. CASE Abort(j, preserved)
  BY <1>1, <1>4, <1>5, OnTheWay, AbortKeeps
<1>6. CASE /\ r.ok /\ r.state \in Holds \ {"SEMANTIC_VERDICT"}
           /\ Rest(j, r.state) /\ UNCHANGED preserved
  <2>1. MayRest(j, r.state)
    BY <1>1, <1>2, <1>3, <1>6, OnTheWay DEF MayRest, SameOtherwise
  <2> QED BY <1>1, <1>4, <1>6, <2>1, RestKeeps
<1>7. CASE Is(r, "EXECUTING") /\ Rest(j, job.state) /\ UNCHANGED preserved
  <2>1. job.state = "SEMANTIC_VERDICT" => Sealed
    BY DEF Inv, Consistent, JobOK
  <2>2. MayRest(j, job.state)
    BY <1>1, <1>2, <1>3, <2>1, OnTheWay DEF MayRest, SameOtherwise
  <2> QED BY <1>1, <1>4, <1>7, <2>2, RestKeeps
<1>8. CASE Is(r, "SEMANTIC_VERDICT") /\ AtVerdict(j)
  <2>1. ~Failed(r)
    BY <1>8 DEF Is, Failed, Raised, Late, Reply
  <2>2. exe.state \in {"SEMANTIC_VERDICT", "BLOCKED"} /\ ~exe.moving
    BY <1>1, <1>8, <2>1 DEF Inv, Consistent, ExecutorHeard, Told, Target, Is
  <2>3. CASE Call(j, "freeze") /\ UNCHANGED preserved /\ j.recorder = "RECORDING"
    <3>1. MayCall(j, "freeze")
      BY <1>1, <1>2, <1>3, <2>2, <2>3, OnTheWay DEF MayCall, SameOtherwise
    <3> QED BY <1>1, <1>4, <2>3, <3>1, CallKeeps
  <2>4. CASE Rest(j, "SEMANTIC_VERDICT") /\ UNCHANGED preserved /\ j.recorder = "FROZEN"
    <3>1. MayRest(j, "SEMANTIC_VERDICT")
      BY <1>1, <1>2, <1>3, <2>2, <2>4, OnTheWay DEF MayRest, SameOtherwise, Known
    <3> QED BY <1>1, <1>4, <2>4, <3>1, RestKeeps
  <2> QED BY <1>5, <1>8, <2>3, <2>4 DEF AtVerdict
<1>9. CASE Is(r, "COMPLETED") /\ Finalize(j, preserved)
  <2>1. CASE Earned(j) /\ Call(j, "commit") /\ UNCHANGED preserved
    <3>1. ~Failed(r)
      BY <1>9 DEF Is, Failed, Raised, Late, Reply
    <3>2. exe.state = "COMPLETED" /\ exe.semantic = "PASS"
      BY <1>2, <1>9, <2>1, <3>1 DEF Known, Is, Earned
    <3>3. MayCall(j, "commit")
      BY <1>1, <1>2, <1>3, <3>2, OnTheWay DEF MayCall, SameOtherwise
    <3> QED BY <1>1, <1>4, <2>1, <3>3, CallKeeps
  <2> QED BY <1>5, <1>9, <2>1 DEF Finalize
<1> QED BY <1>5, <1>6, <1>7, <1>8, <1>9

LEMMA CommitEndsKeeps == Inv /\ CommitEnds => Inv'
<1> SUFFICES ASSUME Inv, NEW r \in Outcomes("commit", sent), CommitEnds!(r) PROVE Inv'
  BY DEF CommitEnds
<1> DEFINE h == Heard("commit", r)
           j == [h EXCEPT !.rejected = (r.note = "rejected")]
<1>1. /\ at = "commit" /\ Frame
      /\ ~Failed(r) => Told("commit", r)
      /\ preserved' \in BOOLEAN => Typed
  BY CallSame
<1>2. /\ Known(h) /\ SameOtherwise(h)
      /\ ~Failed(r) => h.recorder = r.state
  BY HeardKnown
<1>3. /\ j \in JobType /\ j.leased = h.leased /\ j.state = h.state /\ j.recorder = h.recorder
      /\ j.executor = h.executor /\ j.cancelError = h.cancelError /\ j.semantic = h.semantic
  BY <1>2 DEF Known, JobType
<1>4. Known(j)
  BY <1>2, <1>3 DEF Known
<1>5. Still
  BY <1>1 DEF Inv, Consistent, EndsOK, ExecutorOK, RunOK, Still, Quieted
<1>6. CASE Is(r, "COMMITTED")
  <2>1. ~Failed(r)
    BY <1>6 DEF Is, Failed, Raised, Late, Reply
  <2>2. j.recorder = "COMMITTED"
    BY <1>2, <1>3, <1>6, <2>1 DEF Is
  <2>3. MayRest(j, "AWAITING_CELL_READY")
    BY <1>1, <1>2, <1>3, <1>4, <1>5, <2>2, OnTheWay DEF MayRest, SameOtherwise, Known, Still
  <2> QED BY <1>1, <1>6, <2>3, OnTheWay, RestKeeps
<1>7. CASE ~Is(r, "COMMITTED")
  <2>1. MayAbort(j)
    BY <1>1, <1>2, <1>3, <1>4, <1>5, OnTheWay DEF MayAbort, SameOtherwise
  <2>2. Abort(j, preserved)
    BY <1>7
  <2> QED BY <1>1, <2>1, <2>2, OnTheWay, AbortKeeps
<1> QED BY <1>6, <1>7

LEMMA CancelEndsKeeps == Inv /\ CancelEnds => Inv'
<1> SUFFICES ASSUME Inv, NEW r \in Outcomes("cancel", sent), CancelEnds!(r) PROVE Inv'
  BY DEF CancelEnds
<1> DEFINE h == Heard("cancel", r)
           j == [h EXCEPT !.cancelError = @ \/ Unconfirmed(r)]
<1>1. /\ at = "cancel" /\ Frame
      /\ ~Failed(r) => Told("cancel", r)
      /\ preserved' \in BOOLEAN => Typed
  BY CallSame
<1>2. /\ Known(h) /\ SameOtherwise(h)
      /\ h.recorder = job.recorder
  BY HeardKnown
<1>3. /\ j \in JobType /\ j.leased = h.leased /\ j.state = h.state /\ j.recorder = h.recorder
      /\ j.executor = h.executor /\ j.semantic = h.semantic
      /\ ~j.cancelError => ~Unconfirmed(r)
  BY <1>2 DEF Known, JobType, Unconfirmed, Failed
<1>4. Known(j)
  BY <1>2, <1>3 DEF Known
<1>5. job.recorder # "QUARANTINED_COMMIT" /\ preserved \in BOOLEAN
  BY <1>1 DEF Inv, TypeOK, Consistent, JobOK
<1>6. ~j.cancelError => Still
  <2> SUFFICES ASSUME ~j.cancelError PROVE Still
    OBVIOUS
  <2>1. /\ r.state \in {"BLOCKED", "COMPLETED"} /\ r.note \notin {"undurable", "cancel_error"}
        /\ ~Failed(r)
    BY <1>3 DEF Unconfirmed
  <2>2. r = Ans("executor") /\ Request("executor") = "none"
    BY <1>1, <2>1 DEF Told, Target
  <2>3. exe.state \in {"BLOCKED", "COMPLETED"} /\ ~exe.moving
    BY <2>1, <2>2 DEF Inv, Consistent, ExecutorHeard, ExecutorOK, RunOK
  <2> QED BY <2>2, <2>3 DEF Still, Quieted
<1>7. Discard(j, preserved)
  OBVIOUS
<1> QED BY <1>1, <1>2, <1>3, <1>4, <1>5, <1>6, <1>7, DiscardKeeps DEF SameOtherwise

LEMMA BlindAbortEndsKeeps == Inv /\ BlindAbortEnds => Inv'
<1> SUFFICES ASSUME Inv, NEW r \in Outcomes("abort.blind", sent), BlindAbortEnds!(r) PROVE Inv'
  BY DEF BlindAbortEnds
<1> DEFINE j == Heard("abort.blind", r)
<1>1. /\ at = "abort.blind" /\ Frame /\ Typed
  BY CallSame DEF Inv, TypeOK
<1>2. Known(j) /\ SameOtherwise(j)
  BY HeardKnown
<1>3. job.cancelError
  BY <1>1 DEF Inv, Consistent, JobOK
<1>4. MayRest(j, "BLOCKED")
  BY <1>1, <1>2, <1>3 DEF MayRest, SameOtherwise
<1> QED BY <1>1, <1>4, RestKeeps

LEMMA AbortEndsKeeps == Inv /\ AbortEnds => Inv'
<1> SUFFICES ASSUME Inv, NEW r \in Outcomes("abort", sent), AbortEnds!(r) PROVE Inv'
  BY DEF AbortEnds
<1> DEFINE j == Heard("abort", r)
           s == IF j.recorder = "QUARANTINED_COMMIT" THEN "QUARANTINED_COMMIT"
                ELSE IF j.executor = "BLOCKED" \/ ~Is(r, "ABORTED") THEN "BLOCKED" ELSE "ABORTED"
<1>1. /\ at = "abort" /\ Frame /\ Typed
  BY CallSame
<1>2. /\ Known(j) /\ SameOtherwise(j)
      /\ ~Failed(r) => j.recorder = r.state
  BY HeardKnown
<1>3. Is(r, "ABORTED") => ~Failed(r) /\ r.state = "ABORTED"
  BY DEF Is, Failed, Raised, Late, Reply
<1>4. ~job.cancelError /\ Still
  BY <1>1 DEF Inv, Consistent, JobOK, MotionOK, Still, Quieted
<1>5. MayRest(j, s)
  BY <1>1, <1>2, <1>3, <1>4 DEF MayRest, SameOtherwise, Known, Still
<1> QED BY <1>1, <1>5, RestKeeps

(***************************************************************************)
(* The freeze, and the heartbeats beside it                                *)
(***************************************************************************)
LEMMA FreezeEndsKeeps == Inv /\ FreezeEnds => Inv'
<1> SUFFICES ASSUME Inv, NEW r \in Outcomes("freeze", sent), FreezeEnds!(r) PROVE Inv'
  BY DEF FreezeEnds
<1> DEFINE j == [job EXCEPT !.recorder = r.state]
           heard == beat = "none" /\ r.ok
<1>1. /\ at = "freeze" /\ Frame
      /\ ~Failed(r) => Told("freeze", r)
      /\ preserved' \in BOOLEAN => Typed
  BY EndsFrame, EndsTyped DEF Inv, Frame, Typed
<1>2. job.leased /\ Still
  BY <1>1, OnTheWay DEF Inv, Consistent, JobOK, MotionOK, Still
<1>3. CASE heard
  <2>1. ~Failed(r)
    BY <1>3 DEF Failed, Raised, Late, Reply
  <2>2. r = Ans("recorder") /\ r.state \in RecorderStates
    BY <1>1, <2>1 DEF Inv, Consistent, LinesOK, Told, Target
  <2>3. /\ r.state \in RecorderEnds => rec.state = r.state
        /\ r.state = "FROZEN" => Sealed
    BY <2>2 DEF Inv, Consistent, RecorderHeard
  <2>4. /\ j \in JobType /\ j.leased = job.leased /\ j.state = job.state /\ j.recorder = r.state
        /\ j.executor = job.executor /\ j.cancelError = job.cancelError /\ j.semantic = job.semantic
    BY <1>1, <2>2, OnTheWay DEF JobType
  <2>5. Known(j)
    BY <2>3, <2>4, JobKnown DEF Known
  <2>6. CASE r.state = "FROZEN"
    <3>1. MayRest(j, "SEMANTIC_VERDICT")
      BY <1>1, <1>2, <2>3, <2>4, <2>5, <2>6, OnTheWay DEF MayRest, Still
    <3> QED BY <1>1, <1>3, <2>6, <3>1, OnTheWay, RestKeeps
  <2>7. CASE r.state # "FROZEN"
    <3>1. MayAbort(j)
      BY <1>1, <1>2, <2>4, <2>5, OnTheWay DEF MayAbort
    <3>2. Abort(j, preserved)
      BY <1>3, <2>7
    <3> QED BY <1>1, <3>1, <3>2, OnTheWay, AbortKeeps
  <2> QED BY <2>6, <2>7
<1>4. CASE ~heard
  <2>1. MayAbort(job)
    BY <1>1, OnTheWay, JobKnown DEF MayAbort
  <2>2. Abort(job, preserved)
    BY <1>4
  <2> QED BY <1>1, <2>1, <2>2, OnTheWay, AbortKeeps
<1> QED BY <1>3, <1>4

\* The lines as they are, when nothing is read.
LEMMA LinesAsTheyAre ==
  ASSUME Inv, chan' = chan
  PROVE  Lines
BY DEF Inv, TypeOK, Consistent, LinesOK, Lines, Request, Ans

LEMMA FreezeTimesOutKeeps == Inv /\ FreezeTimesOut => Inv'
<1> SUFFICES ASSUME Inv, FreezeTimesOut PROVE Inv'
  OBVIOUS
<1> DEFINE j == [job EXCEPT !.recorder = "FREEZE_UNCERTAIN", !.cancelError = TRUE]
<1>1. at = "freeze" /\ Abort(j, TRUE)
  BY DEF FreezeTimesOut
<1>2. Frame
  BY LinesAsTheyAre DEF FreezeTimesOut, Frame, children
<1>3. preserved' \in BOOLEAN => Typed
  BY DEF FreezeTimesOut, Inv, TypeOK, Typed, people, children
<1>4. /\ j \in JobType /\ j.leased = job.leased /\ j.state = job.state
      /\ j.recorder = "FREEZE_UNCERTAIN" /\ j.executor = job.executor /\ j.semantic = job.semantic
  BY <1>1, OnTheWay DEF JobType
<1>5. Known(j)
  BY <1>4, JobKnown DEF Known
<1>6. MayAbort(j)
  BY <1>1, <1>4, <1>5 DEF MayAbort
<1> QED BY <1>1, <1>2, <1>3, <1>6, AbortKeeps

(***************************************************************************)
(* A line is written                                                       *)
(***************************************************************************)
LEMMA LineWritten ==
  ASSUME Inv, NEW call \in Calls, CanWrite(call), chan' = Line(Target(call), call)
  PROVE  /\ chan' \in [Children -> ChannelType]
         /\ Request(Target(call))' = Command(call) /\ Ans(Target(call))' = NoReply
         /\ chan'[Target(call)].pending
         /\ \A d \in Children \ {Target(call)} : chan'[d] = chan[d]
<1> DEFINE c == Target(call)
           k == [chan[c] EXCEPT !.request = Command(call), !.pending = TRUE]
<1>1. c \in Children /\ Command(call) \in Commands
  BY DEF Target, Command
<1>2. chan \in [Children -> ChannelType] /\ chan[c] \in ChannelType
  BY <1>1 DEF Inv, TypeOK
<1>3. k \in ChannelType /\ k.request = Command(call) /\ k.answer = chan[c].answer /\ k.pending
  BY <1>1, <1>2 DEF ChannelType
<1>4. chan[c].answer = NoReply
  BY <1>1 DEF Inv, Consistent, LinesOK, CanWrite, Ans
<1>5. chan' = [chan EXCEPT ![c] = k]
  BY DEF Line
<1> HIDE DEF k
<1>6. /\ chan' \in [Children -> ChannelType] /\ chan'[c] = k
      /\ \A d \in Children \ {c} : chan'[d] = chan[d]
  BY <1>1, <1>2, <1>3, <1>5
<1> QED BY <1>3, <1>4, <1>6 DEF Request, Ans

LEMMA WriteKeeps == Inv /\ Write => Inv'
<1> SUFFICES ASSUME Inv, Write PROVE Inv'
  OBVIOUS
<1> DEFINE c == Target(at)
<1>1. /\ at \in Calls /\ ~sent /\ sent' = TRUE
      /\ plan' = plan /\ job' = job /\ at' = at /\ beat' = beat /\ choice' = choice
      /\ rec' = rec /\ exe' = exe
  BY DEF Write, Inv, TypeOK, children
<1>2. /\ Request(c)' = Command(at) /\ Ans(c)' = NoReply /\ chan'[c].pending
      /\ \A d \in Children \ {c} : /\ chan'[d] = chan[d]
                                   /\ Request(d)' = Request(d) /\ Ans(d)' = Ans(d)
  BY <1>1, LineWritten DEF Write, Request, Ans
<1>3. TypeOK'
  BY <1>1, LineWritten DEF Write, Inv, TypeOK, people, children
<1>4. ExecutorOK'
  BY <1>1 DEF Inv, Consistent, ExecutorOK, RunOK, Route, SemanticLeg
<1>5. RecorderOK'
  BY <1>1, <1>2 DEF Inv, Consistent, RecorderOK, Target, Command
<1>6. LinesOK'
  BY <1>1, <1>2 DEF Inv, Consistent, LinesOK, Target, Command
<1>7. RecorderHeard'
  BY <1>1, <1>2 DEF Inv, Consistent, RecorderHeard, Target, NoReply, Reply, Sealed
<1>8. ExecutorHeard'
  BY <1>1, <1>2 DEF Inv, Consistent, ExecutorHeard, Target, NoReply, Reply, Is
<1>9. JobOK'
  BY <1>1, <1>2 DEF Inv, Consistent, JobOK, Target, Command, Sealed
<1>10. MotionOK'
  BY <1>1, <1>2 DEF Inv, Consistent, MotionOK, Target, Command, Over
<1>11. EndsOK'
  BY <1>1, <1>2 DEF Inv, Consistent, EndsOK, Target, Command
<1> QED BY <1>3, <1>4, <1>5, <1>6, <1>7, <1>8, <1>9, <1>10, <1>11 DEF Inv, Consistent

LEMMA FreezeBeatsKeeps == Inv /\ FreezeBeats => Inv'
<1> SUFFICES ASSUME Inv, FreezeBeats PROVE Inv'
  OBVIOUS
<1>1. /\ at = "freeze" /\ sent /\ sent' = sent
      /\ plan' = plan /\ job' = job /\ at' = at /\ choice' = choice
      /\ rec' = rec /\ exe' = exe
  BY DEF FreezeBeats, children
<1>2. CASE CanWrite("heartbeat")
  <2>1. /\ Request("executor")' = "heartbeat" /\ Ans("executor")' = NoReply
        /\ chan'["executor"].pending /\ beat' = "sent"
        /\ chan'["recorder"] = chan["recorder"] /\ chan' \in [Children -> ChannelType]
        /\ Request("recorder")' = Request("recorder") /\ Ans("recorder")' = Ans("recorder")
    BY <1>2, LineWritten DEF FreezeBeats, Request, Ans, Target, Command
  <2>2. TypeOK'
    BY <1>1, <2>1 DEF FreezeBeats, Inv, TypeOK, people, children
  <2>3. ExecutorOK'
    BY <1>1 DEF Inv, Consistent, ExecutorOK, RunOK, Route, SemanticLeg
  <2>4. RecorderOK'
    BY <1>1, <2>1 DEF Inv, Consistent, RecorderOK
  <2>5. LinesOK'
    BY <1>1, <2>1 DEF Inv, Consistent, LinesOK, Target
  <2>6. RecorderHeard'
    BY <1>1, <2>1 DEF Inv, Consistent, RecorderHeard, Sealed
  <2>7. ExecutorHeard'
    BY <1>1, <2>1 DEF Inv, Consistent, ExecutorHeard, NoReply, Reply
  <2>8. JobOK'
    BY <1>1, <2>1 DEF Inv, Consistent, JobOK, Sealed
  <2>9. MotionOK'
    BY <1>1, <2>1 DEF Inv, Consistent, MotionOK, Over
  <2>10. EndsOK'
    BY <1>1, <2>1 DEF Inv, Consistent, EndsOK
  <2> QED BY <2>2, <2>3, <2>4, <2>5, <2>6, <2>7, <2>8, <2>9, <2>10 DEF Inv, Consistent
<1>3. CASE ~CanWrite("heartbeat")
  <2>1. beat' = "failed" /\ chan' = chan
    BY <1>3 DEF FreezeBeats
  <2>2. TypeOK'
    BY <1>1, <2>1 DEF FreezeBeats, Inv, TypeOK, people, children
  <2>3. LinesOK'
    BY <1>1, <2>1 DEF Inv, Consistent, LinesOK, Request, Ans
  <2>4. ExecutorOK' /\ RecorderOK'
    BY <1>1, <2>1 DEF Inv, Consistent, ExecutorOK, RunOK, Route, SemanticLeg, RecorderOK, Request,
                      Ans
  <2>5. RecorderHeard' /\ ExecutorHeard'
    BY <1>1, <2>1 DEF Inv, Consistent, RecorderHeard, ExecutorHeard, Sealed, Ans
  <2>6. JobOK' /\ MotionOK' /\ EndsOK'
    BY <1>1, <2>1 DEF Inv, Consistent, JobOK, MotionOK, EndsOK, Over, Sealed, Request
  <2> QED BY <2>2, <2>3, <2>4, <2>5, <2>6 DEF Inv, Consistent
<1> QED BY <1>2, <1>3

LEMMA FreezeBeatEndsKeeps == Inv /\ FreezeBeatEnds => Inv'
<1> SUFFICES ASSUME Inv, at = "freeze", beat = "sent", NEW r \in Outcomes("heartbeat", TRUE),
                    FreezeBeatEnds!2!(r),
                    UNCHANGED <<plan, at, sent, choice, deadline, preserved, people, children>>
             PROVE  Inv'
  BY DEF FreezeBeatEnds
<1>1. /\ sent' = sent /\ plan' = plan /\ at' = at /\ choice' = choice /\ rec' = rec /\ exe' = exe
      /\ beat' \in {"none", "failed"} /\ job' = Heard("heartbeat", r) /\ chan' = Read("executor")
  BY DEF children
<1>2. /\ job' \in JobType /\ faults' \in 0..MaxFaults
  <2>1. job' \in JobType
    BY <1>1, HeardTyped DEF Inv, Consistent
  <2>2. r = Late => faults < MaxFaults
    BY OutcomeTyped DEF Inv
  <2> QED BY <2>1, <2>2, MaxFaultsAssumption DEF Inv, TypeOK
<1>3. /\ Failed(r) \/ r = Ans("executor")
      /\ Ans("executor") # NoReply \/ Failed(r)
  BY DEF Outcomes, Target, Failed, Ans
<1>4. /\ job'.state = job.state /\ job'.recorder = job.recorder /\ job'.leased = job.leased
      /\ job'.cancelError = job.cancelError /\ job'.semantic = job.semantic
      /\ job'.executor = "COMPLETED" => exe.state = "COMPLETED"
  BY <1>1, <1>3, JobKnown DEF Heard, Inv, TypeOK, JobType, Known, Consistent, ExecutorHeard
<1>5. /\ chan' \in [Children -> ChannelType] /\ chan'["recorder"] = chan["recorder"]
      /\ Request("executor")' = Request("executor") /\ Ans("executor")' = NoReply
      /\ Request("executor") # "none" => chan'["executor"].pending
  <2> DEFINE k == [chan["executor"] EXCEPT !.answer = NoReply, !.pending = FALSE]
  <2>1. NoReply \in Replies
    BY DEF NoReply, Reply, Replies
  <2>2. k \in ChannelType /\ k.answer = NoReply /\ k.request = chan["executor"].request
    BY <2>1 DEF Inv, TypeOK, ChannelType
  <2>3. CASE chan["executor"].answer # NoReply
    <3>1. chan' = [chan EXCEPT !["executor"] = k]
      BY <1>1, <2>3 DEF Read
    <3>2. Request("executor") = "none"
      BY <2>3 DEF Inv, Consistent, LinesOK, Ans
    <3> HIDE DEF k
    <3>3. /\ chan' \in [Children -> ChannelType] /\ chan'["recorder"] = chan["recorder"]
          /\ chan'["executor"] = k
      BY <2>2, <3>1 DEF Inv, TypeOK
    <3> QED BY <2>2, <3>2, <3>3 DEF Request, Ans
  <2>4. CASE chan["executor"].answer = NoReply
    <3>1. chan' = chan
      BY <1>1, <2>4 DEF Read
    <3> QED BY <2>4, <3>1 DEF Inv, TypeOK, Consistent, LinesOK, Request, Ans
  <2> QED BY <2>3, <2>4
<1>6. Request("recorder")' = Request("recorder") /\ Ans("recorder")' = Ans("recorder")
  BY <1>5 DEF Request, Ans
<1>7. TypeOK'
  BY <1>1, <1>2, <1>5 DEF Inv, TypeOK, people, children
<1>8. ExecutorOK'
  BY <1>1 DEF Inv, Consistent, ExecutorOK, RunOK, Route, SemanticLeg
<1>9. RecorderOK'
  BY <1>1, <1>4, <1>5, <1>6 DEF Inv, Consistent, RecorderOK
<1>10. LinesOK'
  BY <1>1, <1>5, <1>6 DEF Inv, Consistent, LinesOK, Target
<1>11. RecorderHeard'
  BY <1>1, <1>4, <1>6 DEF Inv, Consistent, RecorderHeard, Sealed
<1>12. ExecutorHeard'
  BY <1>1, <1>4, <1>5 DEF Inv, Consistent, ExecutorHeard, NoReply, Reply
<1>13. JobOK'
  BY <1>1, <1>4, <1>5 DEF Inv, Consistent, JobOK, Sealed
<1>14. MotionOK'
  BY <1>1, <1>4, <1>5 DEF Inv, Consistent, MotionOK, Over
<1>15. EndsOK'
  BY <1>1, <1>4, <1>6 DEF Inv, Consistent, EndsOK
<1> QED BY <1>7, <1>8, <1>9, <1>10, <1>11, <1>12, <1>13, <1>14, <1>15 DEF Inv, Consistent

(***************************************************************************)
(* Between two calls                                                       *)
(***************************************************************************)
\* Nothing happens that any part of the invariant can see: at most, a child is
\* gone, an input is closed or a lease lapses.
Unseen ==
    /\ plan' = plan /\ job' = job /\ at' = at /\ sent' = sent /\ beat' = beat /\ choice' = choice
    /\ \A c \in Children : /\ chan'[c].request = chan[c].request
                           /\ chan'[c].answer = chan[c].answer
                           /\ chan'[c].pending = chan[c].pending
    /\ rec'.state = rec.state /\ rec'.wrote = rec.wrote
    /\ rec'.process = rec.process \/ (rec.process = "running" /\ rec'.process = "gone")
    /\ exe'.state = exe.state /\ exe'.leg = exe.leg /\ exe'.moving = exe.moving
    /\ exe'.certain = exe.certain /\ exe'.grasp = exe.grasp /\ exe'.semantic = exe.semantic

LEMMA UnseenKeeps ==
  ASSUME Inv, TypeOK', Unseen
  PROVE  Inv'
<1>1. /\ Request("executor")' = Request("executor") /\ Request("recorder")' = Request("recorder")
      /\ Ans("executor")' = Ans("executor") /\ Ans("recorder")' = Ans("recorder")
  BY DEF Unseen, Request, Ans
<1>2. ExecutorOK'
  BY DEF Inv, Consistent, ExecutorOK, RunOK, Unseen, Route, SemanticLeg
<1>3. RecorderOK'
  BY <1>1 DEF Inv, Consistent, RecorderOK, Unseen
<1>4. LinesOK'
  BY <1>1 DEF Inv, Consistent, LinesOK, Unseen, Target
<1>5. RecorderHeard' /\ ExecutorHeard'
  BY <1>1 DEF Inv, Consistent, RecorderHeard, ExecutorHeard, Unseen, Sealed
<1>6. JobOK'
  BY <1>1 DEF Inv, Consistent, JobOK, Unseen, Sealed
<1>7. MotionOK'
  BY <1>1 DEF Inv, Consistent, MotionOK, Unseen, Over
<1>8. EndsOK'
  BY <1>1 DEF Inv, Consistent, EndsOK, Unseen
<1> QED BY <1>2, <1>3, <1>4, <1>5, <1>6, <1>7, <1>8 DEF Inv, Consistent

LEMMA InputClosed ==
  ASSUME Inv, NEW c \in Children, chan' = [chan EXCEPT ![c].open = FALSE]
  PROVE  /\ chan' \in [Children -> ChannelType]
         /\ \A d \in Children : /\ chan'[d].request = chan[d].request
                                /\ chan'[d].answer = chan[d].answer
                                /\ chan'[d].pending = chan[d].pending
<1> DEFINE k == [chan[c] EXCEPT !.open = FALSE]
<1>1. chan \in [Children -> ChannelType] /\ chan' = [chan EXCEPT ![c] = k]
  BY DEF Inv, TypeOK
<1>2. /\ k \in ChannelType
      /\ k.request = chan[c].request /\ k.answer = chan[c].answer /\ k.pending = chan[c].pending
  BY <1>1 DEF ChannelType
<1> HIDE DEF k
<1>3. /\ chan' \in [Children -> ChannelType] /\ chan'[c] = k
      /\ \A d \in Children \ {c} : chan'[d] = chan[d]
  BY <1>1, <1>2
<1> QED BY <1>2, <1>3

LEMMA TimePassesKeeps == Inv /\ TimePasses => Inv'
<1> SUFFICES ASSUME Inv, TimePasses PROVE Inv'
  OBVIOUS
<1>1. TypeOK'
  BY DEF TimePasses, Inv, TypeOK, people, children
<1>2. Unseen
  BY DEF TimePasses, Unseen, children
<1> QED BY <1>1, <1>2, UnseenKeeps

LEMMA OperatorCancelsKeeps == Inv /\ OperatorCancels => Inv'
<1> SUFFICES ASSUME Inv, OperatorCancels PROVE Inv'
  OBVIOUS
<1>1. TypeOK'
  BY DEF OperatorCancels, Inv, TypeOK, children
<1>2. Unseen
  BY DEF OperatorCancels, Unseen, children
<1> QED BY <1>1, <1>2, UnseenKeeps

LEMMA LeavesKeeps == Inv /\ Leaves => Inv'
<1> SUFFICES ASSUME Inv, Leaves PROVE Inv'
  OBVIOUS
<1>1. TypeOK'
  BY InputClosed DEF Leaves, Inv, TypeOK, children
<1>2. Unseen
  BY InputClosed DEF Leaves, Unseen, children
<1> QED BY <1>1, <1>2, UnseenKeeps

LEMMA ReturnKeeps == Inv /\ Return => Inv'
BY LeavesKeeps DEF Return

LEMMA RunnerFailsKeeps == Inv /\ RunnerFails => Inv'
BY LeavesKeeps DEF RunnerFails

LEMMA RecoverRejectedKeeps == Inv /\ RecoverRejected => Inv'
<1> SUFFICES ASSUME Inv, RecoverRejected PROVE Inv'
  OBVIOUS
<1>1. TypeOK'
  BY InputClosed DEF RecoverRejected, Inv, TypeOK
<1>2. Unseen
  BY InputClosed DEF RecoverRejected, Unseen
<1> QED BY <1>1, <1>2, UnseenKeeps

LEMMA ClosesKeeps == Inv /\ Closes => Inv'
<1> SUFFICES ASSUME Inv, Closes PROVE Inv'
  OBVIOUS
<1>1. CASE RecorderClosed
  <2>1. TypeOK'
    BY <1>1, InputClosed DEF RecorderClosed, Inv, TypeOK, children
  <2>2. Unseen
    BY <1>1, InputClosed DEF RecorderClosed, Unseen, children
  <2> QED BY <2>1, <2>2, UnseenKeeps
<1>2. CASE ExecutorClosed
  <2>1. TypeOK'
    BY <1>2 DEF ExecutorClosed, Inv, TypeOK, children
  <2>2. Unseen
    BY <1>2 DEF ExecutorClosed, Unseen, children
  <2> QED BY <2>1, <2>2, UnseenKeeps
<1>3. CASE Abandoned
  <2>1. TypeOK'
    BY <1>3, InputClosed DEF Abandoned, Inv, TypeOK, children
  <2>2. Unseen
    BY <1>3, InputClosed DEF Abandoned, Unseen, children
  <2> QED BY <2>1, <2>2, UnseenKeeps
<1> QED BY <1>1, <1>2, <1>3 DEF Closes

\* A child that is killed is gone.
LEMMA ChildGone ==
  ASSUME Inv
  PROVE  /\ [rec EXCEPT !.process = "gone"] \in RecorderType
         /\ [exe EXCEPT !.process = "gone"] \in ExecutorType
         /\ faults < MaxFaults => faults + 1 \in 0..MaxFaults
BY MaxFaultsAssumption DEF Inv, TypeOK, RecorderType, ExecutorType

LEMMA RecorderKilledKeeps == Inv /\ RecorderKilled => Inv'
<1> SUFFICES ASSUME Inv, RecorderKilled PROVE Inv'
  OBVIOUS
<1>1. /\ chan' \in [Children -> ChannelType]
      /\ \A d \in Children : /\ chan'[d].request = chan[d].request
                             /\ chan'[d].answer = chan[d].answer
                             /\ chan'[d].pending = chan[d].pending
  BY InputClosed DEF RecorderKilled, Inv, TypeOK
<1>2. TypeOK'
  BY <1>1, ChildGone DEF RecorderKilled, Inv, TypeOK
<1>3. rec' = [rec EXCEPT !.process = "gone"] /\ rec \in RecorderType /\ rec.process = "running"
  BY DEF RecorderKilled, Inv, TypeOK
<1>4. Unseen
  BY <1>1, <1>3 DEF RecorderKilled, Unseen, RecorderType
<1> QED BY <1>2, <1>4, UnseenKeeps

LEMMA ExecutorGoneKeeps == Inv /\ (ExecutorKilled \/ ExecutorDies) => Inv'
<1> SUFFICES ASSUME Inv, ExecutorKilled \/ ExecutorDies PROVE Inv'
  OBVIOUS
<1>1. /\ exe' = [exe EXCEPT !.process = "gone"] /\ exe \in ExecutorType
  BY DEF ExecutorKilled, ExecutorDies, Inv, TypeOK
<1>2. TypeOK'
  BY ChildGone DEF ExecutorKilled, ExecutorDies, Inv, TypeOK, coordinator
<1>3. Unseen
  BY <1>1 DEF ExecutorKilled, ExecutorDies, Unseen, coordinator, ExecutorType
<1> QED BY <1>2, <1>3, UnseenKeeps

\* The runner moves the coordinator with nothing on its way to a child.
LEMMA Idle ==
  ASSUME Inv, Between
  PROVE  ~sent /\ beat = "none" /\ at = "idle" /\ preserved \in BOOLEAN /\ job \in JobType
BY DEF Inv, TypeOK, Consistent, LinesOK, Between

LEMMA ApproveKeeps == Inv /\ Approve => Inv'
<1> SUFFICES ASSUME Inv, Approve PROVE Inv'
  OBVIOUS
<1>1. /\ at = "idle" /\ ~sent /\ job.state = "PLANNED" /\ at' = "approve"
      /\ plan' = plan /\ job' = job /\ sent' = sent /\ beat' = beat /\ choice' = choice
      /\ chan' = chan /\ rec' = rec /\ exe' = exe
  BY Idle DEF Approve, Call, Quiet, children
<1>2. TypeOK'
  BY <1>1 DEF Approve, Quiet, Inv, TypeOK, people, children
<1>3. ExecutorOK' /\ RecorderOK'
  BY <1>1 DEF Inv, Consistent, ExecutorOK, RunOK, RecorderOK, Route, SemanticLeg, Request, Ans
<1>4. LinesOK'
  BY <1>1 DEF Inv, Consistent, LinesOK, Request, Ans
<1>5. RecorderHeard' /\ ExecutorHeard'
  BY <1>1 DEF Inv, Consistent, RecorderHeard, ExecutorHeard, Sealed, Ans
<1>6. JobOK'
  BY <1>1 DEF Inv, Consistent, JobOK, Sealed, Request
<1>7. MotionOK' /\ EndsOK'
  BY <1>1 DEF Inv, Consistent, MotionOK, EndsOK, Over, Request
<1> QED BY <1>2, <1>3, <1>4, <1>5, <1>6, <1>7 DEF Inv, Consistent

LEMMA StartKeeps == Inv /\ Start => Inv'
<1> SUFFICES ASSUME Inv, Start PROVE Inv'
  OBVIOUS
<1>1. /\ at = "idle" /\ ~sent /\ job.state = "APPROVED" /\ at' = "begin"
      /\ plan' = plan /\ job' = job /\ sent' = sent /\ beat' = beat /\ choice' = choice
      /\ chan' = chan /\ exe' = exe
  BY Idle DEF Start, Call
<1>2. /\ rec' \in RecorderType /\ rec'.process = "running"
      /\ rec'.state = rec.state /\ rec'.wrote = rec.wrote
  BY DEF Start, Inv, TypeOK, RecorderType
<1>3. TypeOK'
  BY <1>1, <1>2 DEF Start, Inv, TypeOK, people
<1>4. ExecutorOK' /\ RecorderOK'
  BY <1>1, <1>2 DEF Inv, Consistent, ExecutorOK, RunOK, RecorderOK, Route, SemanticLeg, Request, Ans
<1>5. LinesOK'
  BY <1>1 DEF Inv, Consistent, LinesOK, RecorderOK, Request, Ans
<1>6. RecorderHeard' /\ ExecutorHeard'
  BY <1>1, <1>2 DEF Inv, Consistent, RecorderHeard, ExecutorHeard, Sealed, Ans
<1>7. JobOK'
  BY <1>1, <1>2 DEF Inv, Consistent, JobOK, Sealed, Request
<1>8. MotionOK' /\ EndsOK'
  BY <1>1, <1>2 DEF Inv, Consistent, RecorderOK, MotionOK, EndsOK, Over, Request
<1> QED BY <1>3, <1>4, <1>5, <1>6, <1>7, <1>8 DEF Inv, Consistent

LEMMA QuietFrame ==
  ASSUME Inv, Between, Quiet
  PROVE  Frame /\ Typed
<1>1. Frame
  BY Idle, LinesAsTheyAre DEF Quiet, Frame, children
<1> QED BY <1>1 DEF Quiet, Typed, Inv, TypeOK, people, children

LEMMA PollKeeps == Inv /\ Poll => Inv'
<1> SUFFICES ASSUME Inv, Poll PROVE Inv'
  OBVIOUS
<1>1. Frame /\ Typed /\ at = "idle" /\ job.state \in ACTIVE_STATES /\ Call(job, "status")
  BY QuietFrame DEF Poll, Between
<1>2. MayCall(job, "status")
  BY <1>1, JobKnown DEF Inv, Consistent, JobOK, MotionOK, MayCall, Quieted, Between
<1> QED BY <1>1, <1>2, CallKeeps

LEMMA DecideKeeps == Inv /\ Decide => Inv'
<1> SUFFICES ASSUME Inv, Decide PROVE Inv'
  OBVIOUS
<1>1. /\ Frame /\ Typed /\ at = "idle" /\ job.state \in Holds /\ job \in JobType
      /\ ~job.cancelError /\ job.recorder # "QUARANTINED_COMMIT" /\ job.leased /\ Quieted
  BY QuietFrame, Idle DEF Decide, Inv, Consistent, JobOK, MotionOK, Quieted
<1>2. /\ at' \in {"confirm", "grasp_verdict", "semantic_verdict", "release_verdict"}
      /\ job' \in JobType /\ choice' \in Verdicts \cup Releases
      /\ job'.state = job.state /\ job'.recorder = job.recorder /\ job'.executor = job.executor
      /\ job'.cancelError = job.cancelError /\ job'.leased = job.leased
      /\ job'.semantic = job.semantic
      /\ at' = "semantic_verdict" => job.state = "SEMANTIC_VERDICT" /\ choice' \in {"PASS", "FAIL"}
  BY <1>1 DEF Decide, JobType, Inv, TypeOK
<1>3. Known(job')
  BY <1>2, JobKnown DEF Known
<1>4. /\ Request("executor")' = Request("executor") /\ Request("recorder")' = Request("recorder")
      /\ Ans("recorder")' \in {NoReply, Ans("recorder")}
      /\ exe' = exe /\ rec' = rec /\ plan' = plan /\ sent' = FALSE
  BY <1>1 DEF Frame, Lines, Request, Ans
<1>5. TypeOK'
  BY <1>1, <1>2 DEF Typed, TypeOK
<1>6. ExecutorOK' /\ LinesOK' /\ RecorderHeard' /\ ExecutorHeard'
  BY <1>1, <1>2, <1>3, FrameKeeps
<1>7. RecorderOK'
  BY <1>1, <1>2, <1>4 DEF Inv, Consistent, RecorderOK
<1>8. JobOK'
  BY <1>1, <1>2, <1>4 DEF Inv, Consistent, JobOK, Sealed, Quieted
<1>9. MotionOK' /\ EndsOK'
  BY <1>1, <1>2, <1>4 DEF Inv, Consistent, MotionOK, EndsOK, Over, Quieted
<1> QED BY <1>5, <1>6, <1>7, <1>8, <1>9 DEF Inv, Consistent

LEMMA CancelKeeps == Inv /\ Cancel => Inv'
<1> SUFFICES ASSUME Inv, Cancel PROVE Inv'
  OBVIOUS
<1>1. /\ Between /\ job.state \in ACTIVE_STATES /\ Abort(job, preserved)
      /\ at = "idle" /\ preserved \in BOOLEAN
  BY Idle DEF Cancel
<1>2. Frame
  BY <1>1, Idle, LinesAsTheyAre DEF Cancel, Frame, children
<1>3. preserved' \in BOOLEAN => Typed
  BY DEF Cancel, Typed, Inv, TypeOK, people, children
<1>4. MayAbort(job)
  BY <1>1, JobKnown DEF Inv, Consistent, JobOK, MayAbort
<1> QED BY <1>1, <1>2, <1>3, <1>4, AbortKeeps

LEMMA FinishKeeps == Inv /\ Finish => Inv'
<1> SUFFICES ASSUME Inv, Finish PROVE Inv'
  OBVIOUS
<1>1. CASE job' = job
  <2>1. /\ chan' \in [Children -> ChannelType]
        /\ \A d \in Children : /\ chan'[d].request = chan[d].request
                               /\ chan'[d].answer = chan[d].answer
                               /\ chan'[d].pending = chan[d].pending
    BY InputClosed DEF Finish, Inv, TypeOK
  <2>2. TypeOK'
    BY <1>1, <2>1 DEF Finish, Inv, TypeOK
  <2>3. Unseen
    BY <1>1, <2>1 DEF Finish, Unseen
  <2> QED BY <2>2, <2>3, UnseenKeeps
<1>2. CASE job' # job
  <2>1. /\ job' = [job EXCEPT !.state = "COMPLETE"] /\ runner' = runner /\ chan' = chan
        /\ cell' = "ACKNOWLEDGED" /\ Between /\ job.state = "AWAITING_CELL_READY"
    BY <1>2 DEF Finish
  <2>2. Frame
    BY <2>1, Idle, LinesAsTheyAre DEF Finish, Frame
  <2>3. Typed
    BY <2>1 DEF Finish, Typed, Inv, TypeOK
  <2>4. MayRest(job, "COMPLETE")
    BY <2>1, Idle, JobKnown
    DEF MayRest, Inv, Consistent, JobOK, MotionOK, EndsOK, Quieted, Over
  <2>5. Rest(job, "COMPLETE")
    BY <2>1, Idle DEF Finish, Rest
  <2> QED BY <2>2, <2>3, <2>4, <2>5, RestKeeps
<1> QED BY <1>1, <1>2

(***************************************************************************)
(* The recorder                                                            *)
(***************************************************************************)
LEMMA Answered ==
  ASSUME Inv, NEW c \in Children, NEW r \in Replies, Request(c) # "none", chan' = Answer(c, r)
  PROVE  /\ chan' \in [Children -> ChannelType]
         /\ Request(c)' = "none" /\ Ans(c)' = r /\ chan'[c].pending
         /\ \A d \in Children \ {c} : /\ chan'[d] = chan[d]
                                      /\ Request(d)' = Request(d) /\ Ans(d)' = Ans(d)
<1> DEFINE k == [chan[c] EXCEPT !.request = "none", !.answer = r]
<1>1. chan \in [Children -> ChannelType] /\ chan' = [chan EXCEPT ![c] = k]
  BY DEF Inv, TypeOK, Answer
<1>2. chan[c].pending
  BY DEF Inv, Consistent, LinesOK
<1>3. k \in ChannelType /\ k.request = "none" /\ k.answer = r /\ k.pending
  BY <1>1, <1>2 DEF ChannelType
<1> HIDE DEF k
<1>4. /\ chan' \in [Children -> ChannelType] /\ chan'[c] = k
      /\ \A d \in Children \ {c} : chan'[d] = chan[d]
  BY <1>1, <1>3
<1> QED BY <1>3, <1>4 DEF Request, Ans

\* An answer that names a state is not silence.
LEMMA ReplyTyped ==
  \A ok \in BOOLEAN, s \in RecorderStates \cup ExecutorStates, n \in Notes :
      /\ Reply(ok, s, n) \in Replies /\ Reply(ok, s, n) # NoReply
      /\ Reply(ok, s, n).ok = ok /\ Reply(ok, s, n).state = s /\ Reply(ok, s, n).note = n
BY DEF Reply, NoReply, Replies

\* What a command may make of a live recorder.
Advances(r) ==
    /\ r \in Replies /\ r # NoReply /\ r.state \in RecorderStates
    /\ Sealed => r.state \notin {"IDLE", "RECORDING"}
    /\ Request("recorder") = "status" =>
          r.state = rec.state /\ (r.note = "none" => rec.wrote)
    /\ Request("recorder") = "trim" => r.state \in {"RECORDING"} \cup RecorderEnds
    /\ r.state = "COMMITTED" => Request("recorder") = "commit"

LEMMA ServedAdvances ==
  ASSUME Inv, rec.process = "running", Request("recorder") # "none",
         NEW r \in Served(Request("recorder")) \cup Broken(Request("recorder"))
  PROVE  Advances(r)
<1> DEFINE op == Request("recorder")
<1>1. /\ rec.state \in {"IDLE", "RECORDING", "FROZEN"}
      /\ op = "begin" => rec.state = "IDLE"
      /\ op = "trim" => rec.state = "RECORDING"
  BY DEF Inv, TypeOK, RecorderType, Consistent, RecorderOK
<1>2. Health \in Notes /\ (Health = "none" => rec.wrote)
  BY DEF Health
<1>3. CASE r \in Served(op)
  <2>1. \/ op = "status" /\ r = Reply(TRUE, rec.state, Health)
        \/ op = "begin" /\ r = Reply(TRUE, "RECORDING", "none")
        \/ op = "trim" /\ r = Reply(TRUE, "RECORDING", "none")
        \/ op = "freeze" /\ r = Reply(TRUE, "FROZEN", "none")
        \/ /\ op = "commit"
           /\ r \in {Reply(TRUE, "COMMITTED", "none"), Reply(FALSE, "FROZEN", "rejected")}
        \/ op = "abort" /\ r = Reply(TRUE, "ABORTED", "none")
        \/ op # "status" /\ r = Reply(FALSE, rec.state, "none")
    BY <1>3 DEF Served
  <2>2. r \in Replies /\ r # NoReply
    <3>1. \E ok \in BOOLEAN, s \in RecorderStates \cup ExecutorStates, n \in Notes :
             r = Reply(ok, s, n)
      <4> HIDE DEF op
      <4> QED BY <1>1, <1>2, <2>1
    <3> QED BY <3>1, ReplyTyped
  <2>3. op \in {"begin", "trim"} => rec.state # "FROZEN"
    BY <1>1
  <2> QED BY <1>1, <1>2, <2>1, <2>2, <2>3 DEF Reply, Advances, Sealed
<1>4. CASE r \in Broken(op)
  <2>1. PICK s \in {"QUARANTINED_COMMIT", "IDLE", "RECORDING", "ABORTED"} :
             /\ r = Reply(FALSE, s, "none")
             /\ op # "status" /\ (s = "IDLE" => op = "begin") /\ (s = "RECORDING" => op = "trim")
    BY <1>4 DEF Broken
  <2>2. r \in Replies /\ r # NoReply /\ r.state = s
    BY <2>1 DEF Reply, NoReply, Replies
  <2> QED BY <1>1, <2>1, <2>2 DEF Advances, Sealed
<1> QED BY <1>3, <1>4

\* A live recorder has not been heard to have ended.
LEMMA RecorderLive ==
  ASSUME Inv, rec.process = "running"
  PROVE  /\ rec.state \in {"IDLE", "RECORDING", "FROZEN"} /\ job.recorder \notin RecorderEnds
         /\ at \notin {"plan", "approve"}
         /\ at = "idle" => job.state \notin {"PLANNED", "APPROVED", "AWAITING_CELL_READY",
                                             "COMPLETE", "ABORTED", "QUARANTINED_COMMIT"}
BY DEF Inv, TypeOK, RecorderType, Consistent, RecorderOK, RecorderHeard, EndsOK

LEMMA RecorderAnswersKeeps ==
  ASSUME Inv, rec.process = "running", Request("recorder") # "none", faults' \in 0..MaxFaults,
         NEW r, Advances(r), RecorderAnswers(r)
  PROVE  Inv'
<1>1. /\ plan' = plan /\ job' = job /\ at' = at /\ sent' = sent /\ beat' = beat /\ choice' = choice
      /\ exe' = exe
  BY DEF RecorderAnswers, coordinator
<1>2. /\ chan' \in [Children -> ChannelType]
      /\ Request("recorder")' = "none" /\ Ans("recorder")' = r /\ chan'["recorder"].pending
      /\ chan'["executor"] = chan["executor"]
      /\ Request("executor")' = Request("executor") /\ Ans("executor")' = Ans("executor")
  BY Answered DEF RecorderAnswers, Advances
<1>3. /\ rec' \in RecorderType /\ rec'.state = r.state /\ rec'.wrote = rec.wrote
      /\ rec'.process = IF r.state \in RecorderEnds THEN "gone" ELSE "running"
  BY DEF RecorderAnswers, Advances, Inv, TypeOK, RecorderType
<1>4. sent \/ at \notin {"begin", "firstrow", "trim"}
  BY DEF Inv, Consistent, LinesOK
<1>5. TypeOK'
  BY <1>1, <1>2, <1>3 DEF RecorderAnswers, coordinator, Inv, TypeOK
<1>6. ExecutorOK'
  BY <1>1 DEF Inv, Consistent, ExecutorOK, RunOK, Route, SemanticLeg
<1>7. RecorderOK'
  BY <1>1, <1>2, <1>3, <1>4, RecorderLive
  DEF Inv, Consistent, RecorderOK, LinesOK, Advances, Target, Command
<1>8. LinesOK'
  BY <1>1, <1>2, <1>4 DEF Inv, Consistent, LinesOK, Advances, Target
<1>9. RecorderHeard'
  BY <1>1, <1>2, <1>3, RecorderLive
  DEF Inv, Consistent, RecorderHeard, LinesOK, Advances, Target, Command, Sealed
<1>10. ExecutorHeard'
  BY <1>1, <1>2 DEF Inv, Consistent, ExecutorHeard
<1>11. JobOK'
  BY <1>1, <1>2, <1>3 DEF Inv, Consistent, JobOK, Advances, Sealed
<1>12. MotionOK'
  BY <1>1, <1>2 DEF Inv, Consistent, MotionOK, Over
<1>13. EndsOK'
  BY <1>1, <1>2, <1>3, RecorderLive DEF Inv, Consistent, EndsOK, Advances
<1> QED BY <1>5, <1>6, <1>7, <1>8, <1>9, <1>10, <1>11, <1>12, <1>13 DEF Inv, Consistent

LEMMA RecorderServesKeeps == Inv /\ RecorderServes => Inv'
<1> SUFFICES ASSUME Inv, RecorderServes PROVE Inv'
  OBVIOUS
<1>1. PICK r \in Served(Request("recorder")) : RecorderAnswers(r)
  BY DEF RecorderServes
<1>2. Advances(r)
  BY ServedAdvances DEF RecorderServes
<1>3. faults' \in 0..MaxFaults
  BY DEF RecorderServes, Inv, TypeOK
<1> QED BY <1>1, <1>2, <1>3, RecorderAnswersKeeps DEF RecorderServes

LEMMA RecorderBreaksKeeps == Inv /\ RecorderBreaks => Inv'
<1> SUFFICES ASSUME Inv, RecorderBreaks PROVE Inv'
  OBVIOUS
<1>1. PICK r \in Broken(Request("recorder")) : RecorderAnswers(r)
  BY DEF RecorderBreaks
<1>2. Advances(r)
  BY ServedAdvances DEF RecorderBreaks
<1>3. faults' \in 0..MaxFaults
  BY ChildGone DEF RecorderBreaks
<1> QED BY <1>1, <1>2, <1>3, RecorderAnswersKeeps DEF RecorderBreaks

\* A recorder that is gone may have done what it was asked to, or aborted.
LEMMA RecorderGoneKeeps ==
  ASSUME Inv, rec.process = "running", faults' \in 0..MaxFaults,
         UNCHANGED <<plan, coordinator, chan, exe, cell>>,
         NEW s \in RecorderStates, rec' = [rec EXCEPT !.process = "gone", !.state = s],
         Sealed => s \notin {"IDLE", "RECORDING"},
         s = "COMMITTED" => Request("recorder") = "commit"
  PROVE  Inv'
<1>1. /\ plan' = plan /\ job' = job /\ at' = at /\ sent' = sent /\ beat' = beat /\ choice' = choice
      /\ exe' = exe /\ chan' = chan
  BY DEF coordinator
<1>2. /\ rec' \in RecorderType /\ rec'.state = s /\ rec'.wrote = rec.wrote /\ rec'.process = "gone"
  BY DEF Inv, TypeOK, RecorderType
<1>3. Ans("recorder").state \notin RecorderEnds
  BY RecorderLive DEF Inv, Consistent, RecorderOK, NoReply, Reply
<1>4. TypeOK'
  BY <1>1, <1>2 DEF coordinator, Inv, TypeOK
<1>5. ExecutorOK' /\ LinesOK' /\ ExecutorHeard'
  <2>1. ExecutorOK'
    BY <1>1 DEF Inv, Consistent, ExecutorOK, RunOK, Route, SemanticLeg
  <2>2. LinesOK'
    BY <1>1 DEF Inv, Consistent, LinesOK, Request, Ans, Target
  <2>3. ExecutorHeard'
    BY <1>1 DEF Inv, Consistent, ExecutorHeard, Ans
  <2> QED BY <2>1, <2>2, <2>3
<1>6. RecorderOK'
  BY <1>1, <1>2, RecorderLive DEF Inv, Consistent, RecorderOK, Request, Ans
<1>7. RecorderHeard'
  BY <1>1, <1>2, <1>3, RecorderLive DEF Inv, Consistent, RecorderHeard, Sealed, Ans
<1>8. JobOK'
  BY <1>1, <1>2 DEF Inv, Consistent, JobOK, Sealed, Request
<1>9. MotionOK'
  BY <1>1 DEF Inv, Consistent, MotionOK, Over, Request
<1>10. EndsOK'
  BY <1>1, <1>2, RecorderLive DEF Inv, Consistent, EndsOK, Request
<1> QED BY <1>4, <1>5, <1>6, <1>7, <1>8, <1>9, <1>10 DEF Inv, Consistent

LEMMA RecorderFaultsKeeps == Inv /\ RecorderFaults => Inv'
<1> SUFFICES ASSUME Inv, RecorderFaults PROVE Inv'
  OBVIOUS
<1>1. /\ rec.process = "running" /\ faults' \in 0..MaxFaults /\ rec \in RecorderType
      /\ UNCHANGED <<plan, coordinator, chan, exe, cell>>
  BY ChildGone DEF RecorderFaults, Inv, TypeOK
<1>2. CASE rec' = [rec EXCEPT !.healthy = FALSE]
  <2>0. rec' \in RecorderType
    BY <1>1, <1>2 DEF RecorderType
  <2>1. TypeOK'
    BY <1>1, <2>0 DEF Inv, TypeOK, coordinator
  <2>2. Unseen
    BY <1>1, <1>2 DEF Unseen, RecorderType, coordinator
  <2> QED BY <2>1, <2>2, UnseenKeeps
<1>3. CASE rec' = [rec EXCEPT !.process = "gone"]
  <2>1. TypeOK'
    BY <1>1, <1>3, ChildGone DEF Inv, TypeOK, coordinator
  <2>2. Unseen
    BY <1>1, <1>3 DEF Unseen, RecorderType, coordinator
  <2> QED BY <2>1, <2>2, UnseenKeeps
<1>4. CASE /\ Request("recorder") # "none"
           /\ \E r \in Served(Request("recorder")) :
                 rec' = [rec EXCEPT !.process = "gone", !.state = r.state]
  <2>1. PICK r \in Served(Request("recorder")) :
             rec' = [rec EXCEPT !.process = "gone", !.state = r.state]
    BY <1>4
  <2>2. Advances(r)
    BY <1>1, <1>4, ServedAdvances
  <2> QED BY <1>1, <2>1, <2>2, RecorderGoneKeeps DEF Advances
<1> QED BY <1>2, <1>3, <1>4 DEF RecorderFaults

LEMMA RecorderEndOfInputKeeps == Inv /\ RecorderEndOfInput => Inv'
<1> SUFFICES ASSUME Inv, RecorderEndOfInput PROVE Inv'
  OBVIOUS
<1> DEFINE s == IF rec.state \in OpenStates THEN "ABORTED" ELSE rec.state
<1>1. /\ rec.process = "running" /\ faults' \in 0..MaxFaults
      /\ UNCHANGED <<plan, coordinator, chan, exe, cell>>
  BY DEF RecorderEndOfInput, Inv, TypeOK
<1>2. s \in RecorderStates \ {"COMMITTED"} /\ (Sealed => s \notin {"IDLE", "RECORDING"})
  BY <1>1, RecorderLive DEF Sealed
<1>3. rec' = [rec EXCEPT !.process = "gone", !.state = s]
  BY DEF RecorderEndOfInput
<1> QED BY <1>1, <1>2, <1>3, RecorderGoneKeeps

LEMMA RowArrivesKeeps == Inv /\ RowArrives => Inv'
<1> SUFFICES ASSUME Inv, RowArrives PROVE Inv'
  OBVIOUS
<1>1. /\ plan' = plan /\ job' = job /\ at' = at /\ sent' = sent /\ beat' = beat /\ choice' = choice
      /\ exe' = exe /\ chan' = chan
  BY DEF RowArrives, coordinator
<1>2. /\ rec' \in RecorderType /\ rec'.state = rec.state /\ rec'.process = rec.process
      /\ rec'.wrote
  BY DEF RowArrives, Inv, TypeOK, RecorderType
<1>3. TypeOK'
  BY <1>1, <1>2 DEF RowArrives, coordinator, Inv, TypeOK
<1>4. ExecutorOK' /\ LinesOK' /\ ExecutorHeard'
  <2>1. ExecutorOK'
    BY <1>1 DEF Inv, Consistent, ExecutorOK, RunOK, Route, SemanticLeg
  <2>2. LinesOK'
    BY <1>1 DEF Inv, Consistent, LinesOK, Request, Ans, Target
  <2>3. ExecutorHeard'
    BY <1>1 DEF Inv, Consistent, ExecutorHeard, Ans
  <2> QED BY <2>1, <2>2, <2>3
<1>5. RecorderOK' /\ RecorderHeard'
  BY <1>1, <1>2 DEF Inv, Consistent, RecorderOK, RecorderHeard, Sealed, Request, Ans
<1>6. JobOK'
  BY <1>1, <1>2 DEF Inv, Consistent, JobOK, Sealed, Request
<1>7. MotionOK' /\ EndsOK'
  BY <1>1, <1>2 DEF Inv, Consistent, MotionOK, EndsOK, Over, Request
<1> QED BY <1>3, <1>4, <1>5, <1>6, <1>7 DEF Inv, Consistent

(***************************************************************************)
(* The executor                                                            *)
(***************************************************************************)
LEMMA RouteShape ==
  ASSUME plan \in PlanShapes
  PROVE  /\ SemanticLeg \in {1, 3} /\ (SemanticLeg = 3 <=> plan.holds)
         /\ Len(Route) = (IF plan.release THEN SemanticLeg + 1 ELSE SemanticLeg)
         /\ Len(Route) \in 1..4
         /\ plan.holds => Route[1] = "PRECONTACT_HUMAN" /\ Route[2] = "GRASP_VERDICT"
         /\ Route[SemanticLeg] = "SEMANTIC_VERDICT"
         /\ plan.release => Route[SemanticLeg + 1] = "RELEASE_VERDICT"
<1> DEFINE a  == IF plan.holds THEN <<"PRECONTACT_HUMAN", "GRASP_VERDICT">> ELSE <<>>
           b  == <<"SEMANTIC_VERDICT">>
           c  == IF plan.release THEN <<"RELEASE_VERDICT">> ELSE <<>>
           ab == a \o b
<1>1. /\ a \in Seq(Holds) /\ Len(a) = IF plan.holds THEN 2 ELSE 0
      /\ plan.holds => a[1] = "PRECONTACT_HUMAN" /\ a[2] = "GRASP_VERDICT"
  OBVIOUS
<1>2. b \in Seq(Holds) /\ Len(b) = 1 /\ b[1] = "SEMANTIC_VERDICT"
  OBVIOUS
<1>3. /\ c \in Seq(Holds) /\ Len(c) = IF plan.release THEN 1 ELSE 0
      /\ plan.release => c[1] = "RELEASE_VERDICT"
  <2>1. CASE plan.release
    BY <2>1
  <2>2. CASE ~plan.release
    BY <2>2
  <2> QED BY <2>1, <2>2
<1>4. Route = ab \o c
  BY DEF Route
<1> HIDE DEF a, b, c, ab
<1>5. /\ ab \in Seq(Holds) /\ Len(ab) = Len(a) + 1
      /\ \A i \in 1..Len(a) + 1 : ab[i] = IF i <= Len(a) THEN a[i] ELSE b[i - Len(a)]
  <2>1. /\ ab \in Seq(Holds) /\ Len(ab) = Len(a) + Len(b)
        /\ \A i \in 1..Len(a) + Len(b) : ab[i] = IF i <= Len(a) THEN a[i] ELSE b[i - Len(a)]
    BY <1>1, <1>2, ConcatProperties DEF ab
  <2> QED BY <1>2, <2>1
<1>6. /\ Len(Route) = Len(ab) + Len(c)
      /\ \A i \in 1..Len(ab) + Len(c) : Route[i] = IF i <= Len(ab) THEN ab[i] ELSE c[i - Len(ab)]
  BY <1>3, <1>4, <1>5, ConcatProperties
<1>7. SemanticLeg = Len(a) + 1 /\ SemanticLeg \in {1, 3} /\ (SemanticLeg = 3 <=> plan.holds)
  BY <1>1 DEF SemanticLeg, PlanShapes
<1>8. CASE plan.holds
  BY <1>1, <1>2, <1>3, <1>5, <1>6, <1>7, <1>8
<1>9. CASE ~plan.holds
  BY <1>1, <1>2, <1>3, <1>5, <1>6, <1>7, <1>9
<1> QED BY <1>8, <1>9

\* The route is a sequence of holds.
LEMMA RouteHolds ==
  ASSUME plan \in PlanShapes
  PROVE  \A i \in 1..Len(Route) : Route[i] \in Holds
<1>1. CASE plan.holds
  BY <1>1, RouteShape
<1>2. CASE ~plan.holds
  BY <1>2, RouteShape
<1> QED BY <1>1, <1>2

\* A hold is at its place in the route.
LEMMA HoldLegs ==
  ASSUME Inv
  PROVE  /\ Len(Route) \in 1..4
         /\ exe.state \in Holds => exe.leg \in 1..Len(Route)
         /\ exe.state = "PRECONTACT_HUMAN" => plan.holds /\ exe.leg = 1
         /\ exe.state = "GRASP_VERDICT" => plan.holds /\ exe.leg = 2
         /\ exe.state = "SEMANTIC_VERDICT" => exe.leg = SemanticLeg
         /\ exe.state = "RELEASE_VERDICT" => plan.release /\ exe.leg = SemanticLeg + 1
<1>1. plan \in PlanShapes
  BY PlansAssumption DEF Inv, TypeOK
<1>2. /\ Len(Route) \in 1..4
      /\ \A i \in 1..Len(Route) :
           /\ Route[i] = "PRECONTACT_HUMAN" => plan.holds /\ i = 1
           /\ Route[i] = "GRASP_VERDICT" => plan.holds /\ i = 2
           /\ Route[i] = "SEMANTIC_VERDICT" => i = SemanticLeg
           /\ Route[i] = "RELEASE_VERDICT" => plan.release /\ i = SemanticLeg + 1
  <2>1. Len(Route) \in 1..4
    BY <1>1, RouteShape
  <2>2. CASE plan.holds
    BY <1>1, <2>1, <2>2, RouteShape
  <2>3. CASE ~plan.holds
    BY <1>1, <2>1, <2>3, RouteShape
  <2> QED BY <2>1, <2>2, <2>3
<1>3. exe.leg \in 1..5
  BY DEF Inv, TypeOK, ExecutorType
<1>4. exe.state \in Holds => exe.leg \in 1..Len(Route) /\ exe.state = Route[exe.leg]
  BY <1>2, <1>3 DEF Inv, Consistent, ExecutorOK, RunOK
<1> QED BY <1>2, <1>4

\* Only the executor changes, and perhaps its line.
ExecutorOnly ==
    /\ plan' = plan /\ job' = job /\ at' = at /\ sent' = sent /\ beat' = beat /\ choice' = choice
    /\ rec' = rec
    /\ Request("recorder")' = Request("recorder") /\ Ans("recorder")' = Ans("recorder")
    /\ Request("executor")' \in {"none", Request("executor")}

\* The run e, whatever the executor is about to do next.
Becomes(e) == /\ exe' \in ExecutorType
              /\ exe'.state = e.state /\ exe'.leg = e.leg /\ exe'.moving = e.moving
              /\ exe'.certain = e.certain /\ exe'.grasp = e.grasp /\ exe'.semantic = e.semantic

\* What the coordinator relies on stays so.
StaysTrue(e) ==
    /\ ~job.leased => e.state \in {"IDLE", "PLANNED", "APPROVED"}
    /\ exe.state = "COMPLETED" => e.state = "COMPLETED" /\ e.semantic = exe.semantic
    /\ job.semantic # "none" => e.semantic = exe.semantic
    /\ at = "freeze" => e.state \in {"SEMANTIC_VERDICT", "BLOCKED"} /\ ~e.moving
    /\ (at = "abort" \/ Over) /\ ~job.cancelError => ~e.moving

LEMMA ExecutorKeeps ==
  ASSUME Inv, TypeOK', LinesOK', ExecutorHeard', ExecutorOnly,
         NEW e, Becomes(e), RunOK(e), StaysTrue(e)
  PROVE  Inv'
<1>1. ExecutorOK'
  BY DEF ExecutorOK, RunOK, Becomes, ExecutorOnly, Route, SemanticLeg
<1>2. RecorderOK' /\ RecorderHeard'
  BY DEF Inv, Consistent, RecorderOK, RecorderHeard, ExecutorOnly, Sealed
<1>3. JobOK'
  BY DEF Inv, Consistent, JobOK, ExecutorOnly, Becomes, StaysTrue, Sealed
<1>4. MotionOK'
  BY DEF Inv, Consistent, MotionOK, ExecutorOnly, Becomes, StaysTrue, Over
<1>5. EndsOK'
  BY DEF Inv, Consistent, EndsOK, ExecutorOnly, Becomes, StaysTrue
<1> QED BY <1>1, <1>2, <1>3, <1>4, <1>5 DEF Inv, Consistent

\* A run that starts nothing: it goes on as it is, stops, or comes to rest.
Calm(e) ==
    /\ e.semantic = exe.semantic /\ (e.moving => exe.moving)
    /\ \/ e.state = exe.state
       \/ Active(exe) /\ e.state = "BLOCKED"
       \/ exe.state = "EXECUTING" /\ e.state \in Holds \cup {"COMPLETED"}

LEMMA CalmStays ==
  ASSUME Inv, NEW e, Calm(e)
  PROVE  StaysTrue(e)
BY DEF Inv, Consistent, MotionOK, Calm, StaysTrue, Active

\* A step of the executor that nobody asked for.
LEMMA CalmKeeps ==
  ASSUME Inv, NEW e, Calm(e), RunOK(e), Becomes(e),
         UNCHANGED <<plan, coordinator, chan, rec>>,
         cell' \in {"READY", "IN_PROGRESS", "FAULT", "ACKNOWLEDGED"}, faults' \in 0..MaxFaults
  PROVE  Inv'
<1>1. ExecutorOnly /\ chan' = chan
  BY DEF ExecutorOnly, coordinator, Request, Ans
<1>2. TypeOK'
  BY DEF Inv, TypeOK, coordinator, Becomes
<1>3. LinesOK'
  BY <1>1 DEF Inv, Consistent, LinesOK, ExecutorOnly, Request, Ans, Target
<1>4. ExecutorHeard'
  BY <1>1 DEF Inv, Consistent, ExecutorHeard, ExecutorOnly, Becomes, Calm, Active, Ans
<1> QED BY <1>1, <1>2, <1>3, <1>4, CalmStays, ExecutorKeeps

\* The answer r says of the run e what the coordinator will take it for.
Says(e, r) ==
    /\ r \in Replies /\ r.state \in ExecutorStates
    /\ r.state = "COMPLETED" => e.state = "COMPLETED"
    /\ r.state = "BLOCKED" /\ r.note \notin {"undurable", "cancel_error"} =>
          e.state = "BLOCKED" /\ ~e.moving
    /\ r.state = "SEMANTIC_VERDICT" => e.state \in {"SEMANTIC_VERDICT", "BLOCKED"} /\ ~e.moving
    /\ Request("executor") = "semantic_verdict" /\ Is(r, "EXECUTING") => e.semantic = choice
    /\ Request("executor") = "release_verdict" =>
          r.state \in {"IDLE", "BLOCKED", "COMPLETED"} /\ (r.state = "BLOCKED" => ~e.moving)

LEMMA AnswerKeeps ==
  ASSUME Inv, Request("executor") # "none", NEW e \in ExecutorType, NEW r,
         RunOK(e), StaysTrue(e), Says(e, r), ExecutorAnswers(e, r),
         cell' \in {"READY", "IN_PROGRESS", "FAULT", "ACKNOWLEDGED"}, faults' \in 0..MaxFaults
  PROVE  Inv'
<1>1. r \in Replies /\ chan' = Answer("executor", r)
  BY DEF Says, ExecutorAnswers
<1>2. /\ chan' \in [Children -> ChannelType]
      /\ Request("executor")' = "none" /\ Ans("executor")' = r /\ chan'["executor"].pending
      /\ chan'["recorder"] = chan["recorder"]
      /\ Request("recorder")' = Request("recorder") /\ Ans("recorder")' = Ans("recorder")
  BY <1>1, Answered
<1>3. ExecutorOnly
  BY <1>2 DEF ExecutorOnly, ExecutorAnswers, coordinator
<1>4. Becomes(e)
  BY DEF ExecutorAnswers, Becomes, ExecutorType
<1>5. TypeOK'
  BY <1>2, <1>4 DEF Inv, TypeOK, ExecutorAnswers, coordinator, Becomes
<1>6. LinesOK'
  BY <1>2, <1>3 DEF Inv, Consistent, LinesOK, ExecutorOnly, Says, Target
<1>7. sent /\ at \in {"semantic_verdict", "release_verdict"} => Request("executor") = at
  BY DEF Inv, Consistent, LinesOK, Target, Command
<1>8. job.executor = "COMPLETED" => e.state = "COMPLETED"
  BY DEF Inv, Consistent, ExecutorHeard, StaysTrue
<1>9. ExecutorHeard'
  BY <1>2, <1>3, <1>4, <1>7, <1>8 DEF ExecutorHeard, ExecutorOnly, Becomes, Says
<1> QED BY <1>3, <1>4, <1>5, <1>6, <1>9, ExecutorKeeps

\* Whoever starts a goal was asked by a coordinator that will ask before it
\* takes the robot for stopped.
LEMMA MayMove ==
  ASSUME Inv, Request("executor") \in MotionCalls, exe.state \in Holds \cup {"APPROVED"},
         exe.state = "APPROVED" => Request("executor") = "execute"
  PROVE  /\ job.leased /\ at # "freeze"
         /\ ~((at = "abort" \/ Over) /\ ~job.cancelError)
BY DEF Inv, Consistent, JobOK, MotionOK, Over

\* The next leg after a hold, and what it may carry.
LEMMA NextLegOK ==
  ASSUME Inv, exe.state \in Holds \ {"RELEASE_VERDICT"}
  PROVE  /\ NextLeg \in ExecutorType /\ NextLeg.state = "EXECUTING" /\ NextLeg.moving
         /\ NextLeg.leg = exe.leg + 1 /\ NextLeg.grasp = exe.grasp /\ NextLeg.certain = exe.certain
         /\ NextLeg.semantic = exe.semantic
         /\ exe.leg + 1 <= Len(Route) + 1 /\ exe.leg \in 1..4 /\ exe.leg <= SemanticLeg
<1>1. exe.leg \in 1..4 /\ exe.leg + 1 <= Len(Route) + 1 /\ exe.leg <= SemanticLeg
  BY HoldLegs DEF SemanticLeg
<1> DEFINE e == [exe EXCEPT !.leg = @ + 1]
<1>2. exe \in ExecutorType
  BY DEF Inv, TypeOK
<1>3. /\ e \in ExecutorType /\ e.leg = exe.leg + 1 /\ e.grasp = exe.grasp
      /\ e.certain = exe.certain /\ e.semantic = exe.semantic
  BY <1>1, <1>2 DEF ExecutorType
<1>4. NextLeg = [e EXCEPT !.state = "EXECUTING", !.moving = TRUE]
  BY DEF NextLeg, Motion
<1> HIDE DEF e
<1> QED BY <1>1, <1>3, <1>4 DEF ExecutorType

\* The conditions of Says, one by one.
LEMMA SaysSo ==
  ASSUME NEW e, NEW ok \in BOOLEAN, NEW s \in ExecutorStates, NEW n \in Notes,
         s = "COMPLETED" => e.state = "COMPLETED",
         s = "BLOCKED" /\ n \notin {"undurable", "cancel_error"} =>
            e.state = "BLOCKED" /\ ~e.moving,
         s = "SEMANTIC_VERDICT" => e.state \in {"SEMANTIC_VERDICT", "BLOCKED"} /\ ~e.moving,
         ok /\ s = "EXECUTING" /\ Request("executor") = "semantic_verdict" => e.semantic = choice,
         Request("executor") = "release_verdict" =>
            s \in {"IDLE", "BLOCKED", "COMPLETED"} /\ (s = "BLOCKED" => ~e.moving)
  PROVE  Says(e, Reply(ok, s, n))
<1> DEFINE r == Reply(ok, s, n)
<1>1. r \in Replies /\ r.ok = ok /\ r.state = s /\ r.note = n
  BY ReplyTyped
<1> HIDE DEF r
<1>2. Says(e, r)
  BY <1>1 DEF Says, Is
<1> QED BY <1>2 DEF r

\* A command that is served and accepted.
LEMMA AcceptKeeps ==
  ASSUME Inv, NEW op \in Commands \ {"none"}, NEW e \in ExecutorType, Accepts(op, e),
         RunOK(e), StaysTrue(e), Says(e, Reply(TRUE, e.state, "none")),
         cell' \in {"READY", "IN_PROGRESS", "FAULT", "ACKNOWLEDGED"}
  PROVE  Inv'
<1>1. Request("executor") # "none"
  BY DEF Accepts, Serving
<1>2. faults' \in 0..MaxFaults
  BY DEF Accepts, Inv, TypeOK
<1> QED BY <1>1, <1>2, AnswerKeeps DEF Accepts

LEMMA PlanCommandKeeps == Inv /\ PlanCommand => Inv'
<1> SUFFICES ASSUME Inv, PlanCommand PROVE Inv'
  OBVIOUS
<1> DEFINE e == [exe EXCEPT !.state = "PLANNED"]
<1>1. exe.state = "IDLE" /\ Accepts("plan", e) /\ cell' = cell
  BY DEF PlanCommand
<1>2. /\ e \in ExecutorType /\ e.state = "PLANNED" /\ e.leg = exe.leg /\ e.moving = exe.moving
      /\ e.certain = exe.certain /\ e.grasp = exe.grasp /\ e.semantic = exe.semantic
  BY DEF Inv, TypeOK, ExecutorType
<1> HIDE DEF e
<1>3. RunOK(e)
  BY <1>1, <1>2 DEF Inv, Consistent, ExecutorOK, RunOK
<1>4. StaysTrue(e)
  BY <1>1, <1>2 DEF Inv, Consistent, MotionOK, StaysTrue
<1>5. Request("executor") = "plan"
  BY <1>1 DEF Accepts, Serving
<1>6. Says(e, Reply(TRUE, e.state, "none"))
  BY <1>2, <1>5, SaysSo
<1> QED BY <1>1, <1>2, <1>3, <1>4, <1>6, AcceptKeeps DEF Inv, TypeOK

LEMMA ApproveCommandKeeps == Inv /\ ApproveCommand => Inv'
<1> SUFFICES ASSUME Inv, ApproveCommand PROVE Inv'
  OBVIOUS
<1> DEFINE e == [exe EXCEPT !.state = "APPROVED"]
<1>1. exe.state = "PLANNED" /\ Accepts("approve", e) /\ cell' = cell
  BY DEF ApproveCommand
<1>2. /\ e \in ExecutorType /\ e.state = "APPROVED" /\ e.leg = exe.leg /\ e.moving = exe.moving
      /\ e.certain = exe.certain /\ e.grasp = exe.grasp /\ e.semantic = exe.semantic
  BY DEF Inv, TypeOK, ExecutorType
<1> HIDE DEF e
<1>3. RunOK(e)
  BY <1>1, <1>2 DEF Inv, Consistent, ExecutorOK, RunOK
<1>4. StaysTrue(e)
  BY <1>1, <1>2 DEF Inv, Consistent, MotionOK, StaysTrue
<1>5. Request("executor") = "approve"
  BY <1>1 DEF Accepts, Serving
<1>6. Says(e, Reply(TRUE, e.state, "none"))
  BY <1>2, <1>5, SaysSo
<1> QED BY <1>1, <1>2, <1>3, <1>4, <1>6, AcceptKeeps DEF Inv, TypeOK

LEMMA HeartbeatKeeps == Inv /\ Heartbeat => Inv'
<1> SUFFICES ASSUME Inv, Heartbeat PROVE Inv'
  OBVIOUS
<1> DEFINE e == [exe EXCEPT !.lapsed = FALSE]
<1>1. Active(exe) /\ Accepts("heartbeat", e) /\ cell' = cell
  BY DEF Heartbeat
<1>2. /\ e \in ExecutorType /\ e.state = exe.state /\ e.leg = exe.leg /\ e.moving = exe.moving
      /\ e.certain = exe.certain /\ e.grasp = exe.grasp /\ e.semantic = exe.semantic
  BY DEF Inv, TypeOK, ExecutorType
<1> HIDE DEF e
<1>3. RunOK(e)
  BY <1>2 DEF Inv, Consistent, ExecutorOK, RunOK
<1>4. StaysTrue(e)
  BY <1>2, CalmStays DEF Calm
<1>5. Request("executor") = "heartbeat"
  BY <1>1 DEF Accepts, Serving
<1>6. Says(e, Reply(TRUE, e.state, "none"))
  BY <1>1, <1>2, <1>5, SaysSo DEF Active, Inv, Consistent, ExecutorOK, RunOK
<1> QED BY <1>1, <1>2, <1>3, <1>4, <1>6, AcceptKeeps DEF Inv, TypeOK

LEMMA ExecuteKeeps == Inv /\ Execute => Inv'
<1> SUFFICES ASSUME Inv, Execute PROVE Inv'
  OBVIOUS
<1> DEFINE e == [Motion(exe) EXCEPT !.lapsed = FALSE]
<1>1. exe.state = "APPROVED" /\ Accepts("execute", e) /\ cell' = "IN_PROGRESS"
  BY DEF Execute
<1>2. /\ e \in ExecutorType /\ e.state = "EXECUTING" /\ e.leg = exe.leg
      /\ e.certain = exe.certain /\ e.grasp = exe.grasp /\ e.semantic = exe.semantic
  BY DEF Inv, TypeOK, ExecutorType, Motion
<1> HIDE DEF e
<1>3. Request("executor") = "execute"
  BY <1>1 DEF Accepts, Serving
<1>4. RunOK(e)
  BY <1>1, <1>2, HoldLegs DEF Inv, Consistent, ExecutorOK, RunOK
<1>5. StaysTrue(e)
  BY <1>1, <1>2, <1>3, MayMove DEF StaysTrue
<1>6. Says(e, Reply(TRUE, e.state, "none"))
  BY <1>2, <1>3, SaysSo
<1> QED BY <1>1, <1>2, <1>4, <1>5, <1>6, AcceptKeeps

\* Nothing was judged before the semantic verdict.
LEMMA Unjudged ==
  ASSUME Inv, exe.state \in {"SEMANTIC_VERDICT", "PRECONTACT_HUMAN", "GRASP_VERDICT"}
  PROVE  exe.semantic = "none" /\ job.semantic = "none"
<1>1. exe.leg <= SemanticLeg /\ exe.leg \in 1..4 /\ SemanticLeg \in {1, 3}
  BY NextLegOK DEF SemanticLeg
<1> QED BY <1>1 DEF Inv, Consistent, ExecutorOK, RunOK, JobOK

LEMMA ConfirmKeeps == Inv /\ Confirm => Inv'
<1> SUFFICES ASSUME Inv, Confirm PROVE Inv'
  OBVIOUS
<1>1. exe.state = "PRECONTACT_HUMAN" /\ Accepts("confirm", NextLeg) /\ cell' = cell
  BY DEF Confirm
<1>2. Request("executor") = "confirm"
  BY <1>1 DEF Accepts, Serving
<1>3. exe.leg = 1
  BY <1>1, HoldLegs
<1>4. RunOK(NextLeg)
  BY <1>1, <1>3, NextLegOK, Unjudged DEF RunOK
<1>5. StaysTrue(NextLeg)
  BY <1>1, <1>2, NextLegOK, MayMove DEF StaysTrue
<1>6. Says(NextLeg, Reply(TRUE, NextLeg.state, "none"))
  BY <1>1, <1>2, NextLegOK, SaysSo
<1> QED BY <1>1, <1>4, <1>5, <1>6, NextLegOK, AcceptKeeps DEF Inv, TypeOK

LEMMA GraspVerdictKeeps == Inv /\ GraspVerdict => Inv'
<1> SUFFICES ASSUME Inv, GraspVerdict PROVE Inv'
  OBVIOUS
<1> DEFINE e == [NextLeg EXCEPT !.grasp = choice]
<1>1. /\ exe.state = "GRASP_VERDICT" /\ choice = "PASS" /\ Accepts("grasp_verdict", e)
      /\ cell' = cell
  BY DEF GraspVerdict
<1>2. /\ e \in ExecutorType /\ e.state = "EXECUTING" /\ e.leg = exe.leg + 1
      /\ e.grasp = "PASS" /\ e.semantic = exe.semantic
  BY <1>1, NextLegOK DEF ExecutorType
<1> HIDE DEF e
<1>3. Request("executor") = "grasp_verdict"
  BY <1>1 DEF Accepts, Serving
<1>4. RunOK(e)
  BY <1>1, <1>2, NextLegOK, Unjudged DEF RunOK
<1>5. StaysTrue(e)
  BY <1>1, <1>2, <1>3, MayMove DEF StaysTrue
<1>6. Says(e, Reply(TRUE, e.state, "none"))
  BY <1>2, <1>3, SaysSo
<1> QED BY <1>1, <1>2, <1>4, <1>5, <1>6, AcceptKeeps DEF Inv, TypeOK

LEMMA SemanticVerdictKeeps == Inv /\ SemanticVerdict => Inv'
<1> SUFFICES ASSUME Inv, SemanticVerdict PROVE Inv'
  OBVIOUS
<1> DEFINE e == [NextLeg EXCEPT !.semantic = choice]
<1>1. exe.state = "SEMANTIC_VERDICT" /\ Accepts("semantic_verdict", e) /\ cell' = cell
  BY DEF SemanticVerdict
<1>2. Request("executor") = "semantic_verdict"
  BY <1>1 DEF Accepts, Serving
<1>3. choice \in {"PASS", "FAIL"}
  BY <1>1, <1>2 DEF Inv, Consistent, JobOK
<1>4. /\ e \in ExecutorType /\ e.state = "EXECUTING" /\ e.leg = exe.leg + 1
      /\ e.grasp = exe.grasp /\ e.semantic = choice
  BY <1>1, <1>3, NextLegOK DEF ExecutorType
<1> HIDE DEF e
<1>5. exe.leg = SemanticLeg /\ SemanticLeg \in {1, 3} /\ (plan.holds => exe.leg > 2)
  BY <1>1, HoldLegs DEF SemanticLeg
<1>6. RunOK(e)
  BY <1>1, <1>4, <1>5, NextLegOK DEF Inv, Consistent, ExecutorOK, RunOK
<1>7. StaysTrue(e)
  BY <1>1, <1>2, <1>4, MayMove, Unjudged DEF StaysTrue
<1>8. Says(e, Reply(TRUE, e.state, "none"))
  BY <1>2, <1>4, SaysSo
<1> QED BY <1>1, <1>4, <1>6, <1>7, <1>8, AcceptKeeps DEF Inv, TypeOK

LEMMA ReleaseVerdictKeeps == Inv /\ ReleaseVerdict => Inv'
<1> SUFFICES ASSUME Inv, ReleaseVerdict PROVE Inv'
  OBVIOUS
<1> DEFINE e == [exe EXCEPT !.state = "COMPLETED"]
<1>1. exe.state = "RELEASE_VERDICT" /\ Accepts("release_verdict", e) /\ cell' = cell
  BY DEF ReleaseVerdict
<1>2. /\ e \in ExecutorType /\ e.state = "COMPLETED" /\ e.leg = exe.leg /\ e.moving = exe.moving
      /\ e.grasp = exe.grasp /\ e.semantic = exe.semantic
  BY DEF Inv, TypeOK, ExecutorType
<1> HIDE DEF e
<1>3. Request("executor") = "release_verdict"
  BY <1>1 DEF Accepts, Serving
<1>4. exe.leg >= Len(Route) /\ ~exe.moving
  <2>1. plan.release /\ exe.leg = SemanticLeg + 1
    BY <1>1, HoldLegs
  <2>2. Len(Route) = SemanticLeg + 1 /\ SemanticLeg \in {1, 3}
    BY <2>1, RouteShape, PlansAssumption DEF Inv, TypeOK
  <2> QED BY <1>1, <2>1, <2>2 DEF Inv, Consistent, ExecutorOK, RunOK
<1>5. RunOK(e)
  BY <1>1, <1>2, <1>4 DEF Inv, Consistent, ExecutorOK, RunOK
<1>6. StaysTrue(e)
  BY <1>1, <1>2, <1>4 DEF Inv, Consistent, MotionOK, StaysTrue
<1>7. Says(e, Reply(TRUE, e.state, "none"))
  BY <1>2, <1>3, SaysSo
<1> QED BY <1>1, <1>2, <1>5, <1>6, <1>7, AcceptKeeps DEF Inv, TypeOK

\* What a stop leaves of a run, and what it says.
LEMMA StopTells ==
  ASSUME Inv, NEW e \in ExecutorType, NEW s \in Stops(e), Fault(e, s)
  PROVE  /\ s \in ExecutorType /\ s.state = "BLOCKED" /\ s.leg = e.leg /\ s.grasp = e.grasp
         /\ s.semantic = e.semantic /\ s.process = e.process
         /\ s.moving => e.moving /\ ~s.certain
         /\ cell' \in {"READY", "IN_PROGRESS", "FAULT", "ACKNOWLEDGED"}
         /\ faults' \in 0..MaxFaults
<1>1. CASE s = Stopped(e)
  <2>1. /\ s \in ExecutorType /\ s.state = "BLOCKED" /\ s.leg = e.leg /\ s.grasp = e.grasp
        /\ s.semantic = e.semantic /\ s.process = e.process /\ ~s.moving
    BY <1>1 DEF Stopped, ExecutorType
  <2> QED BY <1>1, <2>1 DEF Fault, Inv, TypeOK
<1>2. CASE s # Stopped(e)
  <2>1. s \in BadlyStopped(e) /\ faults < MaxFaults /\ (s.moving => ~s.certain)
    BY <1>2 DEF Stops
  <2>2. PICK h \in Halts(e) :
             s = [e EXCEPT !.state = "BLOCKED", !.moving = h.moving, !.certain = h.certain,
                           !.durable = h.durable]
    BY <2>1 DEF BadlyStopped
  <2>3. h.moving \in BOOLEAN /\ h.certain \in BOOLEAN /\ h.durable \in BOOLEAN
        /\ (h.moving => e.moving)
    BY DEF ExecutorType, Halts
  <2>4. /\ s \in ExecutorType /\ s.state = "BLOCKED" /\ s.leg = e.leg /\ s.grasp = e.grasp
        /\ s.semantic = e.semantic /\ s.process = e.process /\ s.moving = h.moving
    BY <2>2, <2>3 DEF ExecutorType
  <2>5. faults' \in 0..MaxFaults
    BY <1>2, <2>1, ChildGone DEF Fault
  <2>6. cell' \in {"READY", "IN_PROGRESS", "FAULT", "ACKNOWLEDGED"}
    BY DEF Fault, Inv, TypeOK
  <2> QED BY <2>1, <2>3, <2>4, <2>5, <2>6
<1> QED BY <1>1, <1>2

\* A stopped run is a run, if what it stopped was one.
LEMMA StopRunOK ==
  ASSUME NEW e, NEW s, s.state = "BLOCKED", s.leg = e.leg, s.semantic = e.semantic,
         s.moving => e.moving /\ ~s.certain,
         e.semantic # "none" => e.leg > SemanticLeg
  PROVE  RunOK(s)
BY DEF RunOK

\* However the run e is stopped, the coordinator is right.
MayStop(e) == \A s : /\ s.state = "BLOCKED" /\ s.semantic = e.semantic
                     /\ s.moving => e.moving
                     => StaysTrue(s)

\* A command that faults the run e.
LEMMA FaultedKeeps ==
  ASSUME Inv, NEW op \in Commands \ {"none"}, NEW e \in ExecutorType, FaultedBy(op, e),
         e.semantic # "none" => e.leg > SemanticLeg,
         op = "release_verdict" => ~e.moving,
         MayStop(e)
  PROVE  Inv'
<1>1. PICK s \in Stops(e) : Fault(e, s) /\ ExecutorAnswers(s, Reply(FALSE, "BLOCKED", Report(s)))
  BY DEF FaultedBy
<1>2. /\ s \in ExecutorType /\ s.state = "BLOCKED" /\ s.leg = e.leg /\ s.grasp = e.grasp
      /\ s.semantic = e.semantic
      /\ s.moving => e.moving /\ ~s.certain
      /\ cell' \in {"READY", "IN_PROGRESS", "FAULT", "ACKNOWLEDGED"}
      /\ faults' \in 0..MaxFaults
  BY <1>1, StopTells
<1>3. Request("executor") = op
  BY DEF FaultedBy, Serving
<1>4. RunOK(s)
  BY <1>2, StopRunOK
<1>5. StaysTrue(s)
  BY <1>2 DEF MayStop
<1>6. Report(s) \in Notes /\ (Report(s) \notin {"undurable", "cancel_error"} => ~s.moving)
  BY <1>2 DEF Report
<1>7. Says(s, Reply(FALSE, "BLOCKED", Report(s)))
  BY <1>2, <1>3, <1>6, SaysSo
<1> QED BY <1>1, <1>2, <1>3, <1>4, <1>5, <1>7, AnswerKeeps

\* A run that was to move, stopped on the way.
LEMMA StoppedMove ==
  ASSUME Inv, Request("executor") \in MotionCalls, exe.state \in Holds \cup {"APPROVED"},
         exe.state = "APPROVED" => Request("executor") = "execute",
         NEW e, e.semantic = exe.semantic
  PROVE  MayStop(e)
<1> SUFFICES ASSUME NEW s, s.state = "BLOCKED", s.semantic = exe.semantic PROVE StaysTrue(s)
  BY DEF MayStop
<1> QED BY MayMove DEF StaysTrue

LEMMA CommandFaultsKeeps == Inv /\ CommandFaults => Inv'
<1> SUFFICES ASSUME Inv, CommandFaults PROVE Inv'
  OBVIOUS
<1>1. exe \in ExecutorType /\ (exe.semantic # "none" => exe.leg > SemanticLeg)
  BY DEF Inv, TypeOK, Consistent, ExecutorOK, RunOK
<1>2. \A op : \A e : FaultedBy(op, e) => Request("executor") = op
  BY DEF FaultedBy, Serving
<1>3. CASE exe.state = "APPROVED" /\ FaultedBy("execute", Motion(exe))
  <2>1. /\ Motion(exe) \in ExecutorType /\ Motion(exe).semantic = exe.semantic
        /\ Motion(exe).leg = exe.leg
    BY <1>1 DEF Motion, ExecutorType
  <2>2. MayStop(Motion(exe))
    BY <1>2, <1>3, <2>1, StoppedMove
  <2> QED BY <1>1, <1>3, <2>1, <2>2, FaultedKeeps
<1>4. CASE exe.state = "PRECONTACT_HUMAN" /\ FaultedBy("confirm", NextLeg)
  <2>1. MayStop(NextLeg)
    BY <1>2, <1>4, NextLegOK, StoppedMove
  <2> QED BY <1>4, <2>1, NextLegOK, Unjudged, FaultedKeeps
<1>5. CASE exe.state = "GRASP_VERDICT" /\ FaultedBy("grasp_verdict", NextLeg)
  <2>1. MayStop(NextLeg)
    BY <1>2, <1>5, NextLegOK, StoppedMove
  <2> QED BY <1>5, <2>1, NextLegOK, Unjudged, FaultedKeeps
<1>6. CASE exe.state = "GRASP_VERDICT" /\ FaultedBy("grasp_verdict", exe)
  <2>1. MayStop(exe)
    BY <1>2, <1>6, StoppedMove
  <2> QED BY <1>1, <1>6, <2>1, FaultedKeeps
<1>7. CASE exe.state = "SEMANTIC_VERDICT" /\ FaultedBy("semantic_verdict", NextLeg)
  <2>1. MayStop(NextLeg)
    BY <1>2, <1>7, NextLegOK, StoppedMove
  <2> QED BY <1>7, <2>1, NextLegOK, Unjudged, FaultedKeeps
<1>8. CASE Active(exe) /\ \E op \in {"release_verdict", "cancel"} :
             FaultedBy(op, exe) /\ (op = "release_verdict" => exe.state = "RELEASE_VERDICT")
  <2>1. PICK op \in {"release_verdict", "cancel"} :
             FaultedBy(op, exe) /\ (op = "release_verdict" => exe.state = "RELEASE_VERDICT")
    BY <1>8
  <2>2. MayStop(exe)
    BY <1>8, CalmStays DEF Calm, MayStop
  <2>3. op = "release_verdict" => ~exe.moving
    BY <2>1 DEF Inv, Consistent, ExecutorOK, RunOK
  <2> QED BY <1>1, <2>1, <2>2, <2>3, FaultedKeeps
<1> QED BY <1>3, <1>4, <1>5, <1>6, <1>7, <1>8 DEF CommandFaults, Active

LEMMA AcknowledgeKeeps == Inv /\ Acknowledge => Inv'
<1> SUFFICES ASSUME Inv, Acknowledge PROVE Inv'
  OBVIOUS
<1> DEFINE r == Reply(exe.state = "COMPLETED", exe.state, Report(exe))
<1>1. /\ exe.state \in {"BLOCKED", "COMPLETED"} /\ ExecutorAnswers(exe, r)
      /\ Request("executor") \in {"heartbeat", "cancel"} /\ UNCHANGED <<cell, faults>>
  BY DEF Acknowledge, Serving
<1>2. exe \in ExecutorType /\ RunOK(exe)
  BY DEF Inv, TypeOK, Consistent, ExecutorOK
<1>3. StaysTrue(exe)
  BY CalmStays DEF Calm
<1>4. /\ Report(exe) \in Notes
      /\ exe.state = "BLOCKED" /\ Report(exe) \notin {"undurable", "cancel_error"} => ~exe.moving
  BY <1>2 DEF Report, RunOK
<1>5. Says(exe, r)
  BY <1>1, <1>4, SaysSo
<1> QED BY <1>1, <1>2, <1>3, <1>5, AnswerKeeps DEF Inv, TypeOK

LEMMA RefuseKeeps == Inv /\ Refuse => Inv'
<1> SUFFICES ASSUME Inv, Refuse PROVE Inv'
  OBVIOUS
<1>1. /\ Request("executor") # "none" /\ ExecutorAnswers(exe, Reply(FALSE, "IDLE", "none"))
      /\ UNCHANGED <<cell, faults>>
  BY DEF Refuse
<1>2. exe \in ExecutorType /\ RunOK(exe)
  BY DEF Inv, TypeOK, Consistent, ExecutorOK
<1>3. StaysTrue(exe)
  BY CalmStays DEF Calm
<1>4. Says(exe, Reply(FALSE, "IDLE", "none"))
  BY SaysSo
<1> QED BY <1>1, <1>2, <1>3, <1>4, AnswerKeeps DEF Inv, TypeOK

LEMMA TickIdleKeeps == Inv /\ TickIdle => Inv'
<1> SUFFICES ASSUME Inv, TickIdle PROVE Inv'
  OBVIOUS
<1>1. Becomes(exe) /\ UNCHANGED <<plan, coordinator, chan, rec>>
  BY DEF TickIdle, Ticks, Becomes, Inv, TypeOK, ExecutorType
<1> QED BY <1>1, CalmKeeps DEF TickIdle, Calm, Inv, TypeOK, Consistent, ExecutorOK

\* An active run that stops of itself.
LEMMA StopKeeps ==
  ASSUME Inv, Active(exe), NEW s \in Stops(exe), Fault(exe, s), Becomes(s),
         UNCHANGED <<plan, coordinator, chan, rec>>
  PROVE  Inv'
<1>1. exe \in ExecutorType /\ (exe.semantic # "none" => exe.leg > SemanticLeg)
  BY DEF Inv, TypeOK, Consistent, ExecutorOK, RunOK
<1>2. RunOK(s) /\ Calm(s)
  BY <1>1, StopTells, StopRunOK DEF Calm
<1> QED BY <1>1, <1>2, StopTells, CalmKeeps

LEMMA TickFaultKeeps == Inv /\ TickFault => Inv'
<1> SUFFICES ASSUME Inv, Active(exe), NEW s \in Stops(exe), Fault(exe, s), Ticks(s) PROVE Inv'
  BY DEF TickFault
<1>1. s \in ExecutorType
  BY StopTells DEF Inv, TypeOK
<1>2. Becomes(s) /\ UNCHANGED <<plan, coordinator, chan, rec>>
  BY <1>1 DEF Ticks, Becomes, ExecutorType
<1> QED BY <1>2, StopKeeps

LEMMA LegEndsKeeps == Inv /\ LegEnds => Inv'
<1> SUFFICES ASSUME Inv, LegEnds PROVE Inv'
  OBVIOUS
<1> DEFINE s == IF exe.leg > Len(Route) THEN "COMPLETED" ELSE Route[exe.leg]
           e == [exe EXCEPT !.state = s]
<1>1. /\ exe.state = "EXECUTING" /\ ~exe.moving /\ Ticks(e) /\ UNCHANGED <<cell, faults>>
      /\ exe \in ExecutorType /\ RunOK(exe)
  BY DEF LegEnds, Inv, TypeOK, Consistent, ExecutorOK
<1>2. /\ s \in Holds \cup {"COMPLETED"}
      /\ s \in Holds => exe.leg <= Len(Route) /\ s = Route[exe.leg]
      /\ s = "COMPLETED" => exe.leg >= Len(Route)
  BY <1>1, RouteHolds, HoldLegs, PlansAssumption DEF ExecutorType, Inv, TypeOK
<1>3. /\ e \in ExecutorType /\ e.state = s /\ e.leg = exe.leg /\ ~e.moving
      /\ e.certain = exe.certain /\ e.grasp = exe.grasp /\ e.semantic = exe.semantic
  BY <1>1, <1>2 DEF ExecutorType
<1>4. RunOK(e)
  <2> HIDE DEF e, s
  <2> QED BY <1>1, <1>2, <1>3 DEF RunOK
<1> HIDE DEF e
<1>5. Becomes(e)
  BY <1>1, <1>3 DEF Ticks, Becomes, ExecutorType
<1>6. Calm(e)
  BY <1>1, <1>2, <1>3 DEF Calm
<1> QED BY <1>1, <1>4, <1>5, <1>6, CalmKeeps DEF Ticks, Inv, TypeOK

LEMMA LeaseLapsesKeeps == Inv /\ LeaseLapses => Inv'
<1> SUFFICES ASSUME Inv, LeaseLapses PROVE Inv'
  OBVIOUS
<1>1. Becomes(exe)
  BY DEF LeaseLapses, Becomes, Inv, TypeOK, ExecutorType
<1> QED BY <1>1, CalmKeeps DEF LeaseLapses, Calm, Inv, TypeOK, Consistent, ExecutorOK

LEMMA ExecutorEndOfInputKeeps == Inv /\ ExecutorEndOfInput => Inv'
<1> SUFFICES ASSUME Inv, ExecutorEndOfInput PROVE Inv'
  OBVIOUS
<1>1. UNCHANGED <<plan, coordinator, chan, rec>>
  BY DEF ExecutorEndOfInput
<1>2. CASE exe' = [exe EXCEPT !.process = "gone"] /\ UNCHANGED <<cell, faults>>
  <2>1. Becomes(exe)
    BY <1>2 DEF Becomes, Inv, TypeOK, ExecutorType
  <2> QED BY <1>1, <1>2, <2>1, CalmKeeps DEF Calm, Inv, TypeOK, Consistent, ExecutorOK
<1>3. CASE /\ Active(exe)
           /\ \E s \in Stops(exe) : Fault(exe, s) /\ exe' = [s EXCEPT !.process = "gone"]
  <2>1. PICK s \in Stops(exe) : Fault(exe, s) /\ exe' = [s EXCEPT !.process = "gone"]
    BY <1>3
  <2>2. s \in ExecutorType
    BY <2>1, StopTells DEF Inv, TypeOK
  <2>3. Becomes(s)
    BY <2>1, <2>2 DEF Becomes, ExecutorType
  <2> QED BY <1>1, <1>3, <2>1, <2>3, StopKeeps
<1> QED BY <1>2, <1>3 DEF ExecutorEndOfInput

LEMMA RobotEndsKeeps == Inv /\ RobotEnds => Inv'
<1> SUFFICES ASSUME Inv, RobotEnds PROVE Inv'
  OBVIOUS
<1> DEFINE e == [exe EXCEPT !.moving = FALSE]
<1>1. exe \in ExecutorType /\ exe' = e /\ UNCHANGED <<plan, coordinator, chan, rec, cell, faults>>
  BY DEF RobotEnds, Inv, TypeOK
<1>2. /\ e \in ExecutorType /\ e.state = exe.state /\ e.leg = exe.leg /\ ~e.moving
      /\ e.certain = exe.certain /\ e.grasp = exe.grasp /\ e.semantic = exe.semantic
  BY <1>1 DEF ExecutorType
<1> HIDE DEF e
<1>3. RunOK(e) /\ Calm(e) /\ Becomes(e)
  BY <1>1, <1>2 DEF Inv, Consistent, ExecutorOK, RunOK, Calm, Becomes
<1> QED BY <1>1, <1>3, CalmKeeps DEF Inv, TypeOK


(***************************************************************************)
(* Invariance                                                              *)
(***************************************************************************)
LEMMA InitInv == Init => Inv
<1> SUFFICES ASSUME Init PROVE Inv
  OBVIOUS
<1>1. /\ Request("recorder") = "none" /\ Request("executor") = "none"
      /\ Ans("recorder") = NoReply /\ Ans("executor") = NoReply
  BY DEF Init, Request, Ans
<1>2. NoReply.ok = FALSE /\ NoReply.state = "none" /\ NoReply.note = "none" /\ NoReply \in Replies
  BY DEF NoReply, Reply, Replies
<1>3. TypeOK
  <2>1. chan \in [Children -> ChannelType]
    <3>1. [request |-> "none", answer |-> NoReply, pending |-> FALSE, open |-> TRUE] \in ChannelType
      BY <1>2 DEF ChannelType
    <3> QED BY <3>1 DEF Init
  <2>2. job \in JobType
    BY DEF Init, JobType
  <2>3. rec \in RecorderType
    BY DEF Init, RecorderType
  <2>4. exe \in ExecutorType
    BY DEF Init, ExecutorType
  <2>5. faults \in 0..MaxFaults
    BY MaxFaultsAssumption DEF Init
  <2>6. /\ plan \in Plans
        /\ at \in Calls \cup {"idle"} /\ sent \in BOOLEAN
        /\ beat \in {"none", "sent", "failed"}
        /\ choice \in Verdicts \cup Releases
        /\ deadline \in BOOLEAN /\ preserved \in BOOLEAN /\ cancelled \in BOOLEAN
        /\ runner \in {"running", "closing.recorder", "closing.executor", "raised", "done"}
        /\ cell \in {"READY", "IN_PROGRESS", "FAULT", "ACKNOWLEDGED"}
    BY DEF Init
  <2> QED BY <2>1, <2>2, <2>3, <2>4, <2>5, <2>6 DEF TypeOK
<1>4. ExecutorOK
  BY DEF Init, ExecutorOK, RunOK
<1>5. RecorderOK
  BY <1>1 DEF Init, RecorderOK
<1>6. LinesOK
  BY <1>1 DEF Init, LinesOK
<1>7. RecorderHeard /\ ExecutorHeard
  BY <1>1, <1>2 DEF Init, RecorderHeard, ExecutorHeard
<1>8. JobOK
  BY <1>1 DEF Init, JobOK
<1>9. MotionOK
  BY <1>1 DEF Init, MotionOK, Over
<1>10. EndsOK
  BY <1>1 DEF Init, EndsOK
<1> QED BY <1>3, <1>4, <1>5, <1>6, <1>7, <1>8, <1>9, <1>10 DEF Inv, Consistent

LEMMA StutterKeeps == Inv /\ UNCHANGED vars => Inv'
<1> SUFFICES ASSUME Inv, UNCHANGED vars PROVE Inv'
  OBVIOUS
<1>1. TypeOK'
  BY DEF vars, people, children, Inv, TypeOK
<1>2. Unseen
  BY DEF vars, people, children, Unseen
<1> QED BY <1>1, <1>2, UnseenKeeps

LEMMA CallEndsKeeps == Inv /\ CallEnds => Inv'
BY PlanEndsKeeps, ApproveEndsKeeps, BeginEndsKeeps, FirstRowEndsKeeps, TrimEndsKeeps,
   ExecuteEndsKeeps, ConfirmEndsKeeps, GraspVerdictEndsKeeps, SemanticVerdictEndsKeeps,
   ReleaseVerdictEndsKeeps, StatusEndsKeeps, HeartbeatEndsKeeps, FreezeEndsKeeps, CommitEndsKeeps,
   CancelEndsKeeps, BlindAbortEndsKeeps, AbortEndsKeeps
   DEF CallEnds

LEMMA CoordinatorKeeps == Inv /\ CoordinatorStep => Inv'
BY WriteKeeps, CallEndsKeeps, FreezeBeatsKeeps, FreezeBeatEndsKeeps, FreezeTimesOutKeeps,
   StartKeeps,
   PollKeeps, CancelKeeps, FinishKeeps, RecoverRejectedKeeps, ReturnKeeps, ClosesKeeps
   DEF CoordinatorStep

LEMMA ExecutorServesKeeps == Inv /\ ExecutorServes => Inv'
BY PlanCommandKeeps, ApproveCommandKeeps, ExecuteKeeps, HeartbeatKeeps, ConfirmKeeps,
   GraspVerdictKeeps, SemanticVerdictKeeps, ReleaseVerdictKeeps, CommandFaultsKeeps,
   AcknowledgeKeeps, RefuseKeeps
   DEF ExecutorServes

LEMMA StepKeeps == Inv /\ [Next]_vars => Inv'
BY StutterKeeps, CoordinatorKeeps, ApproveKeeps, DecideKeeps, OperatorCancelsKeeps,
   RunnerFailsKeeps,
   TimePassesKeeps, RecorderServesKeeps, RecorderBreaksKeeps, RowArrivesKeeps, RecorderFaultsKeeps,
   RecorderEndOfInputKeeps, RecorderKilledKeeps, ExecutorGoneKeeps, ExecutorServesKeeps,
   TickIdleKeeps, TickFaultKeeps, LegEndsKeeps, LeaseLapsesKeeps, ExecutorEndOfInputKeeps,
   RobotEndsKeeps
   DEF Next

\* What the coordinator, its two children and the lines between them hold of
\* each other: every part of Inv, in every state of an episode.
THEOREM Invariance == Spec => []Inv
<1> QED BY InitInv, StepKeeps, PTL DEF Spec

(***************************************************************************)
(* What an episode promises                                                *)
(***************************************************************************)
\* A job that is over and reports no cancel error has left no goal that may
\* still move the robot (OneJob._abort, _finalize).
THEOREM StopKnown == Spec => []StopIsKnown
<1>1. Inv => StopIsKnown
  BY DEF Inv, Consistent, MotionOK, StopIsKnown
<1> QED BY <1>1, Invariance, PTL

\* Only a complete motion judged a success is committed, and the final report
\* agrees with the recorder (OneJob._finalize, _abort; the recorder's commit).
THEOREM CommitEarned == Spec => []CommitIsEarned
<1>1. ASSUME Inv PROVE CommitIsEarned
  <2>1. ASSUME rec.state = "COMMITTED"
        PROVE  /\ exe.state = "COMPLETED" /\ ~exe.moving
               /\ exe.semantic = "PASS" /\ (plan.holds => exe.grasp = "PASS")
    <3>1. exe.state = "COMPLETED" /\ exe.semantic = "PASS"
      BY <1>1, <2>1 DEF Inv, Consistent, EndsOK
    <3>2. ~exe.moving /\ exe.leg >= Len(Route)
      BY <1>1, <3>1 DEF Inv, Consistent, ExecutorOK, RunOK
    <3>3. ASSUME plan.holds PROVE exe.grasp = "PASS"
      <4>1. exe.leg > 2
        BY <1>1, <3>2, <3>3, RouteShape, PlansAssumption DEF Inv, TypeOK, ExecutorType
      <4> QED BY <1>1, <3>1, <3>3, <4>1 DEF Inv, Consistent, ExecutorOK, RunOK
    <3> QED BY <3>1, <3>2, <3>3
  <2>2. at = "idle" =>
          /\ job.state \in {"AWAITING_CELL_READY", "COMPLETE"} => rec.state = "COMMITTED"
          /\ job.state = "ABORTED" => rec.state = "ABORTED"
          /\ job.state = "QUARANTINED_COMMIT" => rec.state = "QUARANTINED_COMMIT"
    BY <1>1 DEF Inv, Consistent, EndsOK
  <2> QED BY <2>1, <2>2 DEF CommitIsEarned
<1> QED BY <1>1, Invariance, PTL

\* The end of a call leaves the children as they are.
LEMMA CallEndsAlone == CallEnds => UNCHANGED children
<1>1. \A call, r : Ends(call, r) => UNCHANGED children
  BY DEF Ends
<1>2. PlanEnds \/ ApproveEnds \/ BeginEnds \/ FirstRowEnds \/ TrimEnds => UNCHANGED children
  BY <1>1 DEF PlanEnds, ApproveEnds, BeginEnds, FirstRowEnds, TrimEnds
<1>3. ExecuteEnds \/ ConfirmEnds \/ GraspVerdictEnds \/ SemanticVerdictEnds \/ ReleaseVerdictEnds
      => UNCHANGED children
  BY <1>1 DEF Moves, ExecuteEnds, ConfirmEnds, GraspVerdictEnds, SemanticVerdictEnds,
              ReleaseVerdictEnds
<1>4. StatusEnds \/ HeartbeatEnds \/ FreezeEnds \/ CommitEnds => UNCHANGED children
  BY <1>1 DEF StatusEnds, HeartbeatEnds, FreezeEnds, CommitEnds
<1>5. CancelEnds \/ BlindAbortEnds \/ AbortEnds => UNCHANGED children
  BY <1>1 DEF CancelEnds, BlindAbortEnds, AbortEnds
<1> QED BY <1>2, <1>3, <1>4, <1>5 DEF CallEnds

\* What the other steps that are not the executor's leave alone.
LEMMA OthersAlone ==
  ASSUME CoordinatorStep \/ Approve \/ Decide \/ OperatorCancels \/ RunnerFails \/ TimePasses
         \/ RecorderServes \/ RecorderBreaks \/ RowArrives \/ RecorderFaults \/ RecorderEndOfInput
         \/ RecorderKilled
  PROVE  UNCHANGED exe /\ (Finish \/ RecoverRejected \/ UNCHANGED cell)
<1>1. CASE CoordinatorStep
  <2>1. CASE CallEnds
    BY <2>1, CallEndsAlone DEF children
  <2>2. CASE Closes
    BY <2>2 DEF Closes, RecorderClosed, ExecutorClosed, Abandoned, children
  <2>3. CASE Finish \/ RecoverRejected
    BY <2>3 DEF Finish, RecoverRejected
  <2>4. CASE Write \/ FreezeBeats \/ FreezeBeatEnds \/ FreezeTimesOut
    BY <2>4 DEF Write, FreezeBeats, FreezeBeatEnds, FreezeTimesOut, children
  <2>5. CASE Start \/ Poll \/ Cancel \/ Return
    BY <2>5 DEF Start, Poll, Cancel, Return, Leaves, Quiet, children
  <2> QED BY <1>1, <2>1, <2>2, <2>3, <2>4, <2>5 DEF CoordinatorStep
<1>2. CASE Approve \/ Decide \/ OperatorCancels \/ RunnerFails \/ TimePasses
  BY <1>2 DEF Approve, Decide, OperatorCancels, RunnerFails, Leaves, TimePasses, Quiet, children
<1>3. CASE RecorderServes \/ RecorderBreaks \/ RowArrives \/ RecorderFaults \/ RecorderEndOfInput
           \/ RecorderKilled
  BY <1>3 DEF RecorderServes, RecorderBreaks, RecorderAnswers, RowArrives, RecorderFaults,
              RecorderEndOfInput, RecorderKilled
<1> QED BY <1>1, <1>2, <1>3

\* A cell is only given back when the run is complete and its rows are settled
\* (run_live after the validator, _recover_quality_rejected_recycle).
THEOREM CellReadyEarned == Spec => CellReadyIsEarned
<1> DEFINE Complete == exe.state = "COMPLETED" /\ ~exe.moving
           Settles  == rec.state \in {"COMMITTED", "ABORTED"}
           Earns    == cell' = "ACKNOWLEDGED" => Complete /\ Settles
<1>1. ASSUME Inv, [Next]_vars PROVE [Earns]_<<cell>>
  <2> SUFFICES ASSUME Next, cell' # cell, cell' = "ACKNOWLEDGED"
               PROVE  Complete /\ Settles
    BY <1>1 DEF vars, children
  <2>1. CASE Finish
    BY <1>1, <2>1 DEF Finish, Between, Inv, Consistent, EndsOK, ExecutorOK, RunOK
  <2>2. CASE RecoverRejected
    BY <1>1, <2>2 DEF RecoverRejected, Recycled, Inv, Consistent, RecorderHeard, ExecutorHeard,
                      ExecutorOK, RunOK
  <2>3. \A e, s : ~Fault(e, s)
    BY DEF Fault
  <2>4. ~ExecutorServes
    <3>1. ~CommandFaults
      BY <2>3 DEF CommandFaults, FaultedBy
    <3> QED BY <3>1 DEF ExecutorServes, PlanCommand, ApproveCommand, Execute, Heartbeat, Confirm,
                     GraspVerdict, SemanticVerdict, ReleaseVerdict, Acknowledge, Refuse
  <2>5. ~(ExecutorKilled \/ TickIdle \/ TickFault \/ LegEnds \/ LeaseLapses \/ ExecutorEndOfInput
          \/ ExecutorDies \/ RobotEnds)
    BY <2>3 DEF ExecutorKilled, TickIdle, TickFault, LegEnds, LeaseLapses, ExecutorEndOfInput,
                ExecutorDies, RobotEnds
  <2> QED BY <2>1, <2>2, <2>4, <2>5, OthersAlone DEF Next
<1> QED BY <1>1, Invariance, PTL DEF Spec, CellReadyIsEarned

\* What a stop does not do.
LEMMA StopState ==
  ASSUME Inv, NEW e \in ExecutorType, NEW s, Fault(e, s)
  PROVE  s \in ExecutorType /\ s.state = "BLOCKED" /\ (s.moving => e.moving)
<1>1. s \in Stops(e)
  BY DEF Fault
<1> QED BY <1>1, StopTells

\* The robot is not started before the recorder has written a row, and putting
\* the object back is not recorded (_wait_for_first_recorder_row, poll's freeze
\* before the semantic verdict).
THEOREM DemonstrationRecorded == Spec => DemonstrationIsRecorded
<1> DEFINE Starts   == exe.state = "APPROVED" /\ exe'.moving
           PutsBack == exe.state = "SEMANTIC_VERDICT" /\ exe'.state = "EXECUTING"
<1>1. ASSUME Inv, [Next]_vars
      PROVE  [/\ Starts => rec.wrote
              /\ PutsBack => rec.state # "RECORDING" \/ rec.process = "gone"]_<<exe>>
  <2> SUFFICES ASSUME Next, exe' # exe
               PROVE  /\ Starts => Request("executor") = "execute"
                      /\ PutsBack => Request("executor") = "semantic_verdict"
    <3>1. Request("executor") = "execute" => rec.wrote
      BY <1>1 DEF Inv, Consistent, MotionOK, RecorderOK
    <3>2. Request("executor") = "semantic_verdict" => rec.state # "RECORDING"
      BY <1>1 DEF Inv, Consistent, JobOK, Sealed
    <3> QED BY <1>1, <3>1, <3>2 DEF vars, children
  <2>1. exe \in ExecutorType /\ (exe.state = "APPROVED" => ~exe.moving)
    BY <1>1 DEF Inv, TypeOK, Consistent, ExecutorOK, RunOK
  <2>2. CASE ExecutorServes
    <3>1. CASE CommandFaults
      <4>1. PICK op \in Commands, e \in ExecutorType :
               FaultedBy(op, e) /\ (exe.state = "APPROVED" => op = "execute")
        <5>1. Motion(exe) \in ExecutorType
          BY <2>1 DEF Motion, ExecutorType
        <5>2. exe.state \in Holds \ {"RELEASE_VERDICT"} => NextLeg \in ExecutorType
          BY <1>1, NextLegOK
        <5>3. CASE exe.state = "APPROVED"
          BY <3>1, <5>1, <5>3 DEF CommandFaults, Active
        <5>4. CASE exe.state # "APPROVED" /\ \E op \in Commands : FaultedBy(op, exe)
          BY <2>1, <5>4
        <5>5. CASE exe.state # "APPROVED" /\ ~\E op \in Commands : FaultedBy(op, exe)
          <6>1. /\ exe.state \in Holds \ {"RELEASE_VERDICT"}
                /\ \E op \in Commands : FaultedBy(op, NextLeg)
            BY <3>1, <5>5 DEF CommandFaults
          <6> QED BY <5>2, <5>5, <6>1
        <5> QED BY <5>3, <5>4, <5>5
      <4>2. PICK s : Fault(e, s) /\ ExecutorAnswers(s, Reply(FALSE, "BLOCKED", Report(s)))
        BY <4>1 DEF FaultedBy
      <4>3. s \in ExecutorType /\ s.state = "BLOCKED"
        BY <1>1, <4>2, StopState
      <4>4. exe'.state = s.state
        BY <4>2, <4>3 DEF ExecutorAnswers, ExecutorType
      <4> QED BY <4>1, <4>3, <4>4 DEF FaultedBy, Serving
    <3>2. CASE Execute \/ SemanticVerdict
      BY <3>2 DEF Execute, SemanticVerdict, Accepts, Serving
    <3>3. CASE PlanCommand \/ ApproveCommand \/ Heartbeat \/ Confirm \/ GraspVerdict
               \/ ReleaseVerdict
      BY <2>1, <3>3 DEF PlanCommand, ApproveCommand, Heartbeat, Confirm, GraspVerdict,
                        ReleaseVerdict, Accepts, ExecutorAnswers, Active, ExecutorType
    <3>4. CASE Acknowledge \/ Refuse
      BY <2>1, <3>4 DEF Acknowledge, Refuse, ExecutorAnswers, ExecutorType
    <3> QED BY <2>2, <3>1, <3>2, <3>3, <3>4 DEF ExecutorServes
  <2>3. CASE TickIdle \/ LegEnds
    BY <2>1, <2>3 DEF TickIdle, LegEnds, Ticks, ExecutorType
  <2>4. CASE TickFault \/ ExecutorEndOfInput
    <3>1. CASE ~Active(exe)
      BY <2>1, <2>4, <3>1 DEF TickFault, ExecutorEndOfInput, ExecutorType
    <3>2. CASE Active(exe)
      <4>1. PICK s : Fault(exe, s) /\ (Ticks(s) \/ exe' = [s EXCEPT !.process = "gone"])
        BY <2>4, <3>2 DEF TickFault, ExecutorEndOfInput
      <4>2. s \in ExecutorType /\ s.state = "BLOCKED"
        BY <1>1, <2>1, <4>1, StopState
      <4>3. exe'.state = "BLOCKED"
        BY <4>1, <4>2 DEF Ticks, ExecutorType
      <4> QED BY <3>2, <4>3 DEF Active
    <3> QED BY <3>1, <3>2
  <2>5. CASE ExecutorKilled \/ LeaseLapses \/ ExecutorDies \/ RobotEnds
    BY <2>1, <2>5 DEF ExecutorKilled, LeaseLapses, ExecutorDies, RobotEnds, ExecutorType
  <2> QED BY <2>2, <2>3, <2>4, <2>5, OthersAlone DEF Next
<1> QED BY <1>1, Invariance, PTL DEF Spec, DemonstrationIsRecorded
=============================================================================
