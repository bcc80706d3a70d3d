------------------------------ MODULE CuratorInv ------------------------------
(***************************************************************************)
(* The inductive invariant of the curator.  The events of a run form one   *)
(* chain (Chain), whatever prefix of it a loss of power leaves.  The step  *)
(* of a process tells how far its run's events have come and where the     *)
(* candidate is (StepInv).  Two processes work on one run only where one   *)
(* holds its lock and the other has nothing left to do than to report that *)
(* the review is ready (AloneInv).  TLC checks it on small instances,      *)
(* CuratorProofs proves it.                                                *)
(***************************************************************************)
EXTENDS Curator

PublishFailures == {"PUBLISH_ACTION_PENDING", "PUBLISHED_RECEIPT_PENDING"}
RejectFailures  == {"REJECT_ACTION_PENDING", "REJECTED_RECEIPT_PENDING"}

\* The n-th event of a run's files is the n-th of a run without failure.
Reached(s, n) == Len(s) >= n /\ s[n].name = ORDER[n]
Chosen(s, choice) == Reached(s, 4) /\ s[4].says = choice
Failed(s)   == \E i \in 2..5 : i <= Len(s) /\ s[i].name = "failure"
Receipted(s) == Len(s) >= 5 /\ s[Len(s)].name = "receipt"

\* Each event follows the one before it: the next of ORDER, a failure that fits
\* what was decided, or a receipt of the decision.
Follows(s, i) ==
    /\ s[i].after = s[i - 1].name
    /\ \/ i <= 4 /\ s[i].name = ORDER[i] /\ s[i - 1].name = ORDER[i - 1]
       \/ /\ i <= 5 /\ s[i].name = "failure" /\ s[i - 1].name = ORDER[i - 1]
          /\ s[i].says \in RECOVERABLE_FAILURE_STATES <=> i = 5
          /\ s[i].says \in PublishFailures => s[4].says = "APPROVE"
          /\ s[i].says \in RejectFailures => s[4].says = "REJECT"
       \/ /\ s[i].name = "receipt" /\ s[4].name = "decision"
          /\ i = 5 \/ (i = 6 /\ s[5].name = "failure")
          /\ s[i].says = IF s[4].says = "APPROVE" THEN "PUBLISHED" ELSE "REJECTED"

Chain(s) ==
    /\ Len(s) <= 6
    /\ Len(s) >= 1 => s[1].name = "request" /\ s[1].after = "-"
    /\ \A i \in 2..Len(s) : Follows(s, i)

PrepareSteps == {"request", "commit", "commitSync", "candidate_ready", "review_ready", "fail"}
CleaningSteps == {"cleanup", "unstage", "unstageSync", "remove", "removeSync"}
PublishSteps  == {"toStage", "stageSync", "toOutput", "outputSync", "undo", "undoSync"}

\* What a run's events say of its candidate.
RunSays(s, place, places) ==
    /\ Chain(s)
    /\ "output" \in places => place = "output"
    /\ Chosen(s, "APPROVE") => places \subseteq {"candidate", "publish", "output"}
    /\ Chosen(s, "REJECT") => places \subseteq {"candidate", "reject", "gone"}
    /\ Receipted(s) => places = IF Chosen(s, "APPROVE") THEN {"output"} ELSE {"gone"}
    /\ Reached(s, 2) /\ ~Reached(s, 4) /\ place = "candidate" => places = {"candidate"}

RunInv(r) == RunSays(log[r], loc[r], maybe[r])

\* What the step of a process says of its run: s are its events, holds is whether
\* the process holds its lock.
PrepareInv(s, holds, at, ev, place, places) ==
    /\ at = "request" => s = <<>>
    /\ at \in {"commit", "commitSync", "candidate_ready"} \/ (at = "sync" /\ ev = "request")
          => Len(s) = 1
    /\ at \in {"request", "commit"} \/ (at = "sync" /\ ev = "request") => places = {"none"}
    /\ at = "commitSync" => place = "candidate"
    /\ at = "candidate_ready" => places = {"candidate"}
    /\ at = "review_ready" \/ (at = "sync" /\ ev = "candidate_ready")
          => Len(s) = 2 /\ Reached(s, 2)
    /\ at = "sync" /\ ev = "review_ready" => Reached(s, 3)
    /\ at \in PrepareSteps \/ (at = "sync" /\ ev \in {"request", "candidate_ready", "review_ready"})
          => ~holds

CleanInv(s, holds, at, ev, place) ==
    /\ at \in CleaningSteps \cup {"failure"} \/ (at = "sync" /\ ev = "failure") =>
          IF holds THEN Reached(s, 3) ELSE ~Reached(s, 3) /\ Len(s) >= 1
    /\ at \in CleaningSteps \cup {"failure"} => ~Receipted(s)
    /\ at \in CleaningSteps => ~Chosen(s, "APPROVE")
    /\ at = "unstage" => place = "candidate"
    /\ at \in {"unstageSync", "remove"} => place = "reject"
    /\ at = "removeSync" => place = "gone"

DecideInv(s, holds, at, ev, place, places) ==
    /\ at \in {"prompt", "decision"} =>
          /\ holds /\ Len(s) = 3 /\ Reached(s, 3)
          /\ place = "candidate" /\ places = {"candidate"}
    /\ at \in PublishSteps \cup {"finish", "receipt"} \/ (at = "sync" /\ ev = "decision")
          => holds /\ Reached(s, 4) /\ ~Receipted(s)
    /\ at = "sync" /\ ev = "receipt" => holds /\ Reached(s, 4)
    /\ at \in PublishSteps => Chosen(s, "APPROVE")
    /\ at = "toStage" => place = "candidate"
    /\ at \in {"stageSync", "toOutput"} => place = "publish"
    /\ at = "outputSync" => place = "output"
    /\ at = "receipt" => places = IF Chosen(s, "APPROVE") THEN {"output"} ELSE {"gone"}

StepInv(p) ==
    LET r == proc[p].run
    IN proc[p] # Idle =>
        /\ r \in Runs /\ proc[p].at # "idle"
        /\ proc[p].at = "sync" => proc[p].ev \in EventNames
        /\ PrepareInv(log[r], lock[r] = p, proc[p].at, proc[p].ev, loc[r], maybe[r])
        /\ CleanInv(log[r], lock[r] = p, proc[p].at, proc[p].ev, loc[r])
        /\ DecideInv(log[r], lock[r] = p, proc[p].at, proc[p].ev, loc[r], maybe[r])

\* A run has one process at a time, or one with its lock and one that prepared it.
AloneInv ==
    /\ \A r \in Runs : lock[r] # Nobody => proc[lock[r]] # Idle /\ proc[lock[r]].run = r
    /\ \A p, q \in Processes :
          p # q /\ proc[p] # Idle /\ proc[q] # Idle /\ proc[p].run = proc[q].run
             => lock[proc[p].run] \in {p, q}

Inv ==
    /\ TypeOK
    /\ \A r \in Runs : RunInv(r)
    /\ \A p \in Processes : StepInv(p)
    /\ AloneInv

===============================================================================
