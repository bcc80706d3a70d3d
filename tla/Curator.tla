------------------------------- MODULE Curator --------------------------------
(***************************************************************************)
(* The curator: runs that derive a candidate from a source dataset, show   *)
(* it to a person and publish or remove it.                                *)
(*                                                                         *)
(*   prepare, decide, submit_human_review_decision                         *)
(*                          curator/workflow/application.py                *)
(*   the event files of a run   curator/workflow/state.py                  *)
(*   the candidate's directory  curator/dataset/publish.py, materialize.py *)
(*   exclusive writes, renames, removal   curator/core/filesystem.py       *)
(*                                                                         *)
(* All runs derive from one source with one profile, so they compete for   *)
(* one output name.  A process runs one command at a time; at is its next  *)
(* step, cut at every change of a directory and every fsync.  A process    *)
(* may be killed between any two steps, and the machine may lose power.    *)
(*                                                                         *)
(* Durability.  What a rename or a new file changed is visible at once and *)
(* certain after the fsync of its directory.  Power loss takes a run's     *)
(* directory of events back to some prefix of what was visible (sure: the  *)
(* length that is certain), and a candidate back to some place it had      *)
(* since the last fsync (maybe).  The entries of one directory are taken   *)
(* to persist in order, as on a journaling file system; nothing is assumed *)
(* of one directory against another.                                       *)
(*                                                                         *)
(* Simplifications: reads succeed; a person edits a candidate by its own   *)
(* name only (tools/data_factory/README.md asks everyone to leave the      *)
(* namespaces of an active command alone), and no foreign directory stands *)
(* at a candidate's name; source, profile, policy and review media may be  *)
(* found changed wherever they are compared; what an event says beyond its *)
(* kind, its choice and its predecessor is left out; a loss of power that  *)
(* takes nothing back is a kill of every process, and one takes something  *)
(* back from one run: runs share nothing but the output's name.            *)
(***************************************************************************)
EXTENDS Naturals, Sequences, FiniteSets

CONSTANTS
    Runs, Processes,
    Nobody,      \* holds no lock
    MaxMishaps   \* bound on calls that fail, edits and losses of power

ASSUME CuratorAssumption ==
    MaxMishaps \in Nat /\ Nobody \notin Processes

VARIABLES
    log,         \* per run: its event files, in the order they appeared
    sure,        \* per run: how many of them power loss cannot take
    loc,         \* per run: the name its candidate's directory has
    maybe,       \* per run: the names it may have after a loss of power
    altered,     \* per run: the candidate is no longer what was digested
    proc,        \* per process: its step, its run, the event being synced
    lock,        \* per run: the holder of its flock
    mishaps      \* how many there were

vars == <<log, sure, loc, maybe, altered, proc, lock, mishaps>>

ORDER == <<"request", "candidate_ready", "review_ready", "decision">>
EventNames == {"request", "candidate_ready", "review_ready", "decision", "failure", "receipt"}
RECOVERABLE_FAILURE_STATES ==
    {"PUBLISH_ACTION_PENDING", "PUBLISHED_RECEIPT_PENDING", "REJECT_ACTION_PENDING",
     "REJECTED_RECEIPT_PENDING"}
Failures == {"PREPARE_FAILED", "DECISION_FAILED"} \cup RECOVERABLE_FAILURE_STATES
Event(name, says) == [name : {name}, says : says, after : EventNames \cup {"-"}]
Events == Event("decision", {"APPROVE", "REJECT"}) \cup Event("receipt", {"PUBLISHED", "REJECTED"})
    \cup Event("failure", Failures)
    \cup UNION {Event(name, {"-"}) : name \in {"request", "candidate_ready", "review_ready"}}
Places == {"none", "candidate", "publish", "reject", "output", "gone"}
Steps == EventNames \cup
    {"idle", "sync", "commit", "commitSync", "fail", "cleanup", "unstage",
     "unstageSync", "remove", "removeSync", "prompt", "finish", "toStage", "stageSync", "toOutput",
     "outputSync", "undo", "undoSync"}
Idle == [at |-> "idle", run |-> Nobody, ev |-> "-"]

\* The values the variables may take.
TypeOK ==
    /\ log \in [Runs -> Seq(Events)] /\ sure \in [Runs -> Nat]
    /\ loc \in [Runs -> Places] /\ maybe \in [Runs -> SUBSET Places]
    /\ \A r \in Runs : sure[r] <= Len(log[r]) /\ loc[r] \in maybe[r]
    /\ altered \in [Runs -> BOOLEAN]
    /\ proc \in [Processes -> [at : Steps, run : Runs \cup {Nobody}, ev : EventNames \cup {"-"}]]
    /\ lock \in [Runs -> Processes \cup {Nobody}]
    /\ mishaps \in 0..MaxMishaps

Init ==
    /\ log = [r \in Runs |-> <<>>] /\ sure = [r \in Runs |-> 0]
    /\ loc = [r \in Runs |-> "none"] /\ maybe = [r \in Runs |-> {"none"}]
    /\ altered = [r \in Runs |-> FALSE]
    /\ proc = [p \in Processes |-> Idle] /\ lock = [r \in Runs |-> Nobody]
    /\ mishaps = 0

-----------------------------------------------------------------------------
(* The event files.                                                        *)

Has(r, name) == \E i \in DOMAIN log[r] : log[r][i].name = name
The(r, name) == log[r][CHOOSE i \in DOMAIN log[r] : log[r][i].name = name]
Decided(r, choice) == Has(r, "decision") /\ The(r, "decision").says = choice
Recoverable(r) == The(r, "failure").says \in RECOVERABLE_FAILURE_STATES

\* The event a new one names as its predecessor.
Previous(r, name) ==
    CASE name = "request" -> "-"
      [] name = "candidate_ready" -> "request"
      [] name = "review_ready" -> "candidate_ready"
      [] name = "decision" -> "review_ready"
      [] name = "receipt" -> IF Has(r, "failure") THEN "failure" ELSE "decision"
      [] name = "failure" -> IF Has(r, "decision") THEN "decision"
                             ELSE IF Has(r, "review_ready") THEN "review_ready"
                             ELSE IF Has(r, "candidate_ready") THEN "candidate_ready"
                             ELSE "request"

\* load_events: the topology of the files, the chain of their predecessors
\* and what a failure and a receipt are bound to.
Loads(r) ==
    LET last == IF Has(r, "decision") THEN "decision"
                ELSE IF Has(r, "review_ready") THEN "review_ready"
                ELSE IF Has(r, "candidate_ready") THEN "candidate_ready" ELSE "request"
    IN /\ Has(r, "request")
       /\ \A i \in 2..4 : Has(r, ORDER[i]) => Has(r, ORDER[i - 1]) /\ The(r, ORDER[i]).after = ORDER[i - 1]
       /\ Has(r, "failure") =>
             /\ The(r, "failure").after = last
             /\ Recoverable(r) => Has(r, "decision")
             /\ The(r, "failure").says \in {"PUBLISH_ACTION_PENDING", "PUBLISHED_RECEIPT_PENDING"}
                   => Decided(r, "APPROVE")
             /\ The(r, "failure").says \in {"REJECT_ACTION_PENDING", "REJECTED_RECEIPT_PENDING"}
                   => Decided(r, "REJECT")
       /\ Has(r, "receipt") =>
             /\ Has(r, "decision") /\ (Has(r, "failure") => Recoverable(r))
             /\ The(r, "receipt").after = IF Has(r, "failure") THEN "failure" ELSE last
             /\ (The(r, "receipt").says = "PUBLISHED") <=> Decided(r, "APPROVE")

\* The state a failure is recorded with, from where the candidate is now.
FailureState(r) ==
    CASE Decided(r, "REJECT") /\ loc[r] \in {"candidate", "reject"}  -> "REJECT_ACTION_PENDING"
      [] Decided(r, "REJECT") /\ loc[r] \notin {"candidate", "reject"} -> "REJECTED_RECEIPT_PENDING"
      [] Decided(r, "APPROVE") /\ loc[r] = "output"                  -> "PUBLISHED_RECEIPT_PENDING"
      [] Decided(r, "APPROVE") /\ loc[r] \in {"candidate", "publish"} -> "PUBLISH_ACTION_PENDING"
      [] OTHER -> IF Has(r, "review_ready") THEN "DECISION_FAILED" ELSE "PREPARE_FAILED"

\* Mutant: the receipt says what was decided, for what became of it.
SaysTheChoice(r, name) ==
    CASE name = "decision" -> {"APPROVE", "REJECT"}
      [] name = "failure"  -> {FailureState(r)}
      [] name = "receipt"  -> {The(r, "decision").says}
      [] OTHER -> {"-"}

\* What a new event may say.
Says(r, name) ==
    CASE name = "decision" -> {"APPROVE", "REJECT"}
      [] name = "failure"  -> {FailureState(r)}
      [] name = "receipt"  -> {IF Decided(r, "APPROVE") THEN "PUBLISHED" ELSE "REJECTED"}
      [] OTHER -> {"-"}

-----------------------------------------------------------------------------
(* Steps of a process.                                                     *)

Works == UNCHANGED mishaps
Faulty == mishaps < MaxMishaps /\ mishaps' = mishaps + 1
Goes(p, step) == proc' = [proc EXCEPT ![p] = [@ EXCEPT !.at = step, !.ev = "-"]] /\ UNCHANGED lock
Ends(p) ==
    /\ proc' = [proc EXCEPT ![p] = Idle]
    /\ lock' = [r \in Runs |-> IF lock[r] = p THEN Nobody ELSE lock[r]]

\* Error paths end in a failure event, of which a run has one at most.
Fails(p, r) == IF Has(r, "failure") THEN Ends(p) ELSE Goes(p, "failure")

\* The candidate gets another name; an fsync of the directory makes the
\* present names of all candidates certain.
Rename(r, place) ==
    /\ loc' = [loc EXCEPT ![r] = place] /\ maybe' = [maybe EXCEPT ![r] = @ \cup {place}]
    /\ UNCHANGED <<log, sure>>
SyncParent == maybe' = [r \in Runs |-> {loc[r]}] /\ UNCHANGED <<loc, log, sure>>
Still == UNCHANGED <<loc, maybe, log, sure>>

\* write_json_exclusive refuses: no event appeared.
Refused(p, r, name) ==
    IF name \in {"request", "candidate_ready", "review_ready"} THEN Goes(p, "fail")
    ELSE IF name = "receipt" THEN Fails(p, r) ELSE Ends(p)

\* Mutant: the receipt that may have appeared is not looked for.
AmbiguousIsRefused(p, r, name) == Refused(p, r, name)

\* The event appeared and neither fsync was confirmed.  _existing_receipt
\* finds such a receipt, and no failure is written beside it.
Ambiguous(p, r, name) ==
    IF name \in {"request", "candidate_ready", "review_ready"} THEN Goes(p, "fail") ELSE Ends(p)

\* _validate_evidence, where what the request recorded has not changed: the
\* candidate is at its name as it was digested.
Valid(r) == ~altered[r] /\ loc[r] = "candidate"

\* append_event: the file appears under its name, or does not.
Append1(p) ==
    LET r == proc[p].run
        name == proc[p].at
    IN /\ name \in EventNames
       /\ \/ /\ ~Has(r, name) /\ Works
             /\ \E says \in Says(r, name) :
                   log' = [log EXCEPT ![r] =
                              Append(@, [name |-> name, says |-> says, after |-> Previous(r, name)])]
             /\ proc' = [proc EXCEPT ![p] = [@ EXCEPT !.at = "sync", !.ev = name]] /\ UNCHANGED lock
          \/ Faulty /\ Refused(p, r, name) /\ UNCHANGED log
       /\ UNCHANGED <<sure, loc, maybe, altered>>

\* materialize_candidate writes and checks a temporary tree; the review is
\* sampled, rendered and checked.
Build(p) == Goes(p, "fail") \/ Goes(p, "commit")
Render(p, r) == Goes(p, "fail") \/ (Valid(r) /\ Goes(p, "review_ready"))

\* append_event: the directory is synced, by its writer or once more after an
\* ambiguous commit.
Append2(p) ==
    LET r == proc[p].run
        name == proc[p].ev
    IN /\ proc[p].at = "sync"
       /\ \/ /\ Works /\ sure' = [sure EXCEPT ![r] = Len(log[r])]
             /\ CASE name = "request" -> Build(p)
                  [] name = "candidate_ready" -> Render(p, r)
                  [] name = "decision" -> Ends(p) \/ (Valid(r) /\ Goes(p, "finish"))
                  [] OTHER -> Ends(p)
          \/ Faulty /\ Ambiguous(p, r, name) /\ UNCHANGED sure
       /\ UNCHANGED <<log, loc, maybe, altered>>

-----------------------------------------------------------------------------
(* prepare.                                                                *)

\* A fresh run, while nothing stands at the output's name.
Prepare(p, r) ==
    /\ proc[p] = Idle /\ log[r] = <<>> /\ maybe[r] = {"none"}
    /\ \A q \in Processes : proc[q].run # r
    /\ \A q \in Runs : loc[q] # "output"
    /\ proc' = [proc EXCEPT ![p] = [@ EXCEPT !.at = "request", !.run = r]]
    /\ Still /\ UNCHANGED <<lock, altered, mishaps>>

\* commit_hidden_candidate gives the tree its hidden name.
Commit(p) ==
    /\ proc[p].at = "commit"
    /\ \/ Works /\ Rename(proc[p].run, "candidate") /\ Goes(p, "commitSync")
       \/ Faulty /\ Still /\ Goes(p, "fail")
    /\ UNCHANGED altered
CommitSync(p) ==
    /\ proc[p].at = "commitSync"
    /\ \/ Works /\ SyncParent
          /\ (Goes(p, "fail") \/ Goes(p, "candidate_ready"))
       \/ Faulty /\ Still /\ Goes(p, "fail")
    /\ UNCHANGED altered

\* Mutant: the candidate is cleaned up whatever the events say.
FailCleansUp(p) ==
    LET r == proc[p].run
    IN /\ proc[p].at = "fail"
       /\ IF ~Has(r, "request") THEN Ends(p)
          ELSE IF loc[r] = "candidate" THEN Goes(p, "cleanup") ELSE Fails(p, r)
       /\ Still /\ UNCHANGED <<altered, mishaps>>

\* The error path of prepare: a review that may be durable is left alone, a
\* run without a request is removed, and else the candidate is cleaned up.
Fail(p) ==
    LET r == proc[p].run
    IN /\ proc[p].at = "fail"
       /\ IF Has(r, "review_ready") \/ ~Has(r, "request") THEN Ends(p)
          ELSE IF loc[r] = "candidate" THEN Goes(p, "cleanup") ELSE Fails(p, r)
       /\ Still /\ UNCHANGED <<altered, mishaps>>

-----------------------------------------------------------------------------
(* cleanup_candidate: of a failed prepare, an aborted decision, a reject.  *)

CleanedUp(p, r) == Goes(p, IF Has(r, "decision") THEN "receipt" ELSE "failure")

Cleanup(p) ==
    LET r == proc[p].run
    IN /\ proc[p].at = "cleanup"
       /\ \/ /\ loc[r] = "candidate" /\ Works /\ Still /\ UNCHANGED altered
             /\ IF altered[r] THEN Fails(p, r) ELSE Goes(p, "unstage")
          \/ /\ loc[r] = "reject" /\ Works /\ Still
             /\ altered' = [altered EXCEPT ![r] = TRUE] /\ Goes(p, "remove")

\* remove_owned_directory: the tree moves to a private name.  An fsync that
\* fails once it is there is let pass, and its files go one by one.
Unstage(p) ==
    /\ proc[p].at = "unstage"
    /\ \/ Works /\ Rename(proc[p].run, "reject") /\ Goes(p, "unstageSync")
       \/ Faulty /\ Still /\ Fails(p, proc[p].run)
    /\ UNCHANGED altered
UnstageSync(p) ==
    /\ proc[p].at = "unstageSync"
    /\ (Works /\ SyncParent) \/ (Faulty /\ Still)
    /\ altered' = [altered EXCEPT ![proc[p].run] = TRUE]
    /\ Goes(p, "remove")
Remove(p) ==
    /\ proc[p].at = "remove"
    /\ \/ Works /\ Rename(proc[p].run, "gone") /\ Goes(p, "removeSync")
       \/ Faulty /\ Still /\ Fails(p, proc[p].run)
    /\ UNCHANGED altered
RemoveSync(p) ==
    /\ proc[p].at = "removeSync"
    /\ \/ Works /\ SyncParent /\ CleanedUp(p, proc[p].run)
       \/ Faulty /\ Still /\ Fails(p, proc[p].run)
    /\ UNCHANGED altered

-----------------------------------------------------------------------------
(* decide and submit_human_review_decision, under the lock of the run.     *)

\* A run without a receipt goes on where it is: to the person's choice, or to
\* the choice already recorded.
Decide(p, r) ==
    /\ proc[p] = Idle /\ lock[r] = Nobody /\ ~Has(r, "receipt")
    /\ Has(r, "decision") \/ (Has(r, "review_ready") /\ ~Has(r, "failure") /\ Valid(r))
    /\ Loads(r)
    /\ lock' = [lock EXCEPT ![r] = p]
    /\ proc' = [proc EXCEPT ![p] = [@ EXCEPT
                  !.at = IF Has(r, "decision") THEN "finish" ELSE "prompt", !.run = r]]
    /\ Still /\ UNCHANGED <<altered, mishaps>>

\* A run with a receipt: its directory is synced again.
Replay(p, r) ==
    /\ proc[p] = Idle /\ lock[r] = Nobody /\ Has(r, "receipt") /\ Loads(r)
    /\ sure' = [sure EXCEPT ![r] = Len(log[r])]
    /\ UNCHANGED <<log, loc, maybe, proc, lock, altered, mishaps>>

\* The person leaves, or chooses; the evidence is validated again, and a
\* candidate that no longer stands up to it is disposed of.
Prompt(p) ==
    /\ proc[p].at = "prompt"
    /\ \/ Ends(p)
       \/ Valid(proc[p].run) /\ Goes(p, "decision")
       \/ Goes(p, IF loc[proc[p].run] = "candidate" THEN "cleanup" ELSE "failure")
    /\ Still /\ UNCHANGED <<altered, mishaps>>

OutputTaken(r) == \E q \in Runs \ {r} : loc[q] = "output"

\* Mutant: an output already in place is receipted as it is found.
FinishUnsynced(p) ==
    LET r == proc[p].run
    IN /\ proc[p].at = "finish" /\ Decided(r, "APPROVE") /\ loc[r] = "output"
       /\ Goes(p, "receipt") /\ Still /\ UNCHANGED <<altered, mishaps>>

\* _finish_recorded_decision where the action is already complete: the parent
\* is synced before the receipt.
FinishCompleted(p) ==
    LET r == proc[p].run
    IN /\ proc[p].at = "finish"
       /\ \/ Decided(r, "REJECT") /\ loc[r] \notin {"candidate", "reject", "publish", "output"}
          \/ Decided(r, "APPROVE") /\ loc[r] = "output"
       /\ \/ ~altered[r] \/ Decided(r, "REJECT")
       /\ \/ Works /\ SyncParent /\ Goes(p, "receipt")
          \/ Faulty /\ Still /\ Ends(p)
       /\ UNCHANGED altered

\* _finish_recorded_decision where it is not: a reject cleans up, an approval
\* checks and syncs the tree it publishes.
FinishAction(p) ==
    LET r == proc[p].run
    IN /\ proc[p].at = "finish" /\ (Has(r, "failure") => Recoverable(r))
       /\ \/ Decided(r, "REJECT") /\ loc[r] \in {"candidate", "reject"} /\ Goes(p, "cleanup") /\ Works
          \/ /\ Decided(r, "APPROVE") /\ loc[r] \in {"candidate", "publish"} /\ ~OutputTaken(r)
             /\ \/ altered[r] /\ Fails(p, r) /\ Works
                \/ ~altered[r] /\ Goes(p, IF loc[r] = "candidate" THEN "toStage" ELSE "toOutput") /\ Works
                \/ Faulty /\ Fails(p, r)
       /\ Still /\ UNCHANGED altered

\* _finish_recorded_decision refuses what it cannot go on from.
FinishRefuses(p) ==
    LET r == proc[p].run
    IN /\ proc[p].at = "finish"
       /\ \/ Has(r, "failure") /\ ~Recoverable(r)
          \/ Decided(r, "REJECT") /\ loc[r] \in {"publish", "output"}
          \/ Decided(r, "APPROVE") /\ (loc[r] \in {"none", "reject", "gone"} \/ OutputTaken(r))
          \/ Decided(r, "APPROVE") /\ loc[r] = "output" /\ altered[r]
       /\ Ends(p) /\ Still /\ UNCHANGED <<altered, mishaps>>

\* publish_candidate: to the stage, where nobody else knows its name, then
\* verified there, then to the output without replacing one.
ToStage(p) ==
    /\ proc[p].at = "toStage"
    /\ \/ Works /\ Rename(proc[p].run, "publish") /\ Goes(p, "stageSync")
       \/ Faulty /\ Still /\ Goes(p, "undo")
    /\ UNCHANGED altered
StageSync(p) ==
    /\ proc[p].at = "stageSync"
    /\ \/ Works /\ SyncParent /\ Goes(p, "toOutput")
       \/ Faulty /\ Still /\ Goes(p, "undo")
    /\ UNCHANGED altered

\* Mutant: what was verified before the stage is not verified in it.
ToOutputUnverified(p) ==
    LET r == proc[p].run
    IN /\ proc[p].at = "toOutput"
       /\ \/ ~OutputTaken(r) /\ Works /\ Rename(r, "output") /\ Goes(p, "outputSync")
          \/ OutputTaken(r) /\ Works /\ Still /\ Goes(p, "undo")
       /\ UNCHANGED altered
ToOutput(p) ==
    LET r == proc[p].run
    IN /\ proc[p].at = "toOutput"
       /\ \/ /\ ~altered[r] /\ ~OutputTaken(r) /\ Works
             /\ Rename(r, "output") /\ Goes(p, "outputSync")
          \/ (altered[r] \/ OutputTaken(r)) /\ Works /\ Still /\ Goes(p, "undo")
          \/ Faulty /\ Still /\ Goes(p, "undo")
       /\ UNCHANGED altered
OutputSync(p) ==
    /\ proc[p].at = "outputSync"
    /\ \/ Works /\ SyncParent /\ Goes(p, "receipt")
       \/ Faulty /\ Still /\ Goes(p, "undo")
    /\ UNCHANGED altered

\* Its error path: a staged tree goes back to its name, if it can.
Undo(p) ==
    LET r == proc[p].run
    IN /\ proc[p].at = "undo"
       /\ \/ loc[r] = "publish" /\ Works /\ Rename(r, "candidate") /\ Goes(p, "undoSync")
          \/ loc[r] = "publish" /\ Faulty /\ Still /\ Fails(p, r)
          \/ loc[r] # "publish" /\ Works /\ Still /\ Fails(p, r)
       /\ UNCHANGED altered
UndoSync(p) ==
    /\ proc[p].at = "undoSync"
    /\ (Works /\ SyncParent) \/ (Faulty /\ Still)
    /\ Fails(p, proc[p].run) /\ UNCHANGED altered

-----------------------------------------------------------------------------
(* What else happens.                                                      *)

Kill(p) == proc[p] # Idle /\ Ends(p) /\ Still /\ UNCHANGED <<altered, mishaps>>

\* The events of a run, and its candidate's name, fall back to something they
\* were since they were last certain; what is left is certain.
PowerLoss(r) ==
    /\ sure[r] < Len(log[r]) \/ maybe[r] # {loc[r]}
    /\ Faulty
    /\ \E n \in sure[r]..Len(log[r]) : log' = [log EXCEPT ![r] = SubSeq(@, 1, n)]
    /\ \E place \in maybe[r] : loc' = [loc EXCEPT ![r] = place]
    /\ sure' = [q \in Runs |-> Len(log'[q])] /\ maybe' = [q \in Runs |-> {loc'[q]}]
    /\ proc' = [p \in Processes |-> Idle] /\ lock' = [q \in Runs |-> Nobody]
    /\ UNCHANGED altered

\* A person edits the candidate by its name.
Edit(r) ==
    /\ loc[r] = "candidate" /\ ~altered[r] /\ altered' = [altered EXCEPT ![r] = TRUE]
    /\ Faulty /\ Still /\ UNCHANGED <<proc, lock>>

Step(p) ==
    \/ Append1(p) \/ Append2(p) \/ Commit(p) \/ CommitSync(p) \/ Fail(p)
    \/ Cleanup(p) \/ Unstage(p) \/ UnstageSync(p) \/ Remove(p) \/ RemoveSync(p) \/ Prompt(p)
    \/ FinishCompleted(p) \/ FinishAction(p) \/ FinishRefuses(p) \/ ToStage(p) \/ StageSync(p)
    \/ ToOutput(p) \/ OutputSync(p) \/ Undo(p) \/ UndoSync(p)

Next ==
    \/ \E p \in Processes : Step(p) \/ Kill(p)
    \/ \E p \in Processes, r \in Runs : Prepare(p, r) \/ Decide(p, r) \/ Replay(p, r)
    \/ \E r \in Runs : Edit(r) \/ PowerLoss(r)
Spec == Init /\ [][Next]_vars

-----------------------------------------------------------------------------
(* Properties.                                                             *)

\* However its writers were killed, refused or left in doubt, and whatever
\* power loss took, a run that has a request can be loaded again.
RunsLoad == \A r \in Runs : log[r] # <<>> => Loads(r)

\* A receipt that can be read is true and no loss of power can make it false:
\* PUBLISHED has its dataset at the output for good, REJECTED has removed it.
ReceiptIsTrue ==
    \A r \in Runs : Has(r, "receipt") =>
        maybe[r] = IF The(r, "receipt").says = "PUBLISHED" THEN {"output"} ELSE {"gone"}

\* A recorded decision governs the candidate: an approved one is never on its
\* way out, a rejected one never on its way to the output, and until there is a
\* receipt no failure on record keeps the next decide from finishing it.
DecisionHolds ==
    \A r \in Runs : Has(r, "decision") =>
        /\ maybe[r] \subseteq (IF Decided(r, "APPROVE") THEN {"candidate", "publish", "output"}
                               ELSE {"candidate", "reject", "gone"})
        /\ Has(r, "failure") => Recoverable(r)

\* A dataset appears at the output only if it is what a person approved, as it
\* was when it was shown, and where no other dataset stands.
PublishedIsApproved ==
    [][\A r \in Runs : loc[r] # "output" /\ loc'[r] = "output" =>
          Decided(r, "APPROVE") /\ ~altered[r] /\ ~OutputTaken(r)]_vars
===============================================================================
