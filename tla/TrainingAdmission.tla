-------------------------- MODULE TrainingAdmission --------------------------
(***************************************************************************)
(* From a recorded dataset to a checkpoint: batches of episodes are        *)
(* approved for training, the trainer is launched on them, and what it     *)
(* saved is inspected before anyone uses it.                               *)
(*                                                                         *)
(*   approvals, inventories and their checks   training_approval.py        *)
(*   approve, run-delegated, launch, resume    training_entrypoint.py      *)
(*   validate_checkpoint                       validate_training_checkpoint.py *)
(*                                                                         *)
(* Each command is a process of its own.  None of them takes the lock of   *)
(* the dataset: a recorder goes on writing it (AtomicDataset) while they   *)
(* look for its commit guard, hash its bytes and train.  A process may be  *)
(* killed between any two steps.  All launches name one training output;   *)
(* an approval directory holds one batch and its inventory.                *)
(*                                                                         *)
(* Simplifications: a check looks for the guard in one step, then hashes   *)
(* the tree and reads the documents in another (a tree that changes while  *)
(* it is hashed is refused).  A check that is repeated with nothing between *)
(* is made once (the first of run-delegated, the third of a launch, the    *)
(* first of a resumption).  Nobody edits approval files or evidence, and   *)
(* the directories stay where they are.  The two documents of a launch     *)
(* differ from another launch's exactly when batch or recipe do; what they *)
(* say about limits, cohorts, mappings and derivations is left out, with   *)
(* dry runs and continue_training.                                         *)
(***************************************************************************)
EXTENDS Naturals, FiniteSets

CONSTANTS
    Runs,         \* runs whose episodes the dataset may hold
    Recorded,     \* those it holds to begin with
    Requests,     \* sets of episodes that someone may ask to train on
    Recipes,      \* what a launch asks of the trainer
    Processes,
    Nobody, None

ASSUME TrainingAssumption ==
    /\ Recorded \subseteq Runs /\ Requests \subseteq (SUBSET Runs) \ {{}}
    /\ Nobody \notin Runs \cup Processes

VARIABLES
    open, content, \* the dataset: the run of its guard, the episodes it holds
    begun,         \* the runs that have had the guard
    delegation,    \* the local delegation stands at its path
    files,         \* the provenance and approval files of the approval directory
    inventory,     \* its training_approved.json
    lock,          \* who has its flock
    pending,       \* the documents of a launch beside the output
    settled,       \* the documents of a launch in the output
    output,        \* the training output
    made,          \* ghost: the launch whose trainer made the output
    strayed,       \* ghost: a trainer read other episodes than its batch's
    agreed,        \* ghost: the batch agreed to by whoever wrote the inventory
    proc           \* per process: its command and where it stands

dataset   == <<open, content, begun>>
approvals == <<files, inventory, lock, agreed>>
launches  == <<pending, settled>>
training  == <<output, made, strayed>>
vars == <<open, content, begun, delegation, files, inventory, lock,
          pending, settled, output, made, strayed, agreed, proc>>

Dataset == INSTANCE AtomicDataset

DataStates == {"none", "partial", "complete"}
Revisions  == [open : Runs \cup {Nobody}, content : [Runs -> DataStates]]
Batches    == [bytes : Revisions, episodes : Requests,
               by : {"human", "delegation"}]
Files      == Runs \X {"provenance", "approval"}
Documents  == [batch : Batches, recipe : Recipes]

\* The absence of a file is not a batch and not a document.
ASSUME NoneAssumption == None \notin Batches \cup Documents

Names      == {"split", "receipt"}
Checks     == {"prepare", "recheck", "again", "recover", "compare", "admit1", "admit2",
               "native", "inspect"}
Steps      == Checks \cup {"idle", "begin", "ask", "lock", "write", "publish", "outputs", "vacant",
                           "reserve", "start", "training", "settle", "unwind", "accepted"}
Commands   == {"none", "approve", "run", "launch", "inspect"}
Idle == [command |-> "none", at |-> "idle", looked |-> FALSE, asked |-> {}, recipe |-> None,
         batch |-> None, agreed |-> None, written |-> {}, resumed |-> FALSE]

ProcStates ==
    [command : Commands, at : Steps, looked : BOOLEAN, asked : Requests \cup {{}},
     recipe : Recipes \cup {None}, batch : Batches \cup {None}, agreed : Batches \cup {None},
     written : SUBSET Names, resumed : BOOLEAN]

\* The values the variables may take.
TypeOK ==
    /\ open \in Runs \cup {Nobody} /\ content \in [Runs -> DataStates] /\ begun \in SUBSET Runs
    /\ delegation \in BOOLEAN /\ agreed \in Batches \cup {None}
    /\ files \in [Files -> Batches \cup {None}]
    /\ inventory \in Batches \cup {None} /\ lock \in Processes \cup {Nobody}
    /\ pending \in [Names -> Documents \cup {None}] /\ settled \in [Names -> Documents \cup {None}]
    /\ output \in {"none", "dir", "checkpoint"} /\ made \in Documents \cup {None}
    /\ strayed \in BOOLEAN
    /\ proc \in [Processes -> ProcStates]

Init ==
    /\ open = Nobody /\ begun = Recorded
    /\ content = [r \in Runs |-> IF r \in Recorded THEN "complete" ELSE "none"]
    /\ delegation = TRUE /\ agreed = None
    /\ files = [f \in Files |-> None] /\ inventory = None /\ lock = Nobody
    /\ pending = [k \in Names |-> None] /\ settled = [k \in Names |-> None]
    /\ output = "none" /\ made = None /\ strayed = FALSE
    /\ proc = [p \in Processes |-> Idle]

-----------------------------------------------------------------------------
(* What goes on around the commands                                        *)

\* A recorder or a recovery changes the dataset; a run has the guard only once.
Record ==
    /\ Dataset!Next /\ (open = Nobody => open' \notin begun)
    /\ begun' = begun \cup ({open'} \ {Nobody})
    /\ UNCHANGED <<delegation, approvals, launches, training, proc>>

\* The person withdraws the delegation.
Withdraw ==
    /\ delegation /\ delegation' = FALSE
    /\ UNCHANGED <<dataset, approvals, launches, training, proc>>

-----------------------------------------------------------------------------
(* Steps of a process                                                      *)

At(p, step)  == proc[p].at = step
Goto(p, step) == proc' = [proc EXCEPT ![p] = [@ EXCEPT !.at = step, !.looked = FALSE]]
Batch(p) == proc[p].batch

\* The command ends, and with it the process and its flock.
End(p) ==
    /\ proc' = [proc EXCEPT ![p] = Idle]
    /\ lock' = IF lock = p THEN Nobody ELSE lock

\* The bytes of the dataset, its guard among them.
Now == [open |-> open, content |-> content]

Stands(by) == by = "delegation" => delegation

\* The batch that the request and its evidence make now.
Draft(p, by) ==
    [bytes |-> Now, episodes |-> proc[p].asked, by |-> by]
Reviewed(p) == \A r \in proc[p].asked : content[r] = "complete"
Same(p) == Reviewed(p) /\ Stands(Batch(p).by) /\ Draft(p, Batch(p).by) = Batch(p)

FilesOf(episodes) == episodes \X {"provenance", "approval"}
Untouched(episodes) == inventory = None /\ \A f \in FilesOf(episodes) : files[f] = None

\* For a mutant: an inventory is admitted whatever became of the dataset since.
CurrentDocuments ==
    /\ inventory # None /\ Stands(inventory.by)
    /\ \A f \in FilesOf(inventory.episodes) : files[f] = inventory

\* The inventory, every file it names, and the dataset are still the approved ones.
Current ==
    /\ inventory # None /\ Stands(inventory.by) /\ Now = inventory.bytes
    /\ \A f \in FilesOf(inventory.episodes) : files[f] = inventory

\* The two documents of a launch: its split and its receipt.
Launched(p) == [batch |-> inventory, recipe |-> proc[p].recipe]
Found(k) == IF settled[k] # None THEN settled[k] ELSE pending[k]

-----------------------------------------------------------------------------
(* The commands                                                            *)

Starting(p, command, first, asked, recipe) ==
    /\ At(p, "idle")
    /\ proc' = [proc EXCEPT ![p] = [Idle EXCEPT !.command = command, !.at = first,
                                                !.asked = asked, !.recipe = recipe]]
    /\ UNCHANGED <<dataset, delegation, approvals, launches, training>>

StartApprove(p) == \E asked \in Requests : Starting(p, "approve", "prepare", asked, None)
StartRun(p)     == \E asked \in Requests, c \in Recipes : Starting(p, "run", "begin", asked, c)
StartLaunch(p)  == \E c \in Recipes : Starting(p, "launch", "admit1", {}, c)
StartInspect(p) == Starting(p, "inspect", "inspect", {}, None)

Crash(p) ==
    /\ ~At(p, "idle") /\ End(p)
    /\ UNCHANGED <<dataset, delegation, files, inventory, agreed, launches, training>>

-----------------------------------------------------------------------------
(* A check: the guard, then the bytes and the documents                    *)

\* A check that fails ends the command; once the documents of a launch are
\* written it leaves through the launch's last block.
Refuse(p) ==
    IF At(p, "native") /\ ~proc[p].resumed
    THEN Goto(p, "unwind") /\ UNCHANGED lock
    ELSE End(p)

Look(p) ==
    /\ proc[p].at \in Checks /\ ~proc[p].looked
    /\ IF open = Nobody THEN proc' = [proc EXCEPT ![p].looked = TRUE] /\ UNCHANGED lock
                        ELSE Refuse(p)
    /\ UNCHANGED <<dataset, delegation, files, inventory, agreed, launches, training>>

Hashing(p, step) == At(p, step) /\ proc[p].looked

\* The second half of a check that writes nothing.
Decide(p, step, holds, next) ==
    /\ Hashing(p, step)
    /\ IF holds THEN proc' = [proc EXCEPT ![p] = next] /\ UNCHANGED lock ELSE Refuse(p)
    /\ UNCHANGED <<dataset, delegation, files, inventory, agreed, launches, training>>
Then(p, step) == [proc[p] EXCEPT !.at = step, !.looked = FALSE]

-----------------------------------------------------------------------------
(* Approving a batch                                                       *)

\* Mutant: the batch says which command made it, not on whose authority.
PrepareNamed(p) ==
    LET by == proc[p].command IN
    Decide(p, "prepare", Stands(by) /\ Reviewed(p) /\ Untouched(proc[p].asked),
           [Then(p, IF by = "approve" THEN "ask" ELSE "lock")
              EXCEPT !.batch = Draft(p, by), !.agreed = IF by = "run" THEN Draft(p, by) ELSE None])

\* The batch is made; what a delegation covers needs nobody's answer.
Prepare(p) ==
    LET by == IF proc[p].command = "run" THEN "delegation" ELSE "human" IN
    Decide(p, "prepare", Stands(by) /\ Reviewed(p) /\ Untouched(proc[p].asked),
           [Then(p, IF by = "human" THEN "ask" ELSE "lock")
              EXCEPT !.batch = Draft(p, by), !.agreed = IF by = "human" THEN None ELSE Draft(p, by)])

\* A person reads the batch on a terminal and confirms it, or does not.
Ask(p) ==
    /\ At(p, "ask")
    /\ \/ proc' = [proc EXCEPT ![p] = [@ EXCEPT !.at = "lock", !.agreed = Batch(p)]] /\ UNCHANGED lock
       \/ End(p)
    /\ UNCHANGED <<dataset, delegation, files, inventory, agreed, launches, training>>

Lock(p) ==
    /\ At(p, "lock")
    /\ IF lock = Nobody THEN lock' = p /\ Goto(p, "recheck") ELSE End(p)
    /\ UNCHANGED <<dataset, delegation, files, inventory, agreed, launches, training>>

\* Mutant: after the person's answer the batch is made anew, not compared.
RecheckAnew(p) ==
    Decide(p, "recheck", Reviewed(p) /\ Stands(Batch(p).by) /\ Untouched(proc[p].asked),
           [Then(p, "write") EXCEPT !.batch = Draft(p, Batch(p).by)])

Recheck(p) ==
    Decide(p, "recheck", Same(p) /\ Untouched(proc[p].asked), Then(p, "write"))

\* The files of the batch, each linked into place, none over another.
Write(p) ==
    LET missing(r, kind) == files[<<r, kind>>] # Batch(p) IN
    /\ At(p, "write")
    /\ \E r \in proc[p].asked :
         LET kind == IF missing(r, "provenance") THEN "provenance" ELSE "approval" IN
         /\ missing(r, kind)
         /\ IF files[<<r, kind>>] = None
            THEN files' = [files EXCEPT ![<<r, kind>>] = Batch(p)] /\ UNCHANGED <<proc, lock>>
            ELSE End(p) /\ UNCHANGED files
    /\ UNCHANGED <<dataset, delegation, inventory, agreed, launches, training>>

\* The inventory is built from the files as they are.
Build(p) ==
    /\ At(p, "write")
    /\ \A f \in FilesOf(proc[p].asked) : files[f] = Batch(p)
    /\ IF Stands(Batch(p).by)
       THEN Goto(p, "again") /\ UNCHANGED lock ELSE End(p)
    /\ UNCHANGED <<dataset, delegation, files, inventory, agreed, launches, training>>

Again(p) == Decide(p, "again", Same(p), Then(p, "publish"))

\* A delegated run with its inventory: what it was asked is settled.
Authorized(p) == [Idle EXCEPT !.command = "run", !.at = "outputs", !.recipe = proc[p].recipe]

Publish(p) ==
    /\ At(p, "publish")
    /\ IF inventory = None
       THEN inventory' = Batch(p) /\ agreed' = proc[p].agreed
       ELSE UNCHANGED <<inventory, agreed>>
    /\ IF inventory = None /\ proc[p].command = "run"
       THEN proc' = [proc EXCEPT ![p] = Authorized(p)] /\ lock' = Nobody ELSE End(p)
    /\ UNCHANGED <<dataset, delegation, files, launches, training>>

-----------------------------------------------------------------------------
(* run-delegated: what an earlier attempt left is evidence, not a start    *)

Begin(p) ==
    /\ At(p, "begin")
    /\ CASE inventory # None                   -> Goto(p, "recover") /\ UNCHANGED lock
         [] inventory = None /\ Untouched(Runs) -> Goto(p, "prepare") /\ UNCHANGED lock
         [] OTHER                               -> End(p)
    /\ UNCHANGED <<dataset, delegation, files, inventory, agreed, launches, training>>

Recover(p) ==
    Decide(p, "recover",
           Current /\ inventory.episodes = proc[p].asked /\ inventory.by = "delegation",
           Authorized(p))

Outputs(p) ==
    /\ At(p, "outputs")
    /\ CASE \E k \in Names : pending[k] # None -> End(p)
         [] output # "none" /\ \A k \in Names : pending[k] = None ->
              IF \A k \in Names : settled[k] # None THEN Goto(p, "compare") /\ UNCHANGED lock ELSE End(p)
         [] OTHER -> Goto(p, "admit1") /\ UNCHANGED lock
    /\ UNCHANGED <<dataset, delegation, files, inventory, agreed, launches, training>>

Compare(p) ==
    Decide(p, "compare",
           Current /\ (\A k \in Names : settled[k] = Launched(p)) /\ output = "checkpoint",
           Then(p, "inspect"))

-----------------------------------------------------------------------------
(* Launching                                                               *)

Admit1(p) ==
    Decide(p, "admit1", Current, [Then(p, "vacant") EXCEPT !.batch = inventory])

CheckVacant(p) ==
    /\ At(p, "vacant")
    /\ IF output = "none" /\ \A k \in Names : pending[k] = None
       THEN Goto(p, "admit2") /\ UNCHANGED lock ELSE End(p)
    /\ UNCHANGED <<dataset, delegation, files, inventory, agreed, launches, training>>

Admit2(p) ==
    Decide(p, "admit2", Current /\ inventory = Batch(p), Then(p, "reserve"))

Mine(p) == [batch |-> Batch(p), recipe |-> proc[p].recipe]
Unwritten(p) == IF "split" \notin proc[p].written THEN "split" ELSE "receipt"

\* Mutant: the documents of another launch are written over.
ReserveOver(p) ==
    LET k == Unwritten(p) IN
    /\ At(p, "reserve")
    /\ pending' = [pending EXCEPT ![k] = Mine(p)]
    /\ proc' = [proc EXCEPT ![p] = [@ EXCEPT
                  !.written = @ \cup {k}, !.at = IF k = "receipt" THEN "native" ELSE @]]
    /\ UNCHANGED <<dataset, delegation, approvals, settled, training>>

\* The split and then the receipt are linked beside the output.
Reserve(p) ==
    LET k == Unwritten(p)
        linked == [proc[p] EXCEPT !.written = @ \cup {k}, !.at = IF k = "receipt" THEN "native" ELSE @]
    IN
    /\ At(p, "reserve")
    /\ IF pending[k] = None
       THEN /\ pending' = [pending EXCEPT ![k] = Mine(p)]
            /\ proc' = [proc EXCEPT ![p] = linked]
       ELSE Goto(p, "unwind") /\ UNCHANGED pending
    /\ UNCHANGED <<dataset, delegation, approvals, settled, training>>

\* The last check before the trainer, of a launch and of a resumption.
Native(p) ==
    Decide(p, "native", Current /\ inventory.episodes = Batch(p).episodes,
           Then(p, "start"))

\* A fresh trainer refuses an output that is there (external).
Start(p) ==
    /\ At(p, "start")
    /\ Goto(p, IF proc[p].resumed \/ output = "none" THEN "training" ELSE "unwind")
    /\ UNCHANGED <<dataset, delegation, approvals, launches, training>>

\* The trainer reads the dataset (external).
Read(p) ==
    /\ At(p, "training")
    /\ strayed' = (strayed \/ content # Batch(p).bytes.content)
    /\ UNCHANGED <<dataset, delegation, approvals, launches, output, made, proc>>

\* The trainer makes its output, and saves checkpoints in it (external).
Save(p) ==
    /\ At(p, "training")
    /\ output' = IF output = "none" THEN "dir" ELSE "checkpoint"
    /\ made' = IF output = "none" THEN Mine(p) ELSE made
    /\ UNCHANGED <<dataset, delegation, approvals, launches, strayed, proc>>

\* The trainer returns or fails.
Finish(p) ==
    /\ At(p, "training")
    /\ \/ proc[p].resumed /\ End(p)
       \/ ~proc[p].resumed /\ UNCHANGED lock /\ \E step \in {"settle", "unwind"} : Goto(p, step)
    /\ UNCHANGED <<dataset, delegation, files, inventory, agreed, launches, training>>

\* What was written moves into the output, if there is one, over nothing, after
\* the trainer returned (settle) or an error was raised (unwind).
Settle(p) ==
    /\ proc[p].at \in {"settle", "unwind"}
    /\ IF proc[p].written = {} \/ output = "none"
       THEN /\ UNCHANGED launches
            /\ IF At(p, "settle") /\ proc[p].command = "run" /\ output = "checkpoint"
               THEN Goto(p, "inspect") /\ UNCHANGED lock ELSE End(p)
       ELSE LET k == IF "split" \in proc[p].written THEN "split" ELSE "receipt" IN
            IF settled[k] # None THEN End(p) /\ UNCHANGED launches
            ELSE /\ settled' = [settled EXCEPT ![k] = pending[k]]
                 /\ pending' = [pending EXCEPT ![k] = None]
                 /\ proc' = [proc EXCEPT ![p].written = @ \ {k}]
                 /\ UNCHANGED lock
    /\ UNCHANGED <<dataset, delegation, files, inventory, agreed, training>>

-----------------------------------------------------------------------------
(* Using what the trainer saved                                            *)

\* What is found for the output is what a launch of today would write.
Matches == \A k \in Names : Found(k) # None /\ Found(k).batch = inventory
                            /\ Found(k).recipe = Found("receipt").recipe

\* Mutant: what is found beside the checkpoint is believed without its dataset.
InspectDocuments(p) ==
    Decide(p, "inspect", output = "checkpoint" /\ CurrentDocuments /\ Matches,
           [Then(p, "accepted") EXCEPT !.batch = inventory])

Inspect(p) ==
    Decide(p, "inspect", output = "checkpoint" /\ Current /\ Matches,
           [Then(p, "accepted") EXCEPT !.batch = inventory])

\* The checkpoint is evaluated or loaded, or its training is resumed.
Use(p) ==
    /\ At(p, "accepted")
    /\ \/ End(p)
       \/ /\ proc[p].command = "inspect" /\ UNCHANGED lock
          /\ proc' = [proc EXCEPT ![p] = [@ EXCEPT !.at = "native", !.resumed = TRUE]]
    /\ UNCHANGED <<dataset, delegation, files, inventory, agreed, launches, training>>

-----------------------------------------------------------------------------
Approve(p) == StartApprove(p) \/ Prepare(p) \/ Ask(p) \/ Lock(p) \/ Recheck(p) \/ Write(p)
              \/ Build(p) \/ Again(p) \/ Publish(p)
RunDelegated(p) == StartRun(p) \/ Begin(p) \/ Recover(p) \/ Outputs(p) \/ Compare(p)
Launch(p) == StartLaunch(p) \/ Admit1(p) \/ CheckVacant(p) \/ Admit2(p) \/ Reserve(p) \/ Native(p)
             \/ Start(p) \/ Read(p) \/ Save(p) \/ Finish(p) \/ Settle(p)
Consume(p) == StartInspect(p) \/ Inspect(p) \/ Use(p)

Next ==
    \/ Record \/ Withdraw
    \/ \E p \in Processes : Look(p) \/ Approve(p) \/ RunDelegated(p) \/ Launch(p) \/ Consume(p) \/ Crash(p)

Spec == Init /\ [][Next]_vars

-----------------------------------------------------------------------------
(* Properties                                                              *)

\* An inventory that is there was agreed to, batch for batch, and is complete:
\* every file it names is that batch's, and its revision is one without a guard
\* that holds its episodes whole, whatever a recorder did while it was reviewed
\* and published (_publish_authorization_batch, current_dataset_identity).
InventoryIsReviewed ==
    inventory # None =>
        /\ agreed = inventory /\ \A f \in FilesOf(inventory.episodes) : files[f] = inventory
        /\ inventory.bytes.open = Nobody
        /\ \A r \in inventory.episodes : inventory.bytes.content[r] = "complete"

\* The documents found for an output are those its trainer was launched with,
\* and nobody else trains afresh meanwhile, whatever launches raced or died
\* between reserving, training and settling (launch, validate_checkpoint).
ManifestsAreOwn ==
    /\ output # "none" => \A k \in Names : Found(k) = made
    /\ \A p \in Processes : At(p, "training") /\ ~proc[p].resumed =>
         /\ \A k \in Names : pending[k] = Mine(p)
         /\ \A q \in Processes \ {p} : At(q, "training") => proc[q].resumed

\* A checkpoint that is accepted for use was trained, from its first step to its
\* last, on the episodes of a batch that was agreed to (validate_checkpoint).
AcceptedIsApproved ==
    [][\A p \in Processes : ~At(p, "accepted") /\ At(p, "accepted")' =>
          ~strayed /\ made.batch = agreed]_vars
==============================================================================
