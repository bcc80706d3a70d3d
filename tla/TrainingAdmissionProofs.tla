----------------------- MODULE TrainingAdmissionProofs -----------------------
(***************************************************************************)
(* Inv (TrainingAdmissionInv) is inductive, and what follows from it: an   *)
(* inventory is the one that was agreed to, the documents of an output are *)
(* its trainer's, and an accepted checkpoint was trained on approved       *)
(* episodes, for every set of runs, requests, recipes and processes.       *)
(*                                                                         *)
(* The argument: what a step shares with other processes only moves on     *)
(* (Advance), and nothing they rely on is moved away from under them       *)
(* (Bystander); it remains to look at the process that takes the step.     *)
(* Most steps change nothing but that process (Quiet).                     *)
(***************************************************************************)
EXTENDS TrainingAdmissionInv, TLAPS

Others(p) == Processes \ {p}
Own(p)    == DraftInv(p) /\ LaunchInv(p) /\ WrittenInv(p)

\* What a step does to the shared state leaves what was relied on as it was.
Advance ==
    /\ open' = open \/ open' \notin begun
    /\ begun \subseteq begun'
    /\ \A r \in Runs : /\ content[r] = "complete" => content'[r] = "complete"
                       /\ content[r] # "none" => content'[r] # "none"
    /\ \A f \in Files : files[f] # None => files'[f] = files[f]
    /\ inventory # None => inventory' = inventory
    /\ output # "none" => output' # "none"

-----------------------------------------------------------------------------
(* Records and sentinels *)

\* The names of the steps are steps.
LEMMA StepNames == \A step \in {"idle", "begin", "ask", "lock", "write", "publish", "outputs", "vacant",
                                "reserve", "start", "training", "settle", "unwind", "accepted",
                                "prepare", "recheck", "again", "recover", "compare", "admit1", "admit2",
                                "native", "inspect"} : step \in Steps
BY DEF Steps, Checks

\* A process that has ended has a state of its type, and nothing written.
LEMMA IdleFacts ==
    /\ Idle \in ProcStates /\ Idle.at = "idle" /\ Idle.command = "none"
    /\ Idle.written = {} /\ Idle.resumed = FALSE
BY DEF Idle, ProcStates, Commands, Steps, Names

\* A process that goes on to the next step keeps all else.
LEMMA ThenFacts ==
  ASSUME NEW p \in Processes, proc[p] \in ProcStates, NEW step \in Steps
  PROVE  /\ Then(p, step) \in ProcStates
         /\ Then(p, step).at = step /\ Then(p, step).looked = FALSE
         /\ Then(p, step).command = proc[p].command /\ Then(p, step).asked = proc[p].asked
         /\ Then(p, step).recipe = proc[p].recipe /\ Then(p, step).batch = proc[p].batch
         /\ Then(p, step).agreed = proc[p].agreed /\ Then(p, step).written = proc[p].written
         /\ Then(p, step).resumed <=> proc[p].resumed
BY DEF Then, ProcStates

\* Goto is such a step.
LEMMA GotoFacts ==
  ASSUME TypeOK, NEW p \in Processes, NEW step \in Steps, Goto(p, step)
  PROVE  proc' = [proc EXCEPT ![p] = Then(p, step)]
BY DEF Goto, Then, TypeOK, ProcStates

\* The documents of a launch that goes by the inventory are documents.
LEMMA MineFacts ==
  ASSUME TypeOK, NEW p \in Processes, LaunchInv(p), inventory # None,
         proc[p].at \in Admitted \ {"accepted"}, ~proc[p].resumed
  PROVE  Mine(p) \in Documents /\ Mine(p) # None /\ Mine(p).batch = inventory
<1>1. Batch(p) \in Batches /\ Batch(p) = inventory BY DEF LaunchInv, TypeOK
<1>2. proc[p].recipe \in Recipes BY DEF LaunchInv
<1> QED BY <1>1, <1>2, NoneAssumption DEF Mine, Documents

\* A batch is a revision, its episodes and the authority behind it.
LEMMA BatchFacts ==
  ASSUME NEW b \in Batches
  PROVE  /\ b # None /\ b.episodes \in Requests /\ b.by \in {"human", "delegation"}
         /\ b.bytes \in Revisions /\ b.bytes.open \in Runs \cup {Nobody}
         /\ b.bytes.content \in [Runs -> DataStates]
BY NoneAssumption DEF Batches, Revisions

-----------------------------------------------------------------------------
(* A step and the processes that do not take it *)

\* What a revision was is still behind the dataset.
LEMMA ReachedStays ==
  ASSUME Advance, NEW revision, Reached(revision)
  PROVE  Reached(revision)'
BY DEF Advance, Reached

\* A process that takes no step, and whose documents stay, keeps what it relies on.
LEMMA Bystander ==
  ASSUME TypeOK, Advance, NEW q \in Processes, Own(q), proc'[q] = proc[q],
         \A k \in proc[q].written : pending'[k] = pending[k]
  PROVE  Own(q)'
<1>1. DraftInv(q)'
  <2> USE DEF DraftInv, Own, Batch
  <2>1. proc[q].at \in Drafted => Reached(proc[q].batch.bytes)'
    BY ReachedStays
  <2>2. ASSUME proc[q].at \in {"again", "publish"}
        PROVE  \A f \in FilesOf(proc[q].asked) : files'[f] = proc[q].batch
    <3>1. proc[q].batch # None /\ \A f \in FilesOf(proc[q].asked) : files[f] = proc[q].batch
      BY <2>2 DEF Drafted
    <3>2. FilesOf(proc[q].asked) \subseteq Files
      BY <2>2, TrainingAssumption DEF Drafted, FilesOf, Files
    <3> QED BY <3>1, <3>2 DEF Advance
  <2> QED BY <2>1, <2>2 DEF Advance, Drafted
<1>2. LaunchInv(q)'
  BY DEF Own, LaunchInv, Advance, Batch
<1>3. WrittenInv(q)'
  BY DEF Own, WrittenInv, Mine, Batch
<1> QED BY <1>1, <1>2, <1>3 DEF Own

\* Only process p takes a step: what it had written may only have gone.
LEMMA OthersKeep ==
  ASSUME Inv, Advance, NEW p \in Processes, NEW s \in ProcStates,
         proc' = [proc EXCEPT ![p] = s],
         \A q \in Others(p) : \A k \in proc[q].written : pending'[k] = pending[k],
         \A q \in Others(p) : s.written \cap proc[q].written = {},
         Own(p)'
  PROVE  (\A q \in Processes : Own(q))' /\ Apart' /\ proc' \in [Processes -> ProcStates]
<1> USE DEF Inv
<1>1. proc' \in [Processes -> ProcStates] /\ proc'[p] = s /\ \A q \in Others(p) : proc'[q] = proc[q]
  BY DEF TypeOK, Others
<1>2. ASSUME NEW q \in Others(p) PROVE Own(q)'
  BY <1>1, <1>2, Bystander DEF Own, Others
<1>3. Apart' BY <1>1 DEF Apart, Others
<1> QED BY <1>1, <1>2, <1>3 DEF Others

\* A step that changes only one process, and the lock.
LEMMA Quiet ==
  ASSUME Inv, NEW p \in Processes, NEW s \in ProcStates,
         proc' = [proc EXCEPT ![p] = s], s.written \subseteq proc[p].written,
         lock' \in Processes \cup {Nobody},
         UNCHANGED <<dataset, delegation, files, inventory, agreed, launches, training>>,
         Own(p)'
  PROVE  Inv'
<1> USE DEF Inv
<1>1. Advance BY DEF Advance, dataset, training
<1>2. (\A q \in Processes : Own(q))' /\ Apart' /\ proc' \in [Processes -> ProcStates]
  BY <1>1, OthersKeep DEF launches, Others, Apart
<1>3. TypeOK' BY <1>2 DEF TypeOK, dataset, launches, training
<1>4. DatasetInv' /\ OutputInv' /\ InventoryIsReviewed'
  BY DEF DatasetInv, OutputInv, InventoryIsReviewed, Reached, Found, dataset, launches, training
<1> QED BY <1>2, <1>3, <1>4 DEF Own

-----------------------------------------------------------------------------
(* Steps that end a command, or start one *)

\* A process that ends relies on nothing.
LEMMA EndStep ==
  ASSUME Inv, NEW p \in Processes, End(p),
         UNCHANGED <<dataset, delegation, files, inventory, agreed, launches, training>>
  PROVE  Inv'
<1>1. proc' = [proc EXCEPT ![p] = Idle] /\ lock' \in Processes \cup {Nobody}
  BY DEF End, Inv, TypeOK
<1>2. proc'[p] = Idle BY <1>1 DEF Inv, TypeOK
<1>3. Own(p)'
  BY <1>2, IdleFacts
     DEF Own, DraftInv, LaunchInv, WrittenInv, Drafted, Rechecked, Admitted, Reserved, Leaving
<1> QED BY <1>1, <1>3, IdleFacts, Quiet

-----------------------------------------------------------------------------
(* Steps that change where a process stands *)

\* What a process that goes on to a step relies on, in its own terms.
LEMMA Went ==
  ASSUME Inv, NEW p \in Processes, NEW step \in Steps, proc' = [proc EXCEPT ![p] = Then(p, step)]
  PROVE  /\ proc'[p].at = step /\ proc'[p].looked = FALSE
         /\ proc'[p].command = proc[p].command /\ proc'[p].asked = proc[p].asked
         /\ proc'[p].recipe = proc[p].recipe /\ proc'[p].batch = proc[p].batch
         /\ proc'[p].agreed = proc[p].agreed /\ proc'[p].written = proc[p].written
         /\ proc'[p].resumed <=> proc[p].resumed
<1>1. proc \in [Processes -> ProcStates] BY DEF Inv, TypeOK
<1>2. proc'[p] = Then(p, step) BY <1>1
<1> QED BY <1>1, <1>2, ThenFacts

\* It is enough to look at that process.
LEMMA GoOn ==
  ASSUME Inv, NEW p \in Processes, NEW step \in Steps, proc' = [proc EXCEPT ![p] = Then(p, step)],
         lock' \in Processes \cup {Nobody},
         UNCHANGED <<dataset, delegation, files, inventory, agreed, launches, training>>,
         Own(p)'
  PROVE  Inv'
<1>1. proc[p] \in ProcStates BY DEF Inv, TypeOK
<1>2. Then(p, step) \in ProcStates /\ Then(p, step).written = proc[p].written
  BY <1>1, ThenFacts
<1> QED BY <1>2, Quiet

\* Between two launches there is nothing to rely on but the command's recipe.
LEMMA GoOnLoose ==
  ASSUME Inv, NEW p \in Processes, NEW step \in {"recover", "compare", "admit1", "outputs", "inspect"},
         Goto(p, step), UNCHANGED lock, proc[p].command \in {"run", "launch"}, proc[p].written = {},
         ~proc[p].resumed,
         UNCHANGED <<dataset, delegation, files, inventory, agreed, launches, training>>
  PROVE  Inv'
<1>1. step \in Steps BY StepNames
<1>2. proc' = [proc EXCEPT ![p] = Then(p, step)] BY <1>1, GotoFacts DEF Inv
<1>3. LaunchInv(p) BY DEF Inv
<1>4. Own(p)'
  <2>1. DraftInv(p)' BY <1>1, <1>2, Went DEF DraftInv, Drafted, Rechecked
  <2>2. LaunchInv(p)' BY <1>1, <1>2, <1>3, Went DEF LaunchInv, Admitted
  <2>3. WrittenInv(p)' BY <1>1, <1>2, Went DEF WrittenInv, Reserved
  <2> QED BY <2>1, <2>2, <2>3 DEF Own
<1>5. lock' \in Processes \cup {Nobody} BY DEF Inv, TypeOK
<1> QED BY <1>1, <1>2, <1>4, <1>5, GoOn

\* From one step of a launch to a later one.
LEMMA GoOnLaunch ==
  ASSUME Inv, NEW p \in Processes, NEW step \in Admitted \ {"reserve", "accepted"},
         proc[p].at \in Admitted \ {"accepted"},
         proc' = [proc EXCEPT ![p] = Then(p, step)], UNCHANGED lock,
         proc[p].written # {} => step \in Reserved \cup Leaving,
         step \in Reserved /\ ~proc[p].resumed => proc[p].written = Names,
         proc[p].resumed => step \in Reserved,
         UNCHANGED <<dataset, delegation, files, inventory, agreed, launches, training>>
  PROVE  Inv'
<1>1. step \in Steps BY StepNames DEF Admitted
<1>2. LaunchInv(p) /\ WrittenInv(p) BY DEF Inv
<1>3. Own(p)'
  <2>1. DraftInv(p)' BY <1>1, Went DEF DraftInv, Drafted, Rechecked, Admitted
  <2>2. LaunchInv(p)' BY <1>1, <1>2, Went DEF LaunchInv, Batch, training
  <2>3. WrittenInv(p)'
    <3>1. Mine(p)' = Mine(p) BY <1>1, Went DEF Mine, Batch
    <3> QED BY <1>1, <1>2, <3>1, Went DEF WrittenInv, launches
  <2> QED BY <2>1, <2>2, <2>3 DEF Own
<1>4. lock' \in Processes \cup {Nobody} BY DEF Inv, TypeOK
<1> QED BY <1>1, <1>3, <1>4, GoOn

\* A check that fails leaves the invariant, whichever way the command goes on.
LEMMA RefuseStep ==
  ASSUME Inv, NEW p \in Processes, Refuse(p),
         UNCHANGED <<dataset, delegation, files, inventory, agreed, launches, training>>
  PROVE  Inv'
<1>1. CASE At(p, "native") /\ ~proc[p].resumed
  <2>1. Goto(p, "unwind") /\ UNCHANGED lock BY <1>1 DEF Refuse
  <2>2. "unwind" \in Steps BY StepNames
  <2>3. proc' = [proc EXCEPT ![p] = Then(p, "unwind")] BY <2>1, <2>2, GotoFacts DEF Inv
  <2> QED BY <1>1, <2>1, <2>3, GoOnLaunch DEF At, Admitted, Leaving, Reserved
<1>2. CASE ~(At(p, "native") /\ ~proc[p].resumed)
  BY <1>2, EndStep DEF Refuse
<1> QED BY <1>1, <1>2

\* A command starts with nothing but what it was asked.
LEMMA StartingStep ==
  ASSUME Inv, NEW p \in Processes,
         StartApprove(p) \/ StartRun(p) \/ StartLaunch(p) \/ StartInspect(p)
  PROVE  Inv'
<1>1. PICK command \in Commands \ {"none"}, first \in {"prepare", "begin", "admit1", "inspect"},
           asked \in Requests \cup {{}}, recipe \in Recipes \cup {None} :
        /\ Starting(p, command, first, asked, recipe)
        /\ command \in {"run", "launch"} => recipe \in Recipes
        /\ first \in {"begin", "admit1"} => command \in {"run", "launch"}
        /\ first \in {"prepare", "begin"} => asked \in Requests
  BY DEF StartApprove, StartRun, StartLaunch, StartInspect, Commands
<1> DEFINE s == [Idle EXCEPT !.command = command, !.at = first, !.asked = asked, !.recipe = recipe]
<1>2. /\ s \in ProcStates /\ s.command = command /\ s.at = first /\ s.asked = asked
      /\ s.recipe = recipe /\ s.written = {} /\ s.resumed = FALSE /\ s.looked = FALSE
  <2>1. first \in Steps BY StepNames
  <2> QED BY <2>1 DEF Idle, ProcStates, Names
<1>3. proc' = [proc EXCEPT ![p] = s] /\ lock' = lock
  BY <1>1 DEF Starting, approvals
<1>4. proc'[p] = s BY <1>3 DEF Inv, TypeOK
<1> HIDE DEF s
<1>5. Own(p)'
  <2>1. DraftInv(p)' BY <1>1, <1>2, <1>4 DEF DraftInv, Drafted, Rechecked
  <2>2. LaunchInv(p)' BY <1>1, <1>2, <1>4 DEF LaunchInv, Admitted
  <2>3. WrittenInv(p)' BY <1>1, <1>2, <1>4 DEF WrittenInv, Reserved
  <2> QED BY <2>1, <2>2, <2>3 DEF Own
<1>6. UNCHANGED <<dataset, delegation, files, inventory, agreed, launches, training>>
  BY <1>1 DEF Starting, approvals
<1>7. lock' \in Processes \cup {Nobody} BY <1>3 DEF Inv, TypeOK
<1> QED BY <1>2, <1>3, <1>5, <1>6, <1>7, Quiet

\* The first half of a check: no run has the guard of the dataset.
LEMMA LookStep ==
  ASSUME Inv, NEW p \in Processes, Look(p)
  PROVE  Inv'
<1>0. UNCHANGED <<dataset, delegation, files, inventory, agreed, launches, training>> BY DEF Look
<1>1. CASE open = Nobody
  <2> DEFINE s == [proc[p] EXCEPT !.looked = TRUE]
  <2>1. proc[p] \in ProcStates BY DEF Inv, TypeOK
  <2>2. /\ s \in ProcStates /\ s.command = proc[p].command /\ s.at = proc[p].at
        /\ s.asked = proc[p].asked /\ s.recipe = proc[p].recipe /\ s.batch = proc[p].batch
        /\ s.agreed = proc[p].agreed /\ s.written = proc[p].written
        /\ s.resumed = proc[p].resumed
    BY <2>1 DEF ProcStates
  <2>3. proc' = [proc EXCEPT ![p] = s] /\ lock' = lock
    BY <1>1 DEF Look, Inv, TypeOK
  <2>4. proc'[p] = s BY <2>3 DEF Inv, TypeOK
  <2> HIDE DEF s
  <2>5. Own(p) /\ lock' \in Processes \cup {Nobody} BY <2>3 DEF Inv, TypeOK, Own
  <2>6. DraftInv(p)'
    BY <1>0, <1>1, <2>2, <2>4, <2>5 DEF Own, DraftInv, Batch, Reached, dataset
  <2>7. LaunchInv(p)' BY <1>0, <2>2, <2>4, <2>5 DEF Own, LaunchInv, Batch, training
  <2>8. WrittenInv(p)'
    <3>1. Mine(p)' = Mine(p) BY <2>2, <2>4 DEF Mine, Batch
    <3> QED BY <1>0, <2>2, <2>4, <2>5, <3>1 DEF Own, WrittenInv, launches
  <2> QED BY <1>0, <2>2, <2>3, <2>5, <2>6, <2>7, <2>8, Quiet DEF Own
<1>2. CASE open # Nobody BY <1>0, <1>2, RefuseStep DEF Look
<1> QED BY <1>1, <1>2

-----------------------------------------------------------------------------
(* Approving a batch *)

\* The batch is made of what is there, whoever's guard is on it.
LEMMA PrepareStep ==
  ASSUME Inv, NEW p \in Processes, Prepare(p)
  PROVE  Inv'
<1> DEFINE by == IF proc[p].command = "run" THEN "delegation" ELSE "human"
           b  == Draft(p, by)
           s  == [Then(p, IF by = "human" THEN "ask" ELSE "lock")
                    EXCEPT !.batch = b, !.agreed = IF by = "human" THEN None ELSE b]
           holds == Stands(by) /\ Reviewed(p) /\ Untouched(proc[p].asked)
<1>0. /\ UNCHANGED <<dataset, delegation, files, inventory, agreed, launches, training>>
      /\ Hashing(p, "prepare")
      /\ IF holds THEN proc' = [proc EXCEPT ![p] = s] /\ UNCHANGED lock ELSE Refuse(p)
  BY DEF Prepare, Decide
<1>1. CASE holds
  <2>1. proc[p] \in ProcStates /\ Own(p) /\ proc[p].at = "prepare" /\ proc[p].asked \in Requests
    BY <1>0 DEF Inv, TypeOK, Own, DraftInv, Hashing, At
  <2>2. /\ b \in Batches /\ b.bytes.open = open /\ b.bytes.content = content
        /\ b.episodes = proc[p].asked
    BY <2>1 DEF Draft, Now, Batches, Revisions, Inv, TypeOK
  <2>3. b # None BY <2>2, BatchFacts
  <2>4. /\ s \in ProcStates /\ s.at \in {"ask", "lock"} /\ s.looked = FALSE
        /\ s.command = proc[p].command /\ s.asked = proc[p].asked /\ s.recipe = proc[p].recipe
        /\ s.batch = b /\ (s.at = "lock" => s.agreed = b) /\ s.written = proc[p].written
        /\ (s.resumed <=> proc[p].resumed)
    <3> HIDE DEF b
    <3>1. ASSUME NEW step \in {"ask", "lock"}
          PROVE  /\ Then(p, step) \in ProcStates
                 /\ Then(p, step).at = step /\ Then(p, step).looked = FALSE
                 /\ Then(p, step).command = proc[p].command /\ Then(p, step).asked = proc[p].asked
                 /\ Then(p, step).recipe = proc[p].recipe
                 /\ Then(p, step).written = proc[p].written
                 /\ (Then(p, step).resumed <=> proc[p].resumed)
      <4>1. step \in Steps BY StepNames
      <4> QED BY <2>1, <4>1, ThenFacts
    <3>2. CASE by = "human"
      <4> DEFINE t == Then(p, "ask")
      <4>1. s = [t EXCEPT !.batch = b, !.agreed = None] BY <3>2
      <4> HIDE DEF t
      <4>2. t \in ProcStates BY <3>1 DEF t
      <4>3. /\ s \in ProcStates /\ s.at = t.at /\ s.looked = t.looked /\ s.command = t.command
            /\ s.asked = t.asked /\ s.recipe = t.recipe /\ s.batch = b /\ s.written = t.written
            /\ s.resumed = t.resumed
        BY <2>2, <4>1, <4>2 DEF ProcStates
      <4> QED BY <3>1, <4>3 DEF t
    <3>3. CASE by # "human"
      <4> DEFINE t == Then(p, "lock")
      <4>1. s = [t EXCEPT !.batch = b, !.agreed = b] BY <3>3
      <4> HIDE DEF t
      <4>2. t \in ProcStates BY <3>1 DEF t
      <4>3. /\ s \in ProcStates /\ s.at = t.at /\ s.looked = t.looked /\ s.command = t.command
            /\ s.asked = t.asked /\ s.recipe = t.recipe /\ s.batch = b /\ s.agreed = b
            /\ s.written = t.written /\ s.resumed = t.resumed
        BY <2>2, <4>1, <4>2 DEF ProcStates
      <4> QED BY <3>1, <4>3 DEF t
    <3> QED BY <3>2, <3>3
  <2>5. proc' = [proc EXCEPT ![p] = s] /\ lock' = lock BY <1>0, <1>1
  <2>6. proc'[p] = s BY <2>5 DEF Inv, TypeOK
  <2>7. \A r \in proc[p].asked : b.bytes.content[r] = "complete" BY <1>1, <2>2 DEF Reviewed
  <2> HIDE DEF s, b
  <2>8. DraftInv(p)'
    <3>1. \A r \in Runs : /\ b.bytes.content[r] = "complete" => content'[r] = "complete"
                          /\ b.bytes.content[r] = "partial" => content'[r] # "none"
      BY <1>0, <2>2 DEF dataset
    <3>2. b.bytes.open # Nobody => b.bytes.open \in begun
      BY <2>2 DEF Inv, DatasetInv
    <3>3. begun' = begun BY <1>0 DEF dataset
    <3> QED BY <2>1, <2>2, <2>3, <2>4, <2>6, <2>7, <3>1, <3>2, <3>3
            DEF DraftInv, Batch, Drafted, Rechecked, Reached
  <2>9. LaunchInv(p)' BY <2>1, <2>4, <2>6 DEF Own, LaunchInv, Admitted, Reserved
  <2>10. WrittenInv(p)'
    <3>1. proc[p].written = {}
      BY <2>1 DEF Own, WrittenInv, Reserved, Leaving
    <3> QED BY <2>4, <2>6, <3>1 DEF WrittenInv, Reserved
  <2>11. lock' \in Processes \cup {Nobody} BY <2>5 DEF Inv, TypeOK
  <2> QED BY <1>0, <2>4, <2>5, <2>8, <2>9, <2>10, <2>11, Quiet DEF Own
<1>2. CASE ~holds BY <1>0, <1>2, RefuseStep
<1> QED BY <1>1, <1>2

\* On the way from a batch to its inventory a process keeps the batch.
LEMMA GoOnDraft ==
  ASSUME Inv, NEW p \in Processes, NEW step \in Drafted \ {"ask"}, proc[p].at \in Drafted,
         proc' = [proc EXCEPT ![p] = Then(p, step)], lock' \in Processes \cup {Nobody},
         proc[p].agreed = Batch(p),
         step \in Rechecked => Batch(p).bytes.open = Nobody,
         step \in {"again", "publish"} => \A f \in FilesOf(proc[p].asked) : files[f] = Batch(p),
         UNCHANGED <<dataset, delegation, files, inventory, agreed, launches, training>>
  PROVE  Inv'
<1>1. step \in Steps BY StepNames DEF Drafted
<1>2. DraftInv(p) /\ LaunchInv(p) /\ WrittenInv(p) BY DEF Inv
<1>3. DraftInv(p)'
  <2>1. /\ proc'[p].at = step /\ proc'[p].looked = FALSE /\ proc'[p].asked = proc[p].asked
        /\ proc'[p].batch = proc[p].batch /\ proc'[p].agreed = proc[p].agreed
    BY <1>1, Went
  <2>2. content' = content /\ begun' = begun /\ files' = files BY DEF dataset
  <2>3. Reached(proc[p].batch.bytes) BY <1>2 DEF DraftInv, Batch
  <2>4. Reached(Batch(p).bytes)' BY <2>1, <2>2, <2>3 DEF Reached, Batch
  <2> QED BY <1>2, <2>1, <2>2, <2>4 DEF DraftInv, Batch, Drafted
<1>4. LaunchInv(p)' BY <1>1, <1>2, Went DEF LaunchInv, Drafted, Admitted, Reserved
<1>5. WrittenInv(p)'
  <2>1. proc[p].written = {} BY <1>2 DEF WrittenInv, Drafted, Reserved, Leaving
  <2> QED BY <1>1, <2>1, Went DEF WrittenInv, Drafted, Reserved
<1> QED BY <1>1, <1>3, <1>4, <1>5, GoOn DEF Own

\* A person agrees to the batch that was shown, or the command ends.
LEMMA AskStep ==
  ASSUME Inv, NEW p \in Processes, Ask(p)
  PROVE  Inv'
<1>0. UNCHANGED <<dataset, delegation, files, inventory, agreed, launches, training>> BY DEF Ask
<1>1. CASE proc' = [proc EXCEPT ![p] = [@ EXCEPT !.at = "lock", !.agreed = Batch(p)]] /\ UNCHANGED lock
  <2>1. proc[p] \in ProcStates /\ Own(p) /\ proc[p].at = "ask" /\ lock \in Processes \cup {Nobody}
    BY DEF Inv, TypeOK, Own, Ask, At
  <2> DEFINE s == [proc[p] EXCEPT !.at = "lock", !.agreed = Batch(p)]
  <2>2. /\ s \in ProcStates /\ s.command = proc[p].command /\ s.at = "lock"
        /\ s.asked = proc[p].asked /\ s.recipe = proc[p].recipe /\ s.batch = proc[p].batch
        /\ s.agreed = proc[p].batch /\ s.written = proc[p].written
        /\ s.resumed = proc[p].resumed
    <3>1. "lock" \in Steps BY StepNames
    <3> QED BY <2>1, <3>1 DEF ProcStates, Batch
  <2>3. proc' = [proc EXCEPT ![p] = s] BY <1>1 DEF Inv, TypeOK
  <2>4. proc'[p] = s BY <2>3 DEF Inv, TypeOK
  <2> HIDE DEF s
  <2>5. DraftInv(p)'
    BY <1>0, <2>1, <2>2, <2>4 DEF Own, DraftInv, Batch, Reached, Drafted, Rechecked, dataset
  <2>6. LaunchInv(p)' BY <2>1, <2>2, <2>4 DEF Own, LaunchInv, Admitted, Reserved
  <2>7. WrittenInv(p)'
    <3>1. proc[p].written = {} BY <2>1 DEF Own, WrittenInv, Reserved, Leaving
    <3> QED BY <2>2, <2>4, <3>1 DEF WrittenInv, Reserved
  <2> QED BY <1>0, <1>1, <2>1, <2>2, <2>3, <2>5, <2>6, <2>7, Quiet DEF Own
<1>2. CASE End(p) BY <1>0, <1>2, EndStep
<1> QED BY <1>1, <1>2 DEF Ask

\* The lock is taken, or the command ends.
LEMMA LockStep ==
  ASSUME Inv, NEW p \in Processes, Lock(p)
  PROVE  Inv'
<1>0. UNCHANGED <<dataset, delegation, files, inventory, agreed, launches, training>> BY DEF Lock
<1>1. CASE lock = Nobody
  <2>1. lock' = p /\ Goto(p, "recheck") /\ proc[p].at = "lock" BY <1>1 DEF Lock, At
  <2>2. proc' = [proc EXCEPT ![p] = Then(p, "recheck")]
    BY <2>1, StepNames, GotoFacts DEF Inv
  <2>3. proc[p].agreed = Batch(p) BY <2>1 DEF Inv, DraftInv, Drafted
  <2> QED BY <1>0, <2>1, <2>2, <2>3, GoOnDraft DEF Drafted, Rechecked
<1>2. CASE lock # Nobody BY <1>0, <1>2, EndStep DEF Lock
<1> QED BY <1>1, <1>2

\* What is rechecked is without a guard: the guard that may have been on it when
\* it was made is gone by the time the check has looked, and does not come back.
LEMMA RecheckStep ==
  ASSUME Inv, NEW p \in Processes, Recheck(p)
  PROVE  Inv'
<1>0. /\ UNCHANGED <<dataset, delegation, files, inventory, agreed, launches, training>>
      /\ proc[p].at = "recheck" /\ proc[p].looked
      /\ IF Same(p) /\ Untouched(proc[p].asked)
         THEN proc' = [proc EXCEPT ![p] = Then(p, "write")] /\ UNCHANGED lock ELSE Refuse(p)
  BY DEF Recheck, Decide, Hashing, At
<1>1. CASE Same(p) /\ Untouched(proc[p].asked)
  <2>1. Batch(p).bytes.open = open BY <1>1 DEF Same, Draft, Now
  <2>2. Batch(p).bytes.open = Nobody BY <1>0, <2>1 DEF Inv, DraftInv
  <2>3. proc[p].agreed = Batch(p) BY <1>0 DEF Inv, DraftInv, Drafted
  <2>4. lock' \in Processes \cup {Nobody} BY <1>0, <1>1 DEF Inv, TypeOK
  <2> QED BY <1>0, <1>1, <2>2, <2>3, <2>4, GoOnDraft DEF Drafted
<1>2. CASE ~(Same(p) /\ Untouched(proc[p].asked)) BY <1>0, <1>2, RefuseStep
<1> QED BY <1>1, <1>2

\* A file is linked where there was none.
LEMMA WriteStep ==
  ASSUME Inv, NEW p \in Processes, Write(p)
  PROVE  Inv'
<1>0. /\ UNCHANGED <<dataset, delegation, inventory, agreed, launches, training>>
      /\ proc[p].at = "write"
  BY DEF Write, At
<1>1. ASSUME NEW f \in Files, files[f] = None, files' = [files EXCEPT ![f] = Batch(p)],
             UNCHANGED <<proc, lock>>
      PROVE  Inv'
  <2> USE <1>0, <1>1 DEF Inv
  <2>1. Batch(p) \in Batches /\ Batch(p) # None BY DEF DraftInv, Drafted, TypeOK, ProcStates, Batch
  <2>2. files' \in [Files -> Batches \cup {None}] BY <2>1 DEF TypeOK
  <2>3. Advance BY <2>1 DEF Advance, TypeOK, dataset, training
  <2>4. (\A q \in Processes : Own(q))' BY <2>3, Bystander DEF Own, launches
  <2>5. TypeOK' BY <2>2 DEF TypeOK, dataset, launches, training
  <2>6. DatasetInv' /\ OutputInv' /\ Apart'
    BY DEF DatasetInv, OutputInv, Apart, Reached, Found, dataset, launches, training
  <2>7. InventoryIsReviewed'
    <3>1. inventory # None => FilesOf(inventory.episodes) \subseteq Files
      BY TrainingAssumption, BatchFacts DEF TypeOK, FilesOf, Files
    <3> QED BY <2>3, <3>1, BatchFacts DEF InventoryIsReviewed, Advance, TypeOK
  <2> QED BY <2>4, <2>5, <2>6, <2>7 DEF Own
<1>2. CASE End(p) /\ UNCHANGED files BY <1>0, <1>2, EndStep
<1>3. PICK r \in proc[p].asked, kind \in {"provenance", "approval"} :
        IF files[<<r, kind>>] = None
        THEN files' = [files EXCEPT ![<<r, kind>>] = Batch(p)] /\ UNCHANGED <<proc, lock>>
        ELSE End(p) /\ UNCHANGED files
  BY DEF Write
<1>4. <<r, kind>> \in Files
  BY <1>0, TrainingAssumption DEF Inv, DraftInv, Drafted, Files
<1> QED BY <1>1, <1>2, <1>3, <1>4

\* The inventory is built from files that are all the batch's.
LEMMA BuildStep ==
  ASSUME Inv, NEW p \in Processes, Build(p)
  PROVE  Inv'
<1>0. /\ UNCHANGED <<dataset, delegation, files, inventory, agreed, launches, training>>
      /\ proc[p].at = "write"
  BY DEF Build, At
<1>1. CASE Stands(Batch(p).by)
  <2>1. Goto(p, "again") /\ UNCHANGED lock BY <1>1 DEF Build
  <2>2. proc' = [proc EXCEPT ![p] = Then(p, "again")] BY <2>1, StepNames, GotoFacts DEF Inv
  <2>3. proc[p].agreed = Batch(p) /\ Batch(p).bytes.open = Nobody
    BY <1>0 DEF Inv, DraftInv, Drafted, Rechecked
  <2>4. lock' \in Processes \cup {Nobody} BY <2>1 DEF Inv, TypeOK
  <2>5. \A f \in FilesOf(proc[p].asked) : files[f] = Batch(p) BY DEF Build
  <2> QED BY <1>0, <2>2, <2>3, <2>4, <2>5, GoOnDraft DEF Drafted
<1>2. CASE ~Stands(Batch(p).by) BY <1>0, <1>2, EndStep DEF Build
<1> QED BY <1>1, <1>2

\* The batch is compared once more.
LEMMA AgainStep ==
  ASSUME Inv, NEW p \in Processes, Again(p)
  PROVE  Inv'
<1>0. /\ UNCHANGED <<dataset, delegation, files, inventory, agreed, launches, training>>
      /\ proc[p].at = "again"
      /\ IF Same(p) THEN proc' = [proc EXCEPT ![p] = Then(p, "publish")] /\ UNCHANGED lock
                    ELSE Refuse(p)
  BY DEF Again, Decide, Hashing, At
<1>1. CASE Same(p)
  <2>1. /\ proc[p].agreed = Batch(p) /\ Batch(p).bytes.open = Nobody
        /\ \A f \in FilesOf(proc[p].asked) : files[f] = Batch(p)
    BY <1>0 DEF Inv, DraftInv, Drafted, Rechecked
  <2>2. lock' \in Processes \cup {Nobody} BY <1>0, <1>1 DEF Inv, TypeOK
  <2> QED BY <1>0, <1>1, <2>1, <2>2, GoOnDraft DEF Drafted
<1>2. CASE ~Same(p) BY <1>0, <1>2, RefuseStep
<1> QED BY <1>1, <1>2

\* What is published is the batch that was agreed to, with its files.
LEMMA PublishStep ==
  ASSUME Inv, NEW p \in Processes, Publish(p)
  PROVE  Inv'
<1> USE DEF Inv
<1>0. UNCHANGED <<dataset, delegation, files, launches, training>> /\ proc[p].at = "publish"
  BY DEF Publish, At
<1>1. /\ Batch(p) \in Batches /\ Batch(p) # None /\ Batch(p).bytes.open = Nobody
      /\ proc[p].agreed = Batch(p) /\ Batch(p).episodes = proc[p].asked
      /\ \A r \in proc[p].asked : Batch(p).bytes.content[r] = "complete"
      /\ \A f \in FilesOf(proc[p].asked) : files[f] = Batch(p)
      /\ Reached(Batch(p).bytes)
  BY <1>0 DEF DraftInv, Drafted, Rechecked, TypeOK, ProcStates, Batch
<1>2. CASE inventory # None BY <1>0, <1>2, EndStep DEF Publish
<1>3. CASE inventory = None
  <2>1. inventory' = Batch(p) /\ agreed' = Batch(p) BY <1>1, <1>3 DEF Publish
  <2>2. PICK s \in {Authorized(p), Idle} :
          /\ proc' = [proc EXCEPT ![p] = s] /\ lock' \in Processes \cup {Nobody}
          /\ s = Authorized(p) => proc[p].command = "run" \/ s = Idle
    BY <1>3 DEF Publish, End, TypeOK
  <2>3. /\ s \in ProcStates /\ s.written = {} /\ s.resumed = FALSE /\ s.at \in {"idle", "outputs"}
        /\ s.command \in {"run", "launch"} => s.recipe \in Recipes
        /\ s.at = "outputs" => s.command = "run"
    <3>1. CASE s = Idle BY <3>1, IdleFacts
    <3>2. CASE s = Authorized(p) /\ proc[p].command = "run"
      <4>1. proc[p].recipe \in Recipes BY <3>2 DEF LaunchInv
      <4>2. "outputs" \in Steps BY StepNames
      <4> QED BY <3>2, <4>1, <4>2 DEF Authorized, Idle, ProcStates, Commands, Names
    <3> QED BY <2>2, <3>1, <3>2
  <2>4. proc'[p] = s BY <2>2 DEF TypeOK
  <2>5. Own(p)'
    <3>1. DraftInv(p)' BY <2>3, <2>4 DEF DraftInv, Drafted, Rechecked
    <3>2. LaunchInv(p)' BY <2>3, <2>4 DEF LaunchInv, Admitted
    <3>3. WrittenInv(p)' BY <2>3, <2>4 DEF WrittenInv, Reserved
    <3> QED BY <3>1, <3>2, <3>3 DEF Own
  <2>6. Advance BY <1>0, <1>3 DEF Advance, dataset, training
  <2>7. (\A q \in Processes : Own(q))' /\ Apart' /\ proc' \in [Processes -> ProcStates]
    BY <1>0, <2>2, <2>3, <2>5, <2>6, OthersKeep DEF launches
  <2>8. TypeOK' BY <1>0, <1>1, <2>1, <2>2, <2>7 DEF TypeOK, dataset, launches, training
  <2>9. DatasetInv' /\ OutputInv'
    BY <1>0, <1>1, <1>3, <2>1
       DEF DatasetInv, OutputInv, Reached, Found, dataset, launches, training
  <2>10. InventoryIsReviewed' BY <1>0, <1>1, <2>1 DEF InventoryIsReviewed
  <2> QED BY <2>7, <2>8, <2>9, <2>10 DEF Own
<1> QED BY <1>2, <1>3

-----------------------------------------------------------------------------
(* run-delegated *)

\* What is there is recovered, or nothing is there and a batch is made.
LEMMA BeginStep ==
  ASSUME Inv, NEW p \in Processes, Begin(p)
  PROVE  Inv'
<1>0. /\ UNCHANGED <<dataset, delegation, files, inventory, agreed, launches, training>>
      /\ proc[p].at = "begin"
  BY DEF Begin, At
<1>1. /\ proc[p].asked \in Requests /\ proc[p].written = {} /\ ~proc[p].resumed
      /\ proc[p].command \in {"run", "launch"} /\ LaunchInv(p)
  BY <1>0 DEF Inv, DraftInv, LaunchInv, WrittenInv, Reserved, Leaving
<1>2. CASE Goto(p, "recover") /\ UNCHANGED lock BY <1>0, <1>1, <1>2, GoOnLoose
<1>3. CASE Goto(p, "prepare") /\ UNCHANGED lock
  <2>1. "prepare" \in Steps BY StepNames
  <2>2. proc' = [proc EXCEPT ![p] = Then(p, "prepare")] BY <1>3, <2>1, GotoFacts DEF Inv
  <2>3. DraftInv(p)' BY <1>1, <2>1, <2>2, Went DEF DraftInv, Drafted, Rechecked
  <2>4. LaunchInv(p)' BY <1>1, <2>1, <2>2, Went DEF LaunchInv, Admitted
  <2>5. WrittenInv(p)' BY <1>1, <2>1, <2>2, Went DEF WrittenInv, Reserved
  <2>6. lock' \in Processes \cup {Nobody} BY <1>3 DEF Inv, TypeOK
  <2> QED BY <1>0, <2>1, <2>2, <2>3, <2>4, <2>5, <2>6, GoOn DEF Own
<1>4. CASE End(p) BY <1>0, <1>4, EndStep
<1> QED BY <1>2, <1>3, <1>4 DEF Begin

\* A recovered inventory is what an earlier attempt published.
LEMMA RecoverStep ==
  ASSUME Inv, NEW p \in Processes, Recover(p)
  PROVE  Inv'
<1> DEFINE holds == Current /\ inventory.episodes = proc[p].asked /\ inventory.by = "delegation"
           s == Authorized(p)
<1>0. /\ UNCHANGED <<dataset, delegation, files, inventory, agreed, launches, training>>
      /\ proc[p].at = "recover"
      /\ IF holds THEN proc' = [proc EXCEPT ![p] = s] /\ UNCHANGED lock ELSE Refuse(p)
  BY DEF Recover, Decide, Hashing, At
<1>1. CASE holds
  <2>1. proc[p].command \in {"run", "launch"} /\ proc[p].recipe \in Recipes
    BY <1>0 DEF Inv, LaunchInv, Reserved
  <2>2. /\ s \in ProcStates /\ s.written = {} /\ s.resumed = FALSE /\ s.at = "outputs"
        /\ s.command = "run" /\ s.recipe \in Recipes
    <3>1. "outputs" \in Steps BY StepNames
    <3> QED BY <2>1, <3>1 DEF Authorized, Idle, ProcStates, Commands, Names
  <2>3. proc' = [proc EXCEPT ![p] = s] /\ lock' \in Processes \cup {Nobody}
    BY <1>0, <1>1 DEF Inv, TypeOK
  <2>4. proc'[p] = s BY <2>3 DEF Inv, TypeOK
  <2> HIDE DEF s
  <2>5. DraftInv(p)' BY <2>2, <2>4 DEF DraftInv, Drafted, Rechecked
  <2>6. LaunchInv(p)' BY <2>2, <2>4 DEF LaunchInv, Admitted
  <2>7. WrittenInv(p)' BY <2>2, <2>4 DEF WrittenInv, Reserved
  <2> QED BY <1>0, <2>2, <2>3, <2>5, <2>6, <2>7, Quiet DEF Own
<1>2. CASE ~holds BY <1>0, <1>2, RefuseStep
<1> QED BY <1>1, <1>2

\* What an earlier launch left decides how the run goes on.
LEMMA OutputsStep ==
  ASSUME Inv, NEW p \in Processes, Outputs(p)
  PROVE  Inv'
<1>0. /\ UNCHANGED <<dataset, delegation, files, inventory, agreed, launches, training>>
      /\ proc[p].at = "outputs"
  BY DEF Outputs, At
<1>1. /\ proc[p].written = {} /\ ~proc[p].resumed /\ proc[p].command \in {"run", "launch"}
  BY <1>0 DEF Inv, LaunchInv, WrittenInv, Reserved, Leaving
<1>2. CASE Goto(p, "compare") /\ UNCHANGED lock BY <1>0, <1>1, <1>2, GoOnLoose
<1>3. CASE Goto(p, "admit1") /\ UNCHANGED lock BY <1>0, <1>1, <1>3, GoOnLoose
<1>4. CASE End(p) BY <1>0, <1>4, EndStep
<1> QED BY <1>2, <1>3, <1>4 DEF Outputs

\* A finished launch is compared before its checkpoint is inspected.
LEMMA CompareStep ==
  ASSUME Inv, NEW p \in Processes, Compare(p)
  PROVE  Inv'
<1> DEFINE holds == Current /\ (\A k \in Names : settled[k] = Launched(p)) /\ output = "checkpoint"
<1>0. /\ UNCHANGED <<dataset, delegation, files, inventory, agreed, launches, training>>
      /\ proc[p].at = "compare"
      /\ IF holds THEN proc' = [proc EXCEPT ![p] = Then(p, "inspect")] /\ UNCHANGED lock
                  ELSE Refuse(p)
  BY DEF Compare, Decide, Hashing, At
<1>1. CASE holds
  <2>1. /\ proc[p].written = {} /\ ~proc[p].resumed /\ proc[p].command \in {"run", "launch"}
        /\ LaunchInv(p)
    BY <1>0 DEF Inv, LaunchInv, WrittenInv, Reserved, Leaving
  <2>2. "inspect" \in Steps BY StepNames
  <2>3. proc' = [proc EXCEPT ![p] = Then(p, "inspect")] BY <1>0, <1>1
  <2>4. DraftInv(p)' BY <2>2, <2>3, Went DEF DraftInv, Drafted, Rechecked
  <2>5. LaunchInv(p)' BY <2>1, <2>2, <2>3, Went DEF LaunchInv, Admitted
  <2>6. WrittenInv(p)' BY <2>1, <2>2, <2>3, Went DEF WrittenInv, Reserved
  <2>7. lock' \in Processes \cup {Nobody} BY <1>0, <1>1 DEF Inv, TypeOK
  <2> QED BY <1>0, <2>2, <2>3, <2>4, <2>5, <2>6, <2>7, GoOn DEF Own
<1>2. CASE ~holds BY <1>0, <1>2, RefuseStep
<1> QED BY <1>1, <1>2

-----------------------------------------------------------------------------
(* Launching *)

\* A process that takes the inventory for its batch.
LEMMA AdmitFacts ==
  ASSUME Inv, NEW p \in Processes, inventory # None, NEW step \in {"vacant", "accepted"},
         proc' = [proc EXCEPT ![p] = [Then(p, step) EXCEPT !.batch = inventory]],
         UNCHANGED lock, proc[p].written = {}, ~proc[p].resumed,
         step = "vacant" => proc[p].command \in {"run", "launch"},
         step = "accepted" => output # "none",
         UNCHANGED <<dataset, delegation, files, inventory, agreed, launches, training>>
  PROVE  Inv'
<1> DEFINE t == Then(p, step)
           s == [t EXCEPT !.batch = inventory]
<1>1. step \in Steps /\ proc[p] \in ProcStates BY StepNames DEF Inv, TypeOK
<1>2. /\ t \in ProcStates /\ t.at = step /\ t.command = proc[p].command
      /\ t.recipe = proc[p].recipe /\ t.written = {} /\ ~t.resumed /\ t.looked = FALSE
  <2>1. /\ t \in ProcStates /\ t.at = step /\ t.command = proc[p].command
        /\ t.recipe = proc[p].recipe /\ t.written = proc[p].written /\ t.looked = FALSE
        /\ (t.resumed <=> proc[p].resumed)
    BY <1>1, ThenFacts
  <2> QED BY <2>1
<1> HIDE DEF t
<1>3. /\ s \in ProcStates /\ s.at = step /\ s.command = proc[p].command
      /\ s.recipe = proc[p].recipe /\ s.written = {} /\ ~s.resumed /\ s.batch = inventory
  <2>1. /\ s \in ProcStates /\ s.at = t.at /\ s.command = t.command /\ s.recipe = t.recipe
        /\ s.written = t.written /\ s.resumed = t.resumed /\ s.batch = inventory
    BY <1>2 DEF ProcStates, Inv, TypeOK
  <2> QED BY <1>2, <2>1
<1>4. proc' = [proc EXCEPT ![p] = s] BY DEF t
<1>5. proc'[p] = s BY <1>4 DEF Inv, TypeOK
<1> HIDE DEF s
<1>6. LaunchInv(p) /\ lock' \in Processes \cup {Nobody} BY DEF Inv, TypeOK
<1>7. DraftInv(p)' BY <1>3, <1>5 DEF DraftInv, Drafted, Rechecked
<1>8. LaunchInv(p)' BY <1>3, <1>5, <1>6 DEF LaunchInv, Batch, training
<1>9. WrittenInv(p)' BY <1>3, <1>5 DEF WrittenInv, Reserved
<1> QED BY <1>3, <1>4, <1>6, <1>7, <1>8, <1>9, Quiet DEF Own

\* A launch is admitted on an inventory that is current.
LEMMA Admit1Step ==
  ASSUME Inv, NEW p \in Processes, Admit1(p)
  PROVE  Inv'
<1>0. /\ UNCHANGED <<dataset, delegation, files, inventory, agreed, launches, training>>
      /\ proc[p].at = "admit1"
      /\ IF Current
         THEN proc' = [proc EXCEPT ![p] = [Then(p, "vacant") EXCEPT !.batch = inventory]]
              /\ UNCHANGED lock
         ELSE Refuse(p)
  BY DEF Admit1, Decide, Hashing, At
<1>1. CASE Current
  <2>1. /\ proc[p].written = {} /\ ~proc[p].resumed /\ proc[p].command \in {"run", "launch"}
    BY <1>0 DEF Inv, LaunchInv, WrittenInv, Reserved, Leaving
  <2>2. inventory # None BY <1>1 DEF Current
  <2> QED BY <1>0, <1>1, <2>1, <2>2, AdmitFacts
<1>2. CASE ~Current BY <1>0, <1>2, RefuseStep
<1> QED BY <1>1, <1>2

\* Nothing stands where the launch would write.
LEMMA CheckVacantStep ==
  ASSUME Inv, NEW p \in Processes, CheckVacant(p)
  PROVE  Inv'
<1>0. /\ UNCHANGED <<dataset, delegation, files, inventory, agreed, launches, training>>
      /\ proc[p].at = "vacant"
  BY DEF CheckVacant, At
<1>1. proc[p].written = {} /\ ~proc[p].resumed
  BY <1>0 DEF Inv, LaunchInv, WrittenInv, Reserved, Leaving
<1>2. CASE Goto(p, "admit2") /\ UNCHANGED lock
  <2>1. proc' = [proc EXCEPT ![p] = Then(p, "admit2")]
    BY <1>2, StepNames, GotoFacts DEF Inv
  <2> QED BY <1>0, <1>1, <1>2, <2>1, GoOnLaunch DEF Admitted, Reserved
<1>3. CASE End(p) BY <1>0, <1>3, EndStep
<1> QED BY <1>2, <1>3 DEF CheckVacant

\* The inventory is compared again before anything is written.
LEMMA Admit2Step ==
  ASSUME Inv, NEW p \in Processes, Admit2(p)
  PROVE  Inv'
<1>0. /\ UNCHANGED <<dataset, delegation, files, inventory, agreed, launches, training>>
      /\ proc[p].at = "admit2"
      /\ IF Current /\ inventory = Batch(p)
         THEN proc' = [proc EXCEPT ![p] = Then(p, "reserve")] /\ UNCHANGED lock
         ELSE Refuse(p)
  BY DEF Admit2, Decide, Hashing, At
<1>1. CASE Current /\ inventory = Batch(p)
  <2>1. "reserve" \in Steps BY StepNames
  <2>2. proc' = [proc EXCEPT ![p] = Then(p, "reserve")] BY <1>0, <1>1
  <2>3. /\ proc[p].written = {} /\ ~proc[p].resumed /\ proc[p].command \in {"run", "launch"}
        /\ LaunchInv(p)
    BY <1>0 DEF Inv, LaunchInv, WrittenInv, Admitted, Reserved, Leaving
  <2>4. inventory # None /\ Batch(p) = inventory BY <1>1 DEF Current
  <2>5. DraftInv(p)' BY <2>1, <2>2, Went DEF DraftInv, Drafted, Rechecked
  <2>6. LaunchInv(p)' BY <1>0, <2>1, <2>2, <2>3, <2>4, Went DEF LaunchInv, Batch
  <2>7. WrittenInv(p)' BY <2>1, <2>2, <2>3, Went DEF WrittenInv, Reserved
  <2>8. lock' \in Processes \cup {Nobody} BY <1>0, <1>1 DEF Inv, TypeOK
  <2> QED BY <1>0, <2>1, <2>2, <2>5, <2>6, <2>7, <2>8, GoOn DEF Own
<1>2. CASE ~(Current /\ inventory = Batch(p)) BY <1>0, <1>2, RefuseStep
<1> QED BY <1>1, <1>2

\* A document is linked where there was none, and is the launch's own.
LEMMA ReserveStep ==
  ASSUME Inv, NEW p \in Processes, Reserve(p)
  PROVE  Inv'
<1> USE DEF Inv
<1>0. /\ UNCHANGED <<dataset, delegation, approvals, settled, training>>
      /\ proc[p].at = "reserve" /\ proc[p] \in ProcStates
  BY DEF Reserve, At, TypeOK
<1>1. /\ ~proc[p].resumed /\ "receipt" \notin proc[p].written
      /\ inventory # None /\ Batch(p) = inventory
      /\ proc[p].command \in {"run", "launch"} /\ proc[p].recipe \in Recipes
  BY <1>0 DEF LaunchInv, WrittenInv, Admitted, Reserved
<1>2. CASE pending[Unwritten(p)] # None
  <2>1. Goto(p, "unwind") /\ UNCHANGED pending BY <1>2 DEF Reserve
  <2>2. proc' = [proc EXCEPT ![p] = Then(p, "unwind")] BY <2>1, StepNames, GotoFacts
  <2> QED BY <1>0, <1>1, <2>1, <2>2, GoOnLaunch
          DEF Admitted, Leaving, Reserved, approvals, launches
<1>3. CASE pending[Unwritten(p)] = None
  <2> DEFINE k == Unwritten(p)
             s == [proc[p] EXCEPT !.written = @ \cup {k}, !.at = IF k = "receipt" THEN "native" ELSE @]
  <2>1. k \in Names /\ (k = "receipt" <=> "split" \in proc[p].written)
    BY DEF Unwritten, Names
  <2>2. pending' = [pending EXCEPT ![k] = Mine(p)] /\ proc' = [proc EXCEPT ![p] = s]
    BY <1>3 DEF Reserve
  <2>3. Mine(p) \in Documents /\ Mine(p) # None /\ Mine(p).batch = inventory
    BY <1>0, <1>1, MineFacts DEF Admitted
  <2> HIDE DEF k
  <2>4. /\ s \in ProcStates /\ s.at = (IF k = "receipt" THEN "native" ELSE "reserve")
        /\ s.written = proc[p].written \cup {k} /\ s.resumed = proc[p].resumed
        /\ s.command = proc[p].command /\ s.recipe = proc[p].recipe /\ s.batch = proc[p].batch
    <3>1. "native" \in Steps BY StepNames
    <3> QED BY <1>0, <2>1, <3>1 DEF ProcStates
  <2>5. proc'[p] = s BY <2>2 DEF TypeOK
  <2> HIDE DEF s
  <2>6. pending' \in [Names -> Documents \cup {None}] /\ pending'[k] = Mine(p)
        /\ \A n \in Names \ {k} : pending'[n] = pending[n]
    BY <2>1, <2>2, <2>3 DEF TypeOK
  <2>7. DraftInv(p)' BY <1>1, <2>4, <2>5 DEF DraftInv, Drafted, Rechecked
  <2>8. LaunchInv(p)'
    <3>1. inventory' = inventory BY <1>0 DEF approvals
    <3>2. s.at \in {"native", "reserve"} /\ s.at \in Admitted BY <2>4 DEF Admitted
    <3> QED BY <1>1, <2>4, <2>5, <3>1, <3>2 DEF LaunchInv, Batch
  <2>9. WrittenInv(p)'
    <3>1. Mine(p)' = Mine(p) BY <2>4, <2>5 DEF Mine, Batch
    <3>2. s.at \in Reserved => s.written = Names
      BY <2>1, <2>4, <1>1, <1>0 DEF Reserved, Names, ProcStates
    <3>3. s.at \in {"reserve", "native"} /\ "native" \in Reserved BY <2>4 DEF Reserved
    <3>4. s.at = "reserve" => "receipt" \notin s.written BY <1>1, <2>4
    <3>5. \A n \in s.written : pending'[n] = Mine(p)
      <4>1. \A n \in proc[p].written : n \in Names /\ pending[n] = Mine(p)
        BY <1>0 DEF WrittenInv, ProcStates
      <4> QED BY <2>4, <2>6, <4>1
    <3> QED BY <1>1, <2>4, <2>5, <3>1, <3>2, <3>3, <3>4, <3>5 DEF WrittenInv
  <2>10. \A q \in Others(p) : k \notin proc[q].written
    <3> SUFFICES ASSUME NEW q \in Others(p), k \in proc[q].written PROVE FALSE OBVIOUS
    <3>1. q \in Processes BY DEF Others
    <3>2. pending[k] = Mine(q) BY <3>1 DEF WrittenInv
    <3>3. proc[q].at \in Admitted \ {"accepted"} /\ ~proc[q].resumed
      BY <3>1 DEF WrittenInv, Admitted, Reserved, Leaving
    <3>4. Mine(q) # None BY <1>1, <3>1, <3>3, MineFacts
    <3> QED BY <1>3, <3>2, <3>4 DEF k
  <2>11. \A q \in Others(p) : \A n \in proc[q].written : pending'[n] = pending[n]
    <3> SUFFICES ASSUME NEW q \in Others(p), NEW n \in proc[q].written
                 PROVE  pending'[n] = pending[n]
      OBVIOUS
    <3>1. n \in Names /\ n # k BY <2>10 DEF Others, TypeOK, ProcStates
    <3> QED BY <2>6, <3>1
  <2>12. \A q \in Others(p) : s.written \cap proc[q].written = {}
    BY <2>4, <2>10 DEF Apart, Others
  <2>13. Advance BY <1>0 DEF Advance, dataset, approvals, training
  <2>14. (\A q \in Processes : Own(q))' /\ Apart' /\ proc' \in [Processes -> ProcStates]
    BY <2>2, <2>4, <2>7, <2>8, <2>9, <2>11, <2>12, <2>13, OthersKeep DEF Own
  <2>15. TypeOK' BY <1>0, <2>6, <2>14 DEF TypeOK, dataset, approvals, training
  <2>16. OutputInv'
    <3>1. \A n \in Names : output # "none" => Found(n)' = Found(n)
      <4>1. output # "none" => settled[k] # None
        BY <1>3, <2>1 DEF k, OutputInv, Found
      <4> QED BY <1>0, <2>6, <4>1 DEF Found
    <3> QED BY <1>0, <3>1 DEF OutputInv, training
  <2>17. DatasetInv' /\ InventoryIsReviewed'
    BY <1>0 DEF DatasetInv, InventoryIsReviewed, Reached, dataset, approvals, training
  <2> QED BY <2>14, <2>15, <2>16, <2>17 DEF Own
<1> QED BY <1>2, <1>3

\* The last check before the trainer.
LEMMA NativeStep ==
  ASSUME Inv, NEW p \in Processes, Native(p)
  PROVE  Inv'
<1> DEFINE holds == Current /\ inventory.episodes = Batch(p).episodes
<1>0. /\ UNCHANGED <<dataset, delegation, files, inventory, agreed, launches, training>>
      /\ proc[p].at = "native"
      /\ IF holds THEN proc' = [proc EXCEPT ![p] = Then(p, "start")] /\ UNCHANGED lock
                  ELSE Refuse(p)
  BY DEF Native, Decide, Hashing, At
<1>1. CASE holds
  <2>1. ~proc[p].resumed => proc[p].written = Names BY <1>0 DEF Inv, WrittenInv, Reserved
  <2> QED BY <1>0, <1>1, <2>1, GoOnLaunch DEF Admitted, Reserved
<1>2. CASE ~holds BY <1>0, <1>2, RefuseStep
<1> QED BY <1>1, <1>2

\* The trainer starts, or refuses an output that is there.
LEMMA StartStep ==
  ASSUME Inv, NEW p \in Processes, Start(p)
  PROVE  Inv'
<1>0. /\ UNCHANGED <<dataset, delegation, files, inventory, agreed, launches, training, lock>>
      /\ proc[p].at = "start"
  BY DEF Start, At, approvals
<1>1. /\ ~proc[p].resumed => proc[p].written = Names
  BY <1>0 DEF Inv, WrittenInv, Reserved
<1>2. PICK step \in {"training", "unwind"} : Goto(p, step) /\ (proc[p].resumed => step = "training")
  BY DEF Start
<1>3. proc' = [proc EXCEPT ![p] = Then(p, step)] BY <1>2, StepNames, GotoFacts DEF Inv
<1> QED BY <1>0, <1>1, <1>2, <1>3, GoOnLaunch DEF Admitted, Reserved, Leaving

\* What the trainer reads strays only when the dataset has gone on, for good.
LEMMA ReadStep ==
  ASSUME Inv, NEW p \in Processes, Read(p)
  PROVE  Inv'
<1> USE DEF Inv
<1>0. /\ UNCHANGED <<dataset, delegation, approvals, launches, output, made, proc>>
      /\ proc[p].at = "training" /\ strayed' = (strayed \/ content # Batch(p).bytes.content)
  BY DEF Read, At
<1>1. inventory # None /\ Batch(p) = inventory BY <1>0 DEF LaunchInv, Admitted
<1>2. Advance BY <1>0 DEF Advance, dataset, approvals
<1>3. (\A q \in Processes : Own(q))' BY <1>0, <1>2, Bystander DEF Own, launches
<1>4. TypeOK' BY <1>0 DEF TypeOK, dataset, approvals, launches
<1>5. DatasetInv' BY <1>0, <1>1 DEF DatasetInv, Reached, dataset, approvals, TypeOK
<1>6. OutputInv' /\ InventoryIsReviewed' /\ Apart'
  BY <1>0 DEF OutputInv, InventoryIsReviewed, Apart, Found, dataset, approvals, launches
<1> QED BY <1>3, <1>4, <1>5, <1>6 DEF Own

\* The trainer that makes the output has written both documents.
LEMMA SaveStep ==
  ASSUME Inv, NEW p \in Processes, Save(p)
  PROVE  Inv'
<1> USE DEF Inv
<1>0. /\ UNCHANGED <<dataset, delegation, approvals, launches, strayed, proc>>
      /\ proc[p].at = "training" /\ output' = IF output = "none" THEN "dir" ELSE "checkpoint"
      /\ made' = IF output = "none" THEN Mine(p) ELSE made
  BY DEF Save, At
<1>1. output = "none" => ~proc[p].resumed /\ \A k \in Names : pending[k] = Mine(p)
  BY <1>0 DEF LaunchInv, WrittenInv, Reserved
<1>2. output = "none" => Mine(p) \in Documents /\ Mine(p) # None
  <2>1. inventory # None BY <1>0 DEF LaunchInv, Admitted
  <2> QED BY <1>0, <1>1, <2>1, MineFacts DEF Admitted
<1>3. Advance BY <1>0 DEF Advance, dataset, approvals
<1>4. (\A q \in Processes : Own(q))' BY <1>0, <1>3, Bystander DEF Own, launches
<1>5. TypeOK' BY <1>0, <1>2 DEF TypeOK, dataset, approvals, launches
<1>6. OutputInv'
  <2>1. \A k \in Names : Found(k)' = Found(k) BY <1>0 DEF Found, launches
  <2>2. output = "none" => \A k \in Names : Found(k) = Mine(p)
    BY <1>1 DEF Found, OutputInv
  <2> QED BY <1>0, <1>2, <2>1, <2>2 DEF OutputInv
<1>7. DatasetInv' /\ InventoryIsReviewed' /\ Apart'
  BY <1>0 DEF DatasetInv, InventoryIsReviewed, Apart, Reached, dataset, approvals
<1> QED BY <1>4, <1>5, <1>6, <1>7 DEF Own

\* The trainer returns or fails.
LEMMA FinishStep ==
  ASSUME Inv, NEW p \in Processes, Finish(p)
  PROVE  Inv'
<1>0. /\ UNCHANGED <<dataset, delegation, files, inventory, agreed, launches, training>>
      /\ proc[p].at = "training"
  BY DEF Finish, At
<1>1. CASE End(p) BY <1>0, <1>1, EndStep
<1>2. CASE ~proc[p].resumed /\ UNCHANGED lock /\ \E step \in {"settle", "unwind"} : Goto(p, step)
  <2>1. PICK step \in {"settle", "unwind"} : Goto(p, step) BY <1>2
  <2>2. proc' = [proc EXCEPT ![p] = Then(p, step)] BY <2>1, StepNames, GotoFacts DEF Inv
  <2> QED BY <1>0, <1>2, <2>2, GoOnLaunch DEF Admitted, Reserved, Leaving
<1> QED BY <1>1, <1>2 DEF Finish

\* A document that moves into the output is found there as it was beside it.
LEMMA SettleStep ==
  ASSUME Inv, NEW p \in Processes, Settle(p)
  PROVE  Inv'
<1> USE DEF Inv
<1>0. /\ UNCHANGED <<dataset, delegation, files, inventory, agreed, training>>
      /\ proc[p].at \in Leaving /\ proc[p] \in ProcStates
  BY DEF Settle, Leaving, TypeOK
<1>1. ~proc[p].resumed /\ proc[p].command \in {"run", "launch"}
  BY <1>0 DEF LaunchInv, Leaving, Admitted, Reserved
<1>2. CASE proc[p].written = {} \/ output = "none"
  <2>1. UNCHANGED launches BY <1>2 DEF Settle
  <2>2. CASE End(p) BY <1>0, <2>1, <2>2, EndStep
  <2>3. CASE output = "checkpoint" /\ Goto(p, "inspect") /\ UNCHANGED lock
    <3>1. proc[p].written = {} BY <1>2, <2>3
    <3> QED BY <1>0, <1>1, <2>1, <2>3, <3>1, GoOnLoose
  <2> QED BY <1>2, <2>2, <2>3 DEF Settle
<1>3. CASE ~(proc[p].written = {} \/ output = "none")
  <2> DEFINE k == IF "split" \in proc[p].written THEN "split" ELSE "receipt"
             s == [proc[p] EXCEPT !.written = @ \ {k}]
  <2>1. k \in proc[p].written /\ k \in Names BY <1>0, <1>3 DEF Names, ProcStates
  <2>2. CASE settled[k] # None
    <3>1. End(p) /\ UNCHANGED launches BY <1>3, <2>2 DEF Settle
    <3> QED BY <1>0, <3>1, EndStep
  <2>3. CASE settled[k] = None
    <3>1. /\ settled' = [settled EXCEPT ![k] = pending[k]]
          /\ pending' = [pending EXCEPT ![k] = None]
          /\ proc' = [proc EXCEPT ![p] = s] /\ UNCHANGED lock
      BY <1>3, <2>3 DEF Settle, TypeOK
    <3> HIDE DEF k
    <3>2. /\ s \in ProcStates /\ s.at = proc[p].at /\ s.written = proc[p].written \ {k}
          /\ s.resumed = proc[p].resumed /\ s.command = proc[p].command
          /\ s.recipe = proc[p].recipe /\ s.batch = proc[p].batch
      BY <1>0 DEF ProcStates
    <3>3. proc'[p] = s BY <3>1 DEF TypeOK
    <3> HIDE DEF s
    <3>4. /\ pending' \in [Names -> Documents \cup {None}]
          /\ settled' \in [Names -> Documents \cup {None}]
          /\ settled'[k] = pending[k] /\ pending'[k] = None
          /\ \A n \in Names \ {k} : pending'[n] = pending[n] /\ settled'[n] = settled[n]
      BY <2>1, <3>1 DEF TypeOK
    <3>5. DraftInv(p)' BY <1>0, <3>2, <3>3 DEF DraftInv, Drafted, Rechecked, Leaving
    <3>6. LaunchInv(p)'
      BY <1>0, <1>1, <3>2, <3>3 DEF LaunchInv, Batch, Leaving, Admitted, training
    <3>7. WrittenInv(p)'
      <4>1. Mine(p)' = Mine(p) BY <3>2, <3>3 DEF Mine, Batch
      <4>2. \A n \in s.written : n \in Names \ {k} /\ pending[n] = Mine(p)
        BY <1>0, <3>2 DEF WrittenInv, ProcStates
      <4> QED BY <1>0, <1>1, <3>2, <3>3, <3>4, <4>1, <4>2 DEF WrittenInv, Leaving, Reserved
    <3>8. \A q \in Others(p) : \A n \in proc[q].written : pending'[n] = pending[n]
      <4> SUFFICES ASSUME NEW q \in Others(p), NEW n \in proc[q].written
                   PROVE  pending'[n] = pending[n]
        OBVIOUS
      <4>1. n \in Names /\ n # k BY <2>1 DEF Others, TypeOK, ProcStates, Apart
      <4> QED BY <3>4, <4>1
    <3>9. \A q \in Others(p) : s.written \cap proc[q].written = {}
      BY <3>2 DEF Apart, Others
    <3>10. Advance BY <1>0 DEF Advance, dataset, training
    <3>11. (\A q \in Processes : Own(q))' /\ Apart' /\ proc' \in [Processes -> ProcStates]
      BY <3>1, <3>2, <3>5, <3>6, <3>7, <3>8, <3>9, <3>10, OthersKeep DEF Own
    <3>12. TypeOK' BY <1>0, <3>1, <3>4, <3>11 DEF TypeOK, dataset, training
    <3>13. OutputInv'
      <4>1. pending[k] = Mine(p) BY <2>1 DEF WrittenInv
      <4>2. inventory # None BY <1>0 DEF LaunchInv, Leaving, Admitted
      <4>3. Mine(p) # None
        BY <1>0, <1>1, <4>2, MineFacts DEF Leaving, Admitted
      <4>4. \A n \in Names : Found(n)' = Found(n)
        BY <2>3, <3>4, <4>1, <4>3 DEF Found
      <4> QED BY <1>0, <1>3, <4>4 DEF OutputInv, training
    <3>14. DatasetInv' /\ InventoryIsReviewed'
      BY <1>0 DEF DatasetInv, InventoryIsReviewed, Reached, dataset, training
    <3> QED BY <3>11, <3>12, <3>13, <3>14 DEF Own
  <2> QED BY <2>2, <2>3
<1> QED BY <1>2, <1>3

-----------------------------------------------------------------------------
(* Using what the trainer saved *)

\* An accepted checkpoint goes by the inventory.
LEMMA InspectStep ==
  ASSUME Inv, NEW p \in Processes, Inspect(p)
  PROVE  Inv'
<1> DEFINE holds == output = "checkpoint" /\ Current /\ Matches
<1>0. /\ UNCHANGED <<dataset, delegation, files, inventory, agreed, launches, training>>
      /\ proc[p].at = "inspect"
      /\ IF holds
         THEN proc' = [proc EXCEPT ![p] = [Then(p, "accepted") EXCEPT !.batch = inventory]]
              /\ UNCHANGED lock
         ELSE Refuse(p)
  BY DEF Inspect, Decide, Hashing, At
<1>1. CASE holds
  <2>1. proc[p].written = {} /\ ~proc[p].resumed
    BY <1>0 DEF Inv, LaunchInv, WrittenInv, Reserved, Leaving
  <2>2. inventory # None /\ output # "none" BY <1>1 DEF Current
  <2> QED BY <1>0, <1>1, <2>1, <2>2, AdmitFacts
<1>2. CASE ~holds BY <1>0, <1>2, RefuseStep
<1> QED BY <1>1, <1>2

\* A training that is resumed has written nothing and finds its output there.
LEMMA UseStep ==
  ASSUME Inv, NEW p \in Processes, Use(p)
  PROVE  Inv'
<1>0. /\ UNCHANGED <<dataset, delegation, files, inventory, agreed, launches, training>>
      /\ proc[p].at = "accepted" /\ proc[p] \in ProcStates
  BY DEF Use, At, Inv, TypeOK
<1>1. CASE End(p) BY <1>0, <1>1, EndStep
<1>2. CASE /\ proc[p].command = "inspect" /\ UNCHANGED lock
           /\ proc' = [proc EXCEPT ![p] = [@ EXCEPT !.at = "native", !.resumed = TRUE]]
  <2> DEFINE s == [proc[p] EXCEPT !.at = "native", !.resumed = TRUE]
  <2>1. /\ s \in ProcStates /\ s.at = "native" /\ s.written = proc[p].written /\ s.resumed = TRUE
        /\ s.command = proc[p].command /\ s.recipe = proc[p].recipe /\ s.batch = proc[p].batch
    <3>1. "native" \in Steps BY StepNames
    <3> QED BY <1>0, <3>1 DEF ProcStates
  <2>2. proc' = [proc EXCEPT ![p] = s] /\ lock' \in Processes \cup {Nobody}
    BY <1>2 DEF Inv, TypeOK
  <2>3. proc'[p] = s BY <2>2 DEF Inv, TypeOK
  <2> HIDE DEF s
  <2>4. proc[p].written = {} BY <1>0 DEF Inv, WrittenInv, Reserved, Leaving
  <2>5. inventory # None /\ Batch(p) = inventory BY <1>0 DEF Inv, LaunchInv, Admitted
  <2>6. output # "none" /\ output' # "none"
    BY <1>0 DEF Inv, LaunchInv, training
  <2>7. DraftInv(p)' BY <2>1, <2>3 DEF DraftInv, Drafted, Rechecked
  <2>8. LaunchInv(p)'
    BY <1>0, <1>2, <2>1, <2>3, <2>5, <2>6 DEF LaunchInv, Batch, Admitted, Reserved
  <2>9. WrittenInv(p)' BY <2>1, <2>3, <2>4 DEF WrittenInv, Reserved
  <2> QED BY <1>0, <2>1, <2>2, <2>4, <2>7, <2>8, <2>9, Quiet DEF Own
<1> QED BY <1>1, <1>2 DEF Use

-----------------------------------------------------------------------------
(* What goes on around the commands *)

\* A killed process leaves what it had linked, and relies on it no longer.
LEMMA CrashStep ==
  ASSUME Inv, NEW p \in Processes, Crash(p)
  PROVE  Inv'
BY EndStep DEF Crash

\* A recorder moves the dataset on: no episode goes back, no guard comes back.
LEMMA RecordStep ==
  ASSUME Inv, Record
  PROVE  Inv'
<1> USE DEF Inv
<1>0. /\ UNCHANGED <<delegation, approvals, launches, training, proc>>
      /\ open = Nobody => open' \notin begun
      /\ begun' = begun \cup ({open'} \ {Nobody})
  BY DEF Record
<1>1. PICK r \in Runs : Dataset!Begin(r) \/ Dataset!Write(r) \/ Dataset!Complete(r) \/ Dataset!Close(r)
  BY DEF Record, Dataset!Next
<1>2. r # Nobody BY TrainingAssumption
<1>3. /\ content' \in [Runs -> DataStates] /\ open' \in Runs \cup {Nobody}
      /\ open = Nobody \/ open' = open \/ open' = Nobody
  BY <1>1 DEF Dataset!Begin, Dataset!Write, Dataset!Complete, Dataset!Close, TypeOK, DataStates
<1>4. \A q \in Runs : /\ content[q] = "complete" => content'[q] = "complete"
                      /\ content[q] # "none" => content'[q] # "none"
                      /\ content'[q] = "none" => content[q] = "none"
                      /\ content'[q] # content[q] =>
                           (content'[q] = "complete" /\ content[q] = "partial")
                           \/ (content'[q] = "partial" /\ content[q] = "none")
  BY <1>1 DEF Dataset!Begin, Dataset!Write, Dataset!Complete, Dataset!Close, TypeOK
<1>5. begun' \in SUBSET Runs /\ begun \subseteq begun' /\ (open' # Nobody => open' \in begun')
  BY <1>0, <1>3 DEF TypeOK
<1>6. Nobody \notin begun BY TrainingAssumption DEF TypeOK
<1>7. Advance
  BY <1>0, <1>3, <1>4, <1>5, <1>6 DEF Advance, approvals, training
<1>8. (\A q \in Processes : Own(q))' BY <1>0, <1>7, Bystander DEF Own, launches
<1>9. TypeOK' BY <1>0, <1>3, <1>5 DEF TypeOK, approvals, launches, training
<1>10. DatasetInv'
  <2>1. inventory' = inventory /\ strayed' = strayed BY <1>0 DEF approvals, training
  <2>2. (inventory # None => Reached(inventory.bytes))'
    BY <1>4, <2>1 DEF DatasetInv, Reached
  <2>3. ASSUME inventory # None, content # inventory.bytes.content
        PROVE  content' # inventory.bytes.content
    <3>1. inventory.bytes.content \in [Runs -> DataStates] /\ Reached(inventory.bytes)
      BY <2>3, BatchFacts DEF TypeOK, DatasetInv
    <3>2. PICK q \in Runs : content[q] # inventory.bytes.content[q]
      BY <2>3, <3>1 DEF TypeOK
    <3>3. content[q] \in DataStates /\ inventory.bytes.content[q] \in DataStates
      BY <3>1 DEF TypeOK
    <3>4. content'[q] # inventory.bytes.content[q]
      BY <1>4, <3>1, <3>2, <3>3 DEF Reached, DataStates
    <3> QED BY <3>4
  <2> QED BY <1>5, <2>1, <2>2, <2>3 DEF DatasetInv
<1>11. OutputInv' /\ InventoryIsReviewed' /\ Apart'
  BY <1>0 DEF OutputInv, InventoryIsReviewed, Apart, Found, approvals, launches, training
<1> QED BY <1>8, <1>9, <1>10, <1>11 DEF Own

\* Nothing that stands relies on the delegation.
LEMMA WithdrawStep ==
  ASSUME Inv, Withdraw
  PROVE  Inv'
<1> USE DEF Inv
<1>0. delegation' = FALSE /\ UNCHANGED <<dataset, approvals, launches, training, proc>>
  BY DEF Withdraw
<1>1. Advance BY <1>0 DEF Advance, dataset, approvals, training
<1>2. (\A q \in Processes : Own(q))' BY <1>0, <1>1, Bystander DEF Own, launches
<1>3. TypeOK' BY <1>0 DEF TypeOK, dataset, approvals, launches, training
<1>4. DatasetInv' /\ OutputInv' /\ InventoryIsReviewed' /\ Apart'
  BY <1>0 DEF DatasetInv, OutputInv, InventoryIsReviewed, Apart, Reached, Found, dataset,
              approvals, launches, training
<1> QED BY <1>2, <1>3, <1>4 DEF Own

-----------------------------------------------------------------------------
(* The theorems *)

\* The dataset to begin with has no guard, and nothing is approved or launched.
LEMMA InitInv == Init => Inv
<1> SUFFICES ASSUME Init PROVE Inv OBVIOUS
<1>1. TypeOK
  BY TrainingAssumption, IdleFacts DEF Init, TypeOK, DataStates
<1>2. DatasetInv /\ OutputInv /\ InventoryIsReviewed
  BY DEF Init, DatasetInv, OutputInv, InventoryIsReviewed
<1>3. \A p \in Processes : proc[p] = Idle BY DEF Init
<1>4. \A p \in Processes : DraftInv(p) /\ LaunchInv(p) /\ WrittenInv(p)
  BY <1>3, IdleFacts
     DEF DraftInv, LaunchInv, WrittenInv, Drafted, Rechecked, Admitted, Reserved
<1>5. Apart BY <1>3, IdleFacts DEF Apart
<1> QED BY <1>1, <1>2, <1>4, <1>5 DEF Inv

\* Every step keeps the invariant.
LEMMA NextInv == Inv /\ [Next]_vars => Inv'
<1> SUFFICES ASSUME Inv, [Next]_vars PROVE Inv' OBVIOUS
<1>1. CASE Record BY <1>1, RecordStep
<1>2. CASE Withdraw BY <1>2, WithdrawStep
<1>3. ASSUME NEW p \in Processes, Look(p) \/ Crash(p) PROVE Inv'
  BY <1>3, LookStep, CrashStep
<1>4. ASSUME NEW p \in Processes, Approve(p) PROVE Inv'
  BY <1>4, StartingStep, PrepareStep, AskStep, LockStep, RecheckStep, WriteStep, BuildStep,
     AgainStep, PublishStep DEF Approve
<1>5. ASSUME NEW p \in Processes, RunDelegated(p) PROVE Inv'
  BY <1>5, StartingStep, BeginStep, RecoverStep, OutputsStep, CompareStep DEF RunDelegated
<1>6. ASSUME NEW p \in Processes, Launch(p) PROVE Inv'
  BY <1>6, StartingStep, Admit1Step, CheckVacantStep, Admit2Step, ReserveStep, NativeStep,
     StartStep, ReadStep, SaveStep, FinishStep, SettleStep DEF Launch
<1>7. ASSUME NEW p \in Processes, Consume(p) PROVE Inv'
  BY <1>7, StartingStep, InspectStep, UseStep DEF Consume
<1>8. CASE UNCHANGED vars
  <2> USE <1>8 DEF vars, Inv
  <2>1. Advance BY DEF Advance
  <2>2. (\A q \in Processes : Own(q))' BY <2>1, Bystander DEF Own
  <2>3. TypeOK' BY DEF TypeOK
  <2>4. DatasetInv' /\ OutputInv' /\ InventoryIsReviewed' /\ Apart'
    BY DEF DatasetInv, OutputInv, InventoryIsReviewed, Apart, Reached, Found
  <2> QED BY <2>2, <2>3, <2>4 DEF Own
<1> QED BY <1>1, <1>2, <1>3, <1>4, <1>5, <1>6, <1>7, <1>8 DEF Next

\* Inv holds in every state.
THEOREM Invariance == Spec => []Inv
<1> QED BY InitInv, NextInv, PTL DEF Spec

\* Every variable keeps its type.
THEOREM TypeCorrectness == Spec => []TypeOK
<1>1. Inv => TypeOK BY DEF Inv
<1> QED BY <1>1, Invariance, PTL

\* An inventory is the one that was agreed to, whole and without a guard.
THEOREM InventoryReviewed == Spec => []InventoryIsReviewed
<1>1. Inv => InventoryIsReviewed BY DEF Inv
<1> QED BY <1>1, Invariance, PTL

\* The documents of an output are its trainer's, and a fresh trainer is alone.
THEOREM ManifestsOwn == Spec => []ManifestsAreOwn
<1>1. Inv => ManifestsAreOwn
  <2> SUFFICES ASSUME Inv PROVE ManifestsAreOwn OBVIOUS
  <2>1. output # "none" => \A k \in Names : Found(k) = made BY DEF Inv, OutputInv
  <2>2. ASSUME NEW p \in Processes, proc[p].at = "training", ~proc[p].resumed
        PROVE  proc[p].written = Names /\ \A k \in Names : pending[k] = Mine(p)
    BY <2>2 DEF Inv, WrittenInv, Reserved
  <2>3. ASSUME NEW p \in Processes, proc[p].at = "training", ~proc[p].resumed,
               NEW q \in Processes \ {p}, proc[q].at = "training"
        PROVE  proc[q].resumed
    <3> SUFFICES ASSUME ~proc[q].resumed PROVE FALSE OBVIOUS
    <3>1. proc[p].written = Names /\ proc[q].written = Names BY <2>2, <2>3
    <3>2. proc[p].written \cap proc[q].written = {} BY DEF Inv, Apart
    <3> QED BY <3>1, <3>2 DEF Names
  <2> QED BY <2>1, <2>2, <2>3 DEF ManifestsAreOwn, At
<1> QED BY <1>1, Invariance, PTL

\* A step that leaves nobody newly at "accepted".
Refrains(q) ==
    \/ UNCHANGED proc
    \/ \E step \in Steps \ {"accepted"} :
          Goto(q, step) \/ proc' = [proc EXCEPT ![q] = Then(q, step)]
    \/ End(q) \/ Refuse(q)
    \/ \E s : s.at # "accepted" /\ proc' = [proc EXCEPT ![q] = s]

\* Such a step does what its name says.
LEMMA RefrainsFacts ==
  ASSUME TypeOK, NEW p \in Processes, NEW q \in Processes, ~At(p, "accepted"), Refrains(q)
  PROVE  ~At(p, "accepted")'
<1> USE DEF At
<1>1. CASE UNCHANGED proc BY <1>1
<1>2. ASSUME NEW step \in Steps \ {"accepted"},
             Goto(q, step) \/ proc' = [proc EXCEPT ![q] = Then(q, step)]
      PROVE  ~At(p, "accepted")'
  <2>1. proc' = [proc EXCEPT ![q] = Then(q, step)] BY <1>2, GotoFacts
  <2>2. Then(q, step).at = step BY ThenFacts DEF TypeOK
  <2> QED BY <1>2, <2>1, <2>2 DEF TypeOK
<1>3. ASSUME End(q) PROVE ~At(p, "accepted")' BY <1>3, IdleFacts DEF End, TypeOK
<1>4. CASE Refuse(q) BY <1>2, <1>3, <1>4, StepNames DEF Refuse
<1>5. ASSUME NEW s, s.at # "accepted", proc' = [proc EXCEPT ![q] = s]
      PROVE  ~At(p, "accepted")'
  BY <1>5 DEF TypeOK
<1> QED BY <1>1, <1>2, <1>3, <1>4, <1>5 DEF Refrains

\* Approving accepts nothing.
LEMMA ApproveRefrains ==
  ASSUME Inv, NEW q \in Processes, Approve(q)
  PROVE  Refrains(q)
<1> USE DEF Inv, TypeOK
<1>1. proc[q] \in ProcStates OBVIOUS
<1>2. CASE StartApprove(q)
  <2>1. PICK asked \in Requests : Starting(q, "approve", "prepare", asked, None)
    BY <1>2 DEF StartApprove
  <2>2. [Idle EXCEPT !.command = "approve", !.at = "prepare", !.asked = asked, !.recipe = None].at
          = "prepare"
    BY DEF Idle
  <2> QED BY <2>1, <2>2 DEF Starting, Refrains
<1>3. CASE Prepare(q)
  <2> DEFINE by == IF proc[q].command = "run" THEN "delegation" ELSE "human"
             step == IF by = "human" THEN "ask" ELSE "lock"
             s == [Then(q, step)
                     EXCEPT !.batch = Draft(q, by), !.agreed = IF by = "human" THEN None ELSE Draft(q, by)]
  <2>1. Refuse(q) \/ proc' = [proc EXCEPT ![q] = s] BY <1>3 DEF Prepare, Decide
  <2>2. s.at # "accepted"
    <3> HIDE DEF by
    <3>1. step \in Steps BY StepNames
    <3>2. Then(q, step) \in ProcStates /\ Then(q, step).at = step BY <1>1, <3>1, ThenFacts
    <3>3. step # "accepted" OBVIOUS
    <3> HIDE DEF step
    <3> QED BY <3>2, <3>3 DEF ProcStates
  <2> HIDE DEF s
  <2> QED BY <2>1, <2>2 DEF Refrains
<1>4. CASE Ask(q)
  <2>1. [proc[q] EXCEPT !.at = "lock", !.agreed = Batch(q)].at = "lock" BY <1>1 DEF ProcStates
  <2> QED BY <1>4, <2>1 DEF Ask, Refrains
<1>5. CASE Lock(q) BY <1>5, StepNames DEF Lock, Refrains
<1>6. CASE Recheck(q) BY <1>6, StepNames DEF Recheck, Decide, Refrains
<1>7. CASE Write(q) BY <1>7 DEF Write, Refrains
<1>8. CASE Build(q) BY <1>8, StepNames DEF Build, Refrains
<1>9. CASE Again(q) BY <1>9, StepNames DEF Again, Decide, Refrains
<1>10. CASE Publish(q)
  <2>1. Authorized(q).at = "outputs" BY DEF Authorized, Idle
  <2> QED BY <1>10, <2>1 DEF Publish, Refrains
<1> QED BY <1>2, <1>3, <1>4, <1>5, <1>6, <1>7, <1>8, <1>9, <1>10 DEF Approve

\* Neither does a delegated run before it comes to its launch or inspection.
LEMMA RunRefrains ==
  ASSUME Inv, NEW q \in Processes, RunDelegated(q)
  PROVE  Refrains(q)
<1>1. CASE StartRun(q)
  <2>1. PICK asked \in Requests, c \in Recipes : Starting(q, "run", "begin", asked, c)
    BY <1>1 DEF StartRun
  <2>2. [Idle EXCEPT !.command = "run", !.at = "begin", !.asked = asked, !.recipe = c].at = "begin"
    BY DEF Idle
  <2> QED BY <2>1, <2>2 DEF Starting, Refrains
<1>2. CASE Begin(q) BY <1>2, StepNames DEF Begin, Refrains
<1>3. CASE Recover(q)
  <2>1. Authorized(q).at = "outputs" BY DEF Authorized, Idle
  <2> QED BY <1>3, <2>1 DEF Recover, Decide, Refrains
<1>4. CASE Outputs(q) BY <1>4, StepNames DEF Outputs, Refrains
<1>5. CASE Compare(q) BY <1>5, StepNames DEF Compare, Decide, Refrains
<1> QED BY <1>1, <1>2, <1>3, <1>4, <1>5 DEF RunDelegated

\* Nor a launch.
LEMMA LaunchRefrains ==
  ASSUME Inv, NEW q \in Processes, Launch(q)
  PROVE  Refrains(q)
<1> USE DEF Inv, TypeOK
<1>1. proc[q] \in ProcStates OBVIOUS
<1>2. CASE StartLaunch(q)
  <2>1. PICK c \in Recipes : Starting(q, "launch", "admit1", {}, c) BY <1>2 DEF StartLaunch
  <2>2. [Idle EXCEPT !.command = "launch", !.at = "admit1", !.asked = {}, !.recipe = c].at = "admit1"
    BY DEF Idle
  <2> QED BY <2>1, <2>2 DEF Starting, Refrains
<1>3. CASE Admit1(q)
  <2> DEFINE s == [Then(q, "vacant") EXCEPT !.batch = inventory]
  <2>1. Refuse(q) \/ proc' = [proc EXCEPT ![q] = s] BY <1>3 DEF Admit1, Decide
  <2>2. s.at = "vacant"
    <3>1. "vacant" \in Steps BY StepNames
    <3>2. Then(q, "vacant") \in ProcStates /\ Then(q, "vacant").at = "vacant"
      BY <1>1, <3>1, ThenFacts
    <3> QED BY <3>2 DEF ProcStates
  <2> HIDE DEF s
  <2> QED BY <2>1, <2>2 DEF Refrains
<1>4. CASE CheckVacant(q) BY <1>4, StepNames DEF CheckVacant, Refrains
<1>5. CASE Admit2(q) BY <1>5, StepNames DEF Admit2, Decide, Refrains
<1>6. CASE Reserve(q)
  <2> DEFINE k == Unwritten(q)
             s == [proc[q] EXCEPT !.written = @ \cup {k}, !.at = IF k = "receipt" THEN "native" ELSE @]
  <2>1. Goto(q, "unwind") \/ proc' = [proc EXCEPT ![q] = s] BY <1>6 DEF Reserve
  <2>2. s.at # "accepted" BY <1>1, <1>6 DEF Reserve, At, ProcStates
  <2> HIDE DEF s
  <2> QED BY <2>1, <2>2, StepNames DEF Refrains
<1>7. CASE Native(q) BY <1>7, StepNames DEF Native, Decide, Refrains
<1>8. CASE Start(q) BY <1>8, StepNames DEF Start, Refrains
<1>9. CASE Read(q) \/ Save(q) BY <1>9 DEF Read, Save, Refrains
<1>10. CASE Finish(q) BY <1>10, StepNames DEF Finish, Refrains
<1>11. CASE Settle(q)
  <2> DEFINE k == IF "split" \in proc[q].written THEN "split" ELSE "receipt"
             s == [proc[q] EXCEPT !.written = @ \ {k}]
  <2>1. Goto(q, "inspect") \/ End(q) \/ proc' = [proc EXCEPT ![q] = s] BY <1>11 DEF Settle
  <2>2. s.at # "accepted" BY <1>1, <1>11 DEF Settle, ProcStates
  <2> HIDE DEF s
  <2> QED BY <2>1, <2>2, StepNames DEF Refrains
<1> QED BY <1>2, <1>3, <1>4, <1>5, <1>6, <1>7, <1>8, <1>9, <1>10, <1>11 DEF Launch

\* A process comes to "accepted" in no way but an inspection that accepts.
LEMMA Acceptance ==
  ASSUME Inv, Next, NEW p \in Processes, ~At(p, "accepted"), At(p, "accepted")'
  PROVE  output = "checkpoint" /\ Current /\ Matches
<1>0. TypeOK BY DEF Inv
<1>1. ASSUME NEW q \in Processes, Refrains(q) PROVE FALSE BY <1>0, <1>1, RefrainsFacts
<1>2. ~Record /\ ~Withdraw BY DEF Record, Withdraw, At
<1>3. ASSUME NEW q \in Processes, Look(q) PROVE FALSE
  <2>1. proc[q] \in ProcStates BY <1>0 DEF TypeOK
  <2>2. [proc[q] EXCEPT !.looked = TRUE].at # "accepted" BY <1>3, <2>1 DEF Look, Checks, ProcStates
  <2>3. Refuse(q) \/ proc' = [proc EXCEPT ![q] = [proc[q] EXCEPT !.looked = TRUE]]
    BY <1>0, <1>3 DEF Look, TypeOK
  <2> QED BY <1>1, <2>2, <2>3 DEF Refrains
<1>4. ASSUME NEW q \in Processes, Consume(q)
      PROVE  Inspect(q) /\ output = "checkpoint" /\ Current /\ Matches
  <2>1. ~StartInspect(q)
    <3>1. [Idle EXCEPT !.command = "inspect", !.at = "inspect", !.asked = {}, !.recipe = None].at
            = "inspect"
      BY DEF Idle
    <3> QED BY <1>1, <3>1 DEF StartInspect, Starting, Refrains
  <2>2. ~Use(q)
    <3> DEFINE s == [proc[q] EXCEPT !.at = "native", !.resumed = TRUE]
    <3>1. s.at = "native" BY <1>0 DEF TypeOK, ProcStates
    <3>2. Use(q) => End(q) \/ proc' = [proc EXCEPT ![q] = s] BY <1>0 DEF Use, TypeOK
    <3> HIDE DEF s
    <3> QED BY <1>1, <3>1, <3>2 DEF Refrains
  <2>3. ~Refuse(q) BY <1>1 DEF Refrains
  <2> QED BY <1>4, <2>1, <2>2, <2>3 DEF Consume, Inspect, Decide
<1>5. ASSUME NEW q \in Processes, Crash(q) PROVE FALSE BY <1>1, <1>5 DEF Crash, Refrains
<1> QED BY <1>1, <1>2, <1>3, <1>4, <1>5, ApproveRefrains, RunRefrains, LaunchRefrains DEF Next

\* What is accepted was trained on episodes that were approved, all the time.
THEOREM AcceptedApproved == Spec => AcceptedIsApproved
<1> DEFINE Accepts == \A p \in Processes : ~At(p, "accepted") /\ At(p, "accepted")' =>
                        ~strayed /\ made.batch = agreed
<1>1. Inv /\ [Next]_vars => [Accepts]_vars
  <2> SUFFICES ASSUME Inv, Next, NEW p \in Processes, ~At(p, "accepted"), At(p, "accepted")'
               PROVE  ~strayed /\ made.batch = agreed
    OBVIOUS
  <2>1. output = "checkpoint" /\ Current /\ Matches BY Acceptance
  <2>2. inventory # None /\ agreed = inventory
    BY <2>1 DEF Current, Inv, InventoryIsReviewed
  <2>3. ~strayed BY <2>1 DEF Current, Now, Inv, DatasetInv
  <2>4. made.batch = inventory
    BY <2>1 DEF Matches, Inv, OutputInv, Names
  <2> QED BY <2>2, <2>3, <2>4
<1> QED BY <1>1, Invariance, PTL DEF Spec, AcceptedIsApproved
==============================================================================
