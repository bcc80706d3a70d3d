---------------------- MODULE RecorderTransactionProofs ----------------------
(***************************************************************************)
(* Inv (RecorderTransactionInv) is inductive, and what follows from it:    *)
(* the safety and action properties of RecorderTransaction and its         *)
(* implementation of AtomicDataset, for every number of runs, recoverers,  *)
(* cameras and failing writes.                                             *)
(*                                                                         *)
(* The argument: a run in an operation or with an open episode holds the   *)
(* lock, so a step of it disturbs no other process (Exclusive); it remains *)
(* to look at the run itself.  A recoverer holds the same lock, so every   *)
(* run is then between operations (RecovererOnly).  Opening, closing and   *)
(* dying need no lock, and touch nothing durable (Bystander).              *)
(***************************************************************************)
EXTENDS RecorderTransactionInv, TLAPS

\* A step of run r: the others keep their own state, no recoverer moves.
OnlyRun(r) ==
    /\ \A q \in Runs \ {r} :
          /\ pc'[q] = pc[q] /\ op'[q] = op[q] /\ ep'[q] = ep[q] /\ data'[q] = data[q]
          /\ result'[q] = result[q] /\ manifest'[q] = manifest[q] /\ receipt'[q] = receipt[q]
    /\ UNCHANGED <<rpc, rguard>>

USE DEF Running, Goto, Enter, NoFault, Fault, Unlock, SetGuard, SetResult, SetData, Append1, Persist,
    Quarantine, Attempt, Accepts, ClaimFails, durable, recovery

-----------------------------------------------------------------------------
(* Names and types *)

\* The names of the steps are steps: cited instead of expanding the set.
LEMMA StepNames ==
    /\ "off" \in Steps /\ "open" \in Steps /\ "begin.approval" \in Steps
    /\ "begin.guard" \in Steps /\ "claim" \in Steps /\ "claim.event" \in Steps
    /\ "ready" \in Steps /\ "freeze" \in Steps /\ "freeze.guard" \in Steps
    /\ "freeze.event" \in Steps /\ "clear" \in Steps /\ "verify" \in Steps
    /\ "abort.result" \in Steps /\ "abort.event" \in Steps /\ "retain.receipt" \in Steps
    /\ "release" \in Steps /\ "commit.guard" \in Steps /\ "save" \in Steps
    /\ "saving" \in Steps /\ "publish" \in Steps /\ "commit.event" \in Steps
    /\ "commit.result" \in Steps /\ "retain.check" \in Steps /\ "retain.guard" \in Steps
    /\ "retain.publish" \in Steps /\ "retain.recheck" \in Steps /\ "retain.result" \in Steps
    /\ "retain.event" \in Steps /\ "quar.approval" \in Steps /\ "quar.guard" \in Steps
    /\ "quar.result" \in Steps /\ "quar.event" \in Steps /\ "closed" \in Steps
    /\ "dead" \in Steps
BY DEF Steps

\* The names of the operations.
LEMMA OpNames ==
    /\ "begin" \in Operations /\ "trim" \in Operations /\ "freeze" \in Operations
    /\ "abort" \in Operations /\ "commit" \in Operations /\ "precommit" \in Operations
    /\ "retain" \in Operations /\ "retaining" \in Operations
BY DEF Operations

\* The names of the episode states.
LEMMA EpNames ==
    /\ "IDLE" \in EpisodeStates /\ "RECORDING" \in EpisodeStates /\ "FROZEN" \in EpisodeStates
    /\ "COMMITTING" \in EpisodeStates /\ "COMMITTED" \in EpisodeStates /\ "ABORTED" \in EpisodeStates
    /\ "QUARANTINED_COMMIT" \in EpisodeStates
BY DEF EpisodeStates

\* A journal stays a journal when an event is appended.
LEMMA EventFacts ==
  ASSUME NEW s \in Seq(EventNames), NEW e \in EventNames
  PROVE  Append(s, e) \in Seq(EventNames)
OBVIOUS

\* The names of the events.
LEMMA EventNamesFacts ==
    /\ "BEGIN" \in EventNames /\ "READINESS_PREFIX_TRIMMED" \in EventNames /\ "FROZEN" \in EventNames
    /\ "ABORTED" \in EventNames /\ "COMMITTED" \in EventNames /\ "DIAGNOSTIC_RETAINED" \in EventNames
    /\ "DIAGNOSTIC_RETAINED_RELEASED" \in EventNames /\ "QUARANTINED" \in EventNames /\ "RECOVERED_ABORT" \in EventNames
BY DEF EventNames

\* The names of the guard states.
LEMMA GuardNames ==
    /\ "RECORDING" \in GuardStates /\ "FROZEN" \in GuardStates /\ "COMMITTING" \in GuardStates
    /\ "QUARANTINED_COMMIT" \in GuardStates
BY DEF GuardStates

\* A guard that a run writes is a guard, and not the absence of one.
LEMMA GuardFacts ==
  ASSUME NEW r \in Runs, NEW state \in GuardStates
  PROVE  /\ [run |-> r, state |-> state] \in Guards
         /\ [run |-> r, state |-> state] # NoGuard
BY SentinelsAssumption DEF Guards

-----------------------------------------------------------------------------
(* Who a step can disturb *)

USE DEF Outside, Beginning, Quarantining, Discarding, Saving, Retaining, Freezing, Claiming,
        Terminal, RunInv

\* A run that neither works nor waits with an open episode keeps its invariant
\* whatever others do to the guard, the staging, the approval and the lock, and
\* even when a recovery writes its result.
LEMMA Idle ==
  ASSUME NEW q \in Runs, RunInv(q), ~Holding(q),
         pc'[q] = pc[q], op'[q] = op[q], ep'[q] = ep[q], data'[q] = data[q],
         pc[q] \in {"off", "open"} => result'[q] = result[q]
  PROVE  RunInv(q)'
<1>1. pc[q] \in Outside /\ ~Waiting(q) BY DEF Holding, Busy
<1>2. ~Holding(q)' /\ ~Guarded(q)' /\ ~Waiting(q)'
  BY <1>1 DEF Holding, Guarded, Busy, Waiting, Outside, Quarantining
<1> USE <1>1, <1>2 DEF RunInv, Outside, Quarantining, Discarding
<1>3. LockInv(q)' BY DEF LockInv
<1>4. GuardInv(q)' BY DEF GuardInv, Beginning
<1>5. DataInv(q)' BY DEF DataInv, Unsaved, Beginning, Retaining, Freezing, Claiming
<1>6. ResultInv(q)' BY
    DEF ResultInv, Undecided, Beginning, Retaining, Freezing, Claiming, Saving
<1>7. ProgressInv(q)' BY DEF ProgressInv
<1>8. RetentionInv(q)' BY DEF RetentionInv, Claiming, Freezing, Saving
<1> QED BY <1>3, <1>4, <1>5, <1>6, <1>7, <1>8

\* A step of the run that holds the lock, or takes it when it is free, need only
\* be checked against the shared state and that run: all others are idle.
LEMMA Exclusive ==
  ASSUME Inv, NEW r \in Runs, holder \in {r, NoProcess}, OnlyRun(r), TypeOK', SharedInv',
      RunInv(r)'
  PROVE  Inv'
<1>1. ASSUME NEW q \in Runs PROVE RunInv(q)'
  <2>1. CASE q = r BY <2>1
  <2>2. CASE q # r
    <3>1. ~Holding(q) BY <2>2, SentinelsAssumption DEF Inv, RunInv, LockInv
    <3> QED BY <3>1, <2>2, Idle DEF Inv, OnlyRun
  <2> QED BY <2>1, <2>2
<1>2. ASSUME NEW q \in Recoverers PROVE RecoveryInv(q)'
  <2>1. rpc[q] = "idle" BY ProcessesAssumption, SentinelsAssumption DEF Inv, RecoveryInv
  <2> QED BY <2>1 DEF OnlyRun, RecoveryInv
<1> QED BY <1>1, <1>2 DEF Inv

-----------------------------------------------------------------------------
(* The steps of a recorder *)

\* begin takes the free lock and records the manifest, or fails and takes nothing.
LEMMA BeginEpisodePreserves ==
  ASSUME Inv, NEW r \in Runs, BeginEpisode(r) PROVE Inv'
<1>0. TypeOK /\ SharedInv /\ RunInv(r) BY DEF Inv
<1>1. UNCHANGED <<guard, staging, data, total, approved, events, result, receipt, ep, base,
    eof, releasable, rpc, rguard>> BY DEF BeginEpisode
<1>2. /\ pc[r] = "open" /\ holder = NoProcess /\ guard = NoGuard
      /\ op'[r] = "begin" /\ ep'[r] = ep[r]
      /\ \/ pc'[r] = "begin.approval" /\ holder' = r /\ manifest'[r] # NoManifest
         \/ pc'[r] = "ready" /\ holder' = NoProcess
  BY <1>0, SentinelsAssumption DEF BeginEpisode, TypeOK, Manifests
<1>3. OnlyRun(r) BY <1>0, <1>1 DEF OnlyRun, TypeOK, Snapshots, BeginEpisode
<1>4. TypeOK'
  <2>1. (manifest \in [Runs -> Manifests \cup {NoManifest}])'
    <3>1. [episode |-> base[r], snapshot |-> data] \in Manifests BY <1>0 DEF TypeOK, Manifests
    <3>2. manifest' = manifest \/ manifest' = [manifest EXCEPT ![r] = [episode |-> base[r],
        snapshot |-> data]]
      BY DEF BeginEpisode
    <3> QED BY <1>0, <3>1, <3>2 DEF TypeOK
  <2>2. (holder \in Runs \cup Recoverers \cup {NoProcess})' BY <1>0 DEF BeginEpisode, TypeOK
  <2>3. (pc \in [Runs -> Steps])'
    <3>1. \E s \in Steps : pc' = [pc EXCEPT ![r] = s] BY StepNames DEF BeginEpisode
    <3> QED BY <1>0, <3>1 DEF TypeOK
  <2>4. (op \in [Runs -> Operations])' BY <1>0, OpNames DEF BeginEpisode, TypeOK
  <2>5. (faults \in Nat)'
    <3>1. faults' = faults \/ faults' = faults + 1 BY Zenon DEF BeginEpisode
    <3> QED BY <1>0, <3>1 DEF TypeOK
  <2> QED BY <1>0, <1>1, <2>1, <2>2, <2>3, <2>4, <2>5 DEF TypeOK
<1>5. holder \in {r, NoProcess} BY <1>0, <1>2 DEF LockInv, Holding, Busy, Waiting
<1>6. SharedInv' BY <1>0, <1>1, <1>2, <1>3, <1>4, SentinelsAssumption
    DEF SharedInv, OnlyRun, TypeOK, LockInv, GuardInv, DataInv, ResultInv, ProgressInv,
    Guarded, Holding, Waiting, Busy, Unsaved, Staging, DirsOf
<1>7. LockInv(r)' BY <1>0, <1>1, <1>2 DEF LockInv, ProgressInv, Holding, Busy, Waiting
<1>8. GuardInv(r)' BY <1>0, <1>1, <1>2, SentinelsAssumption, GuardFacts, GuardNames
    DEF GuardInv, Holding, Busy, Waiting, Guarded, SharedInv, ProgressInv
<1>9. DataInv(r)' BY <1>0, <1>1, <1>2
    DEF DataInv, ProgressInv, Unsaved, Waiting, Staging, DirsOf
<1>10. ResultInv(r)' BY <1>0, <1>1, <1>2 DEF ResultInv, Undecided, ProgressInv, Waiting
<1>11. ProgressInv(r)' BY <1>0, <1>1, <1>2 DEF ProgressInv
<1>12. RetentionInv(r)' BY <1>0, <1>1, <1>2
    DEF RetentionInv, ProgressInv, GuardInv, Guarded, Waiting, Busy
<1> QED BY <1>3, <1>4, <1>5, <1>6, <1>7, <1>8, <1>9, <1>10, <1>11, <1>12, Exclusive DEF RunInv

\* The approval is withdrawn before any guard exists.
LEMMA BeginInvalidatesApprovalPreserves ==
  ASSUME Inv, NEW r \in Runs, BeginInvalidatesApproval(r) PROVE Inv'
<1>0. TypeOK /\ SharedInv /\ RunInv(r) BY DEF Inv
<1>1. UNCHANGED <<guard, staging, data, total, manifest, events, result, receipt, op, ep,
    base, eof, releasable, rpc, rguard>> BY DEF BeginInvalidatesApproval
<1>2. /\ pc[r] = "begin.approval"
      /\ op'[r] = op[r] /\ ep'[r] = ep[r]
      /\ (approved' = approved \/ approved' = FALSE)
      /\ \/ pc'[r] = "begin.guard" /\ approved' = FALSE /\ holder' = holder
         \/ pc'[r] = "ready" /\ holder' = NoProcess
  BY <1>0 DEF BeginInvalidatesApproval, TypeOK
<1>3. OnlyRun(r) BY <1>0, <1>1 DEF OnlyRun, TypeOK, Snapshots, BeginInvalidatesApproval
<1>4. TypeOK'
  <2>1. (approved \in BOOLEAN)'
    <3>1. approved' = approved \/ approved' = FALSE BY Zenon DEF BeginInvalidatesApproval
    <3> QED BY <1>0, <3>1 DEF TypeOK
  <2>2. (holder \in Runs \cup Recoverers \cup {NoProcess})' BY <1>0
      DEF BeginInvalidatesApproval, TypeOK
  <2>3. (pc \in [Runs -> Steps])'
    <3>1. \E s \in Steps : pc' = [pc EXCEPT ![r] = s] BY StepNames DEF BeginInvalidatesApproval
    <3> QED BY <1>0, <3>1 DEF TypeOK
  <2>4. (faults \in Nat)'
    <3>1. faults' = faults \/ faults' = faults + 1 BY Zenon DEF BeginInvalidatesApproval
    <3> QED BY <1>0, <3>1 DEF TypeOK
  <2> QED BY <1>0, <1>1, <2>1, <2>2, <2>3, <2>4 DEF TypeOK
<1>5. holder \in {r, NoProcess} BY <1>0, <1>2 DEF LockInv, Holding, Busy, Waiting
<1>6. SharedInv' BY <1>0, <1>1, <1>2, <1>3, <1>4, SentinelsAssumption
    DEF SharedInv, OnlyRun, TypeOK, LockInv, GuardInv, DataInv, ResultInv, ProgressInv,
    Guarded, Holding, Waiting, Busy, Unsaved, Staging, DirsOf
<1>7. LockInv(r)' BY <1>0, <1>1, <1>2 DEF LockInv, ProgressInv, Holding, Busy, Waiting
<1>8. GuardInv(r)' BY <1>0, <1>1, <1>2, SentinelsAssumption, GuardFacts, GuardNames
    DEF GuardInv, Holding, Busy, Waiting, Guarded, SharedInv, ProgressInv
<1>9. DataInv(r)' BY <1>0, <1>1, <1>2
    DEF DataInv, ProgressInv, Unsaved, Waiting, Staging, DirsOf
<1>10. ResultInv(r)' BY <1>0, <1>1, <1>2 DEF ResultInv, Undecided, ProgressInv, Waiting
<1>11. ProgressInv(r)' BY <1>0, <1>1, <1>2 DEF ProgressInv
<1>12. RetentionInv(r)' BY <1>0, <1>1, <1>2
    DEF RetentionInv, ProgressInv, GuardInv, Guarded, Waiting, Busy
<1> QED BY <1>3, <1>4, <1>5, <1>6, <1>7, <1>8, <1>9, <1>10, <1>11, <1>12, Exclusive DEF RunInv

\* The guard appears only under the lock, with the approval withdrawn.
LEMMA BeginGuardPreserves ==
  ASSUME Inv, NEW r \in Runs, BeginGuard(r) PROVE Inv'
<1>0. TypeOK /\ SharedInv /\ RunInv(r) BY DEF Inv
<1>1. UNCHANGED <<staging, data, total, approved, manifest, events, result, receipt, op, base,
    eof, releasable, rpc, rguard>> BY DEF BeginGuard
<1>2. /\ pc[r] = "begin.guard"
      /\ op'[r] = op[r]
      /\ (guard' = guard \/ guard' = [run |-> r, state |-> "RECORDING"])
      /\ \/ pc'[r] = "claim" /\ ep'[r] = "RECORDING" /\ guard' = [run |-> r, state |-> "RECORDING"] /\ holder' = holder
         \/ pc'[r] = "ready" /\ ep'[r] = ep[r] /\ holder' = NoProcess
  BY <1>0 DEF BeginGuard, TypeOK
<1>3. OnlyRun(r) BY <1>0, <1>1 DEF OnlyRun, TypeOK, Snapshots, BeginGuard
<1>4. TypeOK'
  <2>1. (guard \in Guards \cup {NoGuard})' BY <1>0, GuardNames, GuardFacts
      DEF BeginGuard, TypeOK
  <2>2. (holder \in Runs \cup Recoverers \cup {NoProcess})' BY <1>0 DEF BeginGuard, TypeOK
  <2>3. (pc \in [Runs -> Steps])'
    <3>1. \E s \in Steps : pc' = [pc EXCEPT ![r] = s] BY StepNames DEF BeginGuard
    <3> QED BY <1>0, <3>1 DEF TypeOK
  <2>4. (ep \in [Runs -> EpisodeStates])' BY <1>0, EpNames DEF BeginGuard, TypeOK
  <2>5. (faults \in Nat)'
    <3>1. faults' = faults \/ faults' = faults + 1 BY Zenon DEF BeginGuard
    <3> QED BY <1>0, <3>1 DEF TypeOK
  <2> QED BY <1>0, <1>1, <2>1, <2>2, <2>3, <2>4, <2>5 DEF TypeOK
<1>5. holder \in {r, NoProcess} BY <1>0, <1>2 DEF LockInv, Holding, Busy, Waiting
<1>6. SharedInv'
  <2>1. guard = NoGuard /\ manifest[r] # NoManifest /\ data[r] = "none" /\ ~approved
    BY <1>0, <1>2
        DEF SharedInv, LockInv, GuardInv, DataInv, ResultInv, Undecided, ProgressInv, Guarded,
        Holding, Waiting, Busy, Unsaved
  <2> QED BY <1>0, <1>1, <1>2, <1>3, <1>4, <2>1, SentinelsAssumption, GuardFacts, GuardNames
      DEF SharedInv, OnlyRun, TypeOK, Staging, DirsOf
<1>7. LockInv(r)' BY <1>0, <1>1, <1>2 DEF LockInv, ProgressInv, Holding, Busy, Waiting
<1>8. GuardInv(r)' BY <1>0, <1>1, <1>2, SentinelsAssumption, GuardFacts, GuardNames
    DEF GuardInv, Holding, Busy, Waiting, Guarded, SharedInv, ProgressInv
<1>9. DataInv(r)' BY <1>0, <1>1, <1>2
    DEF DataInv, ProgressInv, Unsaved, Waiting, Staging, DirsOf
<1>10. ResultInv(r)' BY <1>0, <1>1, <1>2 DEF ResultInv, Undecided, ProgressInv, Waiting
<1>11. ProgressInv(r)' BY <1>0, <1>1, <1>2 DEF ProgressInv
<1>12. RetentionInv(r)' BY <1>0, <1>1, <1>2
    DEF RetentionInv, ProgressInv, GuardInv, Guarded, Waiting, Busy
<1> QED BY <1>3, <1>4, <1>5, <1>6, <1>7, <1>8, <1>9, <1>10, <1>11, <1>12, Exclusive DEF RunInv

\* A claimed directory belongs to the guarded run's episode.
LEMMA ClaimMakeDirectoryPreserves ==
  ASSUME Inv, NEW r \in Runs, ClaimMakeDirectory(r) PROVE Inv'
<1>0. TypeOK /\ SharedInv /\ RunInv(r) BY DEF Inv
<1>1. UNCHANGED <<guard, data, total, approved, manifest, events, result, receipt, holder, op,
    base, eof, releasable, rpc, rguard>> BY DEF ClaimMakeDirectory
<1>2. /\ pc[r] = "claim"
      /\ op'[r] = op[r]
      /\ \/ pc'[r] = "claim" /\ ep'[r] = ep[r]
         \/ pc'[r] = "ready" /\ ep'[r] = ep[r] /\ op[r] = "trim"
         \/ pc'[r] \in {"quar.approval", "quar.guard"} /\ ep'[r] = "QUARANTINED_COMMIT" /\ op[r] # "trim"
      /\ (\A d \in staging' : d \in staging \/ d.episode = manifest[r].episode)
  BY <1>0 DEF ClaimMakeDirectory, TypeOK, Staging, DirsOf, OwnedBy, Directories
<1>3. OnlyRun(r) BY <1>0, <1>1 DEF OnlyRun, TypeOK, Snapshots, ClaimMakeDirectory
<1>4. TypeOK'
  <2>1. (staging \subseteq Directories)'
    <3>1. PICK c \in Cameras : staging' \subseteq staging \cup {[episode |-> manifest[r].episode, camera |-> c, owner |-> Unowned]}
      BY DEF ClaimMakeDirectory
    <3>2. [episode |-> manifest[r].episode, camera |-> c, owner |-> Unowned] \in Directories
      BY <1>0, <1>2
          DEF LockInv, Holding, Busy, Waiting, ProgressInv, TypeOK, Manifests, Directories
    <3> QED BY <1>0, <3>1, <3>2 DEF TypeOK
  <2>2. (pc \in [Runs -> Steps])'
    <3>1. pc' = pc \/ \E s \in Steps : pc' = [pc EXCEPT ![r] = s]
      BY StepNames DEF ClaimMakeDirectory
    <3> QED BY <1>0, <3>1 DEF TypeOK
  <2>3. (ep \in [Runs -> EpisodeStates])' BY <1>0, EpNames DEF ClaimMakeDirectory, TypeOK
  <2>4. (faults \in Nat)'
    <3>1. faults' = faults \/ faults' = faults + 1 BY Zenon DEF ClaimMakeDirectory
    <3> QED BY <1>0, <3>1 DEF TypeOK
  <2> QED BY <1>0, <1>1, <2>1, <2>2, <2>3, <2>4 DEF TypeOK
<1>5. holder \in {r, NoProcess} BY <1>0, <1>2 DEF LockInv, Holding, Busy, Waiting
<1>6. SharedInv' BY <1>0, <1>1, <1>2, <1>3, <1>4, SentinelsAssumption
    DEF SharedInv, OnlyRun, TypeOK, LockInv, GuardInv, DataInv, ResultInv, ProgressInv,
    Guarded, Holding, Waiting, Busy, Unsaved, Staging, DirsOf
<1>7. LockInv(r)' BY <1>0, <1>1, <1>2 DEF LockInv, ProgressInv, Holding, Busy, Waiting
<1>8. GuardInv(r)' BY <1>0, <1>1, <1>2, SentinelsAssumption, GuardFacts, GuardNames
    DEF GuardInv, Holding, Busy, Waiting, Guarded, SharedInv, ProgressInv
<1>9. DataInv(r)' BY <1>0, <1>1, <1>2
    DEF DataInv, ProgressInv, Unsaved, Waiting, Staging, DirsOf
<1>10. ResultInv(r)' BY <1>0, <1>1, <1>2 DEF ResultInv, Undecided, ProgressInv, Waiting
<1>11. ProgressInv(r)' BY <1>0, <1>1, <1>2 DEF ProgressInv
<1>12. RetentionInv(r)' BY <1>0, <1>1, <1>2
    DEF RetentionInv, ProgressInv, GuardInv, Guarded, Waiting, Busy
<1> QED BY <1>3, <1>4, <1>5, <1>6, <1>7, <1>8, <1>9, <1>10, <1>11, <1>12, Exclusive DEF RunInv

\* A marker turns an unowned directory of the episode into an owned one.
LEMMA ClaimWriteOwnerPreserves ==
  ASSUME Inv, NEW r \in Runs, ClaimWriteOwner(r) PROVE Inv'
<1>0. TypeOK /\ SharedInv /\ RunInv(r) BY DEF Inv
<1>1. UNCHANGED <<guard, data, total, approved, manifest, events, result, receipt, holder, op,
    base, eof, releasable, rpc, rguard>> BY DEF ClaimWriteOwner
<1>2. /\ pc[r] = "claim"
      /\ op'[r] = op[r]
      /\ \/ pc'[r] = "claim" /\ ep'[r] = ep[r]
         \/ pc'[r] = "ready" /\ ep'[r] = ep[r] /\ op[r] = "trim"
         \/ pc'[r] \in {"quar.approval", "quar.guard"} /\ ep'[r] = "QUARANTINED_COMMIT" /\ op[r] # "trim"
      /\ (\A d \in staging' : d \in staging \/ d.episode = manifest[r].episode)
  BY <1>0 DEF ClaimWriteOwner, TypeOK, Staging, DirsOf, OwnedBy, Directories
<1>3. OnlyRun(r) BY <1>0, <1>1 DEF OnlyRun, TypeOK, Snapshots, ClaimWriteOwner
<1>4. TypeOK'
  <2>1. (staging \subseteq Directories)'
    <3>1. PICK d \in staging : staging' \subseteq staging \cup {[d EXCEPT !.owner = r]}
      BY DEF ClaimWriteOwner, Staging, DirsOf
    <3>2. [d EXCEPT !.owner = r] \in Directories BY <1>0 DEF TypeOK, Directories
    <3> QED BY <1>0, <3>1, <3>2 DEF TypeOK
  <2>2. (pc \in [Runs -> Steps])'
    <3>1. pc' = pc \/ \E s \in Steps : pc' = [pc EXCEPT ![r] = s]
      BY StepNames DEF ClaimWriteOwner
    <3> QED BY <1>0, <3>1 DEF TypeOK
  <2>3. (ep \in [Runs -> EpisodeStates])' BY <1>0, EpNames DEF ClaimWriteOwner, TypeOK
  <2>4. (faults \in Nat)'
    <3>1. faults' = faults \/ faults' = faults + 1 BY Zenon DEF ClaimWriteOwner
    <3> QED BY <1>0, <3>1 DEF TypeOK
  <2> QED BY <1>0, <1>1, <2>1, <2>2, <2>3, <2>4 DEF TypeOK
<1>5. holder \in {r, NoProcess} BY <1>0, <1>2 DEF LockInv, Holding, Busy, Waiting
<1>6. SharedInv' BY <1>0, <1>1, <1>2, <1>3, <1>4, SentinelsAssumption
    DEF SharedInv, OnlyRun, TypeOK, LockInv, GuardInv, DataInv, ResultInv, ProgressInv,
    Guarded, Holding, Waiting, Busy, Unsaved, Staging, DirsOf
<1>7. LockInv(r)' BY <1>0, <1>1, <1>2 DEF LockInv, ProgressInv, Holding, Busy, Waiting
<1>8. GuardInv(r)' BY <1>0, <1>1, <1>2, SentinelsAssumption, GuardFacts, GuardNames
    DEF GuardInv, Holding, Busy, Waiting, Guarded, SharedInv, ProgressInv
<1>9. DataInv(r)' BY <1>0, <1>1, <1>2
    DEF DataInv, ProgressInv, Unsaved, Waiting, Staging, DirsOf
<1>10. ResultInv(r)' BY <1>0, <1>1, <1>2 DEF ResultInv, Undecided, ProgressInv, Waiting
<1>11. ProgressInv(r)' BY <1>0, <1>1, <1>2 DEF ProgressInv
<1>12. RetentionInv(r)' BY <1>0, <1>1, <1>2
    DEF RetentionInv, ProgressInv, GuardInv, Guarded, Waiting, Busy
<1> QED BY <1>3, <1>4, <1>5, <1>6, <1>7, <1>8, <1>9, <1>10, <1>11, <1>12, Exclusive DEF RunInv

\* All cameras claimed: only the journal entry is missing.
LEMMA ClaimDonePreserves ==
  ASSUME Inv, NEW r \in Runs, ClaimDone(r) PROVE Inv'
<1>0. TypeOK /\ SharedInv /\ RunInv(r) BY DEF Inv
<1>1. UNCHANGED <<guard, staging, data, total, approved, manifest, events, result, receipt,
    holder, op, ep, base, eof, releasable, rpc, rguard, faults>> BY DEF ClaimDone
<1>2. /\ pc[r] = "claim" /\ pc'[r] = "claim.event"
      /\ op'[r] = op[r] /\ ep'[r] = ep[r]
  BY <1>0 DEF ClaimDone, TypeOK
<1>3. OnlyRun(r) BY <1>0, <1>1 DEF OnlyRun, TypeOK, Snapshots, ClaimDone
<1>4. TypeOK'
  <2>1. (pc \in [Runs -> Steps])'
    <3>1. \E s \in Steps : pc' = [pc EXCEPT ![r] = s] BY StepNames DEF ClaimDone
    <3> QED BY <1>0, <3>1 DEF TypeOK
  <2> QED BY <1>0, <1>1, <2>1 DEF TypeOK
<1>5. holder \in {r, NoProcess} BY <1>0, <1>2 DEF LockInv, Holding, Busy, Waiting
<1>6. SharedInv' BY <1>0, <1>1, <1>2, <1>3, <1>4, SentinelsAssumption
    DEF SharedInv, OnlyRun, TypeOK, LockInv, GuardInv, DataInv, ResultInv, ProgressInv,
    Guarded, Holding, Waiting, Busy, Unsaved, Staging, DirsOf
<1>7. LockInv(r)' BY <1>0, <1>1, <1>2 DEF LockInv, ProgressInv, Holding, Busy, Waiting
<1>8. GuardInv(r)' BY <1>0, <1>1, <1>2, SentinelsAssumption, GuardFacts, GuardNames
    DEF GuardInv, Holding, Busy, Waiting, Guarded, SharedInv, ProgressInv
<1>9. DataInv(r)' BY <1>0, <1>1, <1>2
    DEF DataInv, ProgressInv, Unsaved, Waiting, Staging, DirsOf
<1>10. ResultInv(r)' BY <1>0, <1>1, <1>2 DEF ResultInv, Undecided, ProgressInv, Waiting
<1>11. ProgressInv(r)' BY <1>0, <1>1, <1>2 DEF ProgressInv
<1>12. RetentionInv(r)' BY <1>0, <1>1, <1>2
    DEF RetentionInv, ProgressInv, GuardInv, Guarded, Waiting, Busy
<1> QED BY <1>3, <1>4, <1>5, <1>6, <1>7, <1>8, <1>9, <1>10, <1>11, <1>12, Exclusive DEF RunInv

\* Journalling the claim opens the episode for commands.
LEMMA ClaimEventPreserves ==
  ASSUME Inv, NEW r \in Runs, ClaimEvent(r) PROVE Inv'
<1>0. TypeOK /\ SharedInv /\ RunInv(r) BY DEF Inv
<1>1. UNCHANGED <<guard, staging, data, total, approved, manifest, result, receipt, holder,
    op, base, eof, releasable, rpc, rguard>> BY DEF ClaimEvent
<1>2. /\ pc[r] = "claim.event"
      /\ op'[r] = op[r]
      /\ \/ pc'[r] = "ready" /\ ep'[r] = ep[r]
         \/ pc'[r] \in {"quar.approval", "quar.guard"} /\ ep'[r] = "QUARANTINED_COMMIT"
  BY <1>0 DEF ClaimEvent, TypeOK
<1>3. OnlyRun(r) BY <1>0, <1>1 DEF OnlyRun, TypeOK, Snapshots, ClaimEvent
<1>4. TypeOK'
  <2>1. (events \in [Runs -> Seq(EventNames)])'
    <3>1. events' = events \/ \E e \in EventNames : events' = [events EXCEPT ![r] = Append(events[r], e)]
      BY <1>0, EventNamesFacts DEF TypeOK, ClaimEvent
    <3>2. events[r] \in Seq(EventNames) BY <1>0 DEF TypeOK
    <3>3. \A e \in EventNames : Append(events[r], e) \in Seq(EventNames) BY <3>2, EventFacts
    <3> QED BY <1>0, <3>1, <3>3 DEF TypeOK
  <2>2. (pc \in [Runs -> Steps])'
    <3>1. \E s \in Steps : pc' = [pc EXCEPT ![r] = s] BY StepNames DEF ClaimEvent
    <3> QED BY <1>0, <3>1 DEF TypeOK
  <2>3. (ep \in [Runs -> EpisodeStates])' BY <1>0, EpNames DEF ClaimEvent, TypeOK
  <2>4. (faults \in Nat)'
    <3>1. faults' = faults \/ faults' = faults + 1 BY Zenon DEF ClaimEvent
    <3> QED BY <1>0, <3>1 DEF TypeOK
  <2> QED BY <1>0, <1>1, <2>1, <2>2, <2>3, <2>4 DEF TypeOK
<1>5. holder \in {r, NoProcess} BY <1>0, <1>2 DEF LockInv, Holding, Busy, Waiting
<1>6. SharedInv' BY <1>0, <1>1, <1>2, <1>3, <1>4, SentinelsAssumption
    DEF SharedInv, OnlyRun, TypeOK, LockInv, GuardInv, DataInv, ResultInv, ProgressInv,
    Guarded, Holding, Waiting, Busy, Unsaved, Staging, DirsOf
<1>7. LockInv(r)' BY <1>0, <1>1, <1>2 DEF LockInv, ProgressInv, Holding, Busy, Waiting
<1>8. GuardInv(r)' BY <1>0, <1>1, <1>2, SentinelsAssumption, GuardFacts, GuardNames
    DEF GuardInv, Holding, Busy, Waiting, Guarded, SharedInv, ProgressInv
<1>9. DataInv(r)' BY <1>0, <1>1, <1>2
    DEF DataInv, ProgressInv, Unsaved, Waiting, Staging, DirsOf
<1>10. ResultInv(r)' BY <1>0, <1>1, <1>2 DEF ResultInv, Undecided, ProgressInv, Waiting
<1>11. ProgressInv(r)' BY <1>0, <1>1, <1>2 DEF ProgressInv
<1>12. RetentionInv(r)' BY <1>0, <1>1, <1>2
    DEF RetentionInv, ProgressInv, GuardInv, Guarded, Waiting, Busy
<1> QED BY <1>3, <1>4, <1>5, <1>6, <1>7, <1>8, <1>9, <1>10, <1>11, <1>12, Exclusive DEF RunInv

\* A row may create a directory of its own episode, nothing else.
LEMMA WriteRowPreserves ==
  ASSUME Inv, NEW r \in Runs, WriteRow(r) PROVE Inv'
<1>0. TypeOK /\ SharedInv /\ RunInv(r) BY DEF Inv
<1>1. UNCHANGED <<guard, data, total, approved, manifest, events, result, receipt, holder, pc,
    op, ep, base, eof, releasable, rpc, rguard, faults>> BY DEF WriteRow
<1>2. /\ pc[r] = "ready" /\ ep[r] = "RECORDING"
      /\ (\A d \in staging' : d \in staging \/ d.episode = manifest[r].episode)
  BY <1>0 DEF WriteRow, TypeOK, Staging, DirsOf, OwnedBy, Directories
<1>3. OnlyRun(r) BY <1>0, <1>1 DEF OnlyRun, TypeOK, Snapshots, WriteRow
<1>4. TypeOK'
  <2>1. (staging \subseteq Directories)'
    <3>1. PICK c \in Cameras : staging' \subseteq staging \cup {[episode |-> manifest[r].episode, camera |-> c, owner |-> Unowned]}
      BY DEF WriteRow
    <3>2. [episode |-> manifest[r].episode, camera |-> c, owner |-> Unowned] \in Directories
      BY <1>0, <1>2
          DEF LockInv, Holding, Busy, Waiting, ProgressInv, TypeOK, Manifests, Directories
    <3> QED BY <1>0, <3>1, <3>2 DEF TypeOK
  <2> QED BY <1>0, <1>1, <2>1 DEF TypeOK
<1>5. holder \in {r, NoProcess} BY <1>0, <1>2 DEF LockInv, Holding, Busy, Waiting
<1>6. SharedInv' BY <1>0, <1>1, <1>2, <1>3, <1>4, SentinelsAssumption
    DEF SharedInv, OnlyRun, TypeOK, LockInv, GuardInv, DataInv, ResultInv, ProgressInv,
    Guarded, Holding, Waiting, Busy, Unsaved, Staging, DirsOf
<1>7. LockInv(r)' BY <1>0, <1>1, <1>2 DEF LockInv, ProgressInv, Holding, Busy, Waiting
<1>8. GuardInv(r)' BY <1>0, <1>1, <1>2, SentinelsAssumption, GuardFacts, GuardNames
    DEF GuardInv, Holding, Busy, Waiting, Guarded, SharedInv, ProgressInv
<1>9. DataInv(r)' BY <1>0, <1>1, <1>2
    DEF DataInv, ProgressInv, Unsaved, Waiting, Staging, DirsOf
<1>10. ResultInv(r)' BY <1>0, <1>1, <1>2 DEF ResultInv, Undecided, ProgressInv, Waiting
<1>11. ProgressInv(r)' BY <1>0, <1>1, <1>2 DEF ProgressInv
<1>12. RetentionInv(r)' BY <1>0, <1>1, <1>2
    DEF RetentionInv, ProgressInv, GuardInv, Guarded, Waiting, Busy
<1> QED BY <1>3, <1>4, <1>5, <1>6, <1>7, <1>8, <1>9, <1>10, <1>11, <1>12, Exclusive DEF RunInv

\* Freezing starts from RECORDING.
LEMMA FreezeCommandPreserves ==
  ASSUME Inv, NEW r \in Runs, FreezeCommand(r) PROVE Inv'
<1>0. TypeOK /\ SharedInv /\ RunInv(r) BY DEF Inv
<1>1. UNCHANGED <<guard, staging, data, total, approved, manifest, events, result, receipt,
    holder, ep, base, eof, releasable, rpc, rguard, faults>> BY DEF FreezeCommand
<1>2. /\ pc[r] = "ready" /\ ep[r] = "RECORDING"
      /\ pc'[r] = "freeze" /\ op'[r] = "freeze" /\ ep'[r] = ep[r]
  BY <1>0 DEF FreezeCommand, TypeOK
<1>3. OnlyRun(r) BY <1>0, <1>1 DEF OnlyRun, TypeOK, Snapshots, FreezeCommand
<1>4. TypeOK'
  <2>1. (pc \in [Runs -> Steps])'
    <3>1. \E s \in Steps : pc' = [pc EXCEPT ![r] = s] BY StepNames DEF FreezeCommand
    <3> QED BY <1>0, <3>1 DEF TypeOK
  <2>2. (op \in [Runs -> Operations])' BY <1>0, OpNames DEF FreezeCommand, TypeOK
  <2> QED BY <1>0, <1>1, <2>1, <2>2 DEF TypeOK
<1>5. holder \in {r, NoProcess} BY <1>0, <1>2 DEF LockInv, Holding, Busy, Waiting
<1>6. SharedInv' BY <1>0, <1>1, <1>2, <1>3, <1>4, SentinelsAssumption
    DEF SharedInv, OnlyRun, TypeOK, LockInv, GuardInv, DataInv, ResultInv, ProgressInv,
    Guarded, Holding, Waiting, Busy, Unsaved, Staging, DirsOf
<1>7. LockInv(r)' BY <1>0, <1>1, <1>2 DEF LockInv, ProgressInv, Holding, Busy, Waiting
<1>8. GuardInv(r)' BY <1>0, <1>1, <1>2, SentinelsAssumption, GuardFacts, GuardNames
    DEF GuardInv, Holding, Busy, Waiting, Guarded, SharedInv, ProgressInv
<1>9. DataInv(r)' BY <1>0, <1>1, <1>2
    DEF DataInv, ProgressInv, Unsaved, Waiting, Staging, DirsOf
<1>10. ResultInv(r)' BY <1>0, <1>1, <1>2 DEF ResultInv, Undecided, ProgressInv, Waiting
<1>11. ProgressInv(r)' BY <1>0, <1>1, <1>2 DEF ProgressInv
<1>12. RetentionInv(r)' BY <1>0, <1>1, <1>2
    DEF RetentionInv, ProgressInv, GuardInv, Guarded, Waiting, Busy
<1> QED BY <1>3, <1>4, <1>5, <1>6, <1>7, <1>8, <1>9, <1>10, <1>11, <1>12, Exclusive DEF RunInv

\* Draining freezes the episode or quarantines it.
LEMMA FreezeEpisodePreserves ==
  ASSUME Inv, NEW r \in Runs, FreezeEpisode(r) PROVE Inv'
<1>0. TypeOK /\ SharedInv /\ RunInv(r) BY DEF Inv
<1>1. UNCHANGED <<guard, staging, data, total, approved, manifest, events, result, receipt,
    holder, op, base, eof, releasable, rpc, rguard, faults>> BY DEF FreezeEpisode
<1>2. /\ pc[r] = "freeze"
      /\ op'[r] = op[r]
      /\ \/ pc'[r] = "freeze.guard" /\ ep'[r] = "FROZEN"
         \/ pc'[r] \in {"quar.approval", "quar.guard"} /\ ep'[r] = "QUARANTINED_COMMIT"
  BY <1>0 DEF FreezeEpisode, TypeOK
<1>3. OnlyRun(r) BY <1>0, <1>1 DEF OnlyRun, TypeOK, Snapshots, FreezeEpisode
<1>4. TypeOK'
  <2>1. (pc \in [Runs -> Steps])'
    <3>1. \E s \in Steps : pc' = [pc EXCEPT ![r] = s] BY StepNames DEF FreezeEpisode
    <3> QED BY <1>0, <3>1 DEF TypeOK
  <2>2. (ep \in [Runs -> EpisodeStates])' BY <1>0, EpNames DEF FreezeEpisode, TypeOK
  <2> QED BY <1>0, <1>1, <2>1, <2>2 DEF TypeOK
<1>5. holder \in {r, NoProcess} BY <1>0, <1>2 DEF LockInv, Holding, Busy, Waiting
<1>6. SharedInv' BY <1>0, <1>1, <1>2, <1>3, <1>4, SentinelsAssumption
    DEF SharedInv, OnlyRun, TypeOK, LockInv, GuardInv, DataInv, ResultInv, ProgressInv,
    Guarded, Holding, Waiting, Busy, Unsaved, Staging, DirsOf
<1>7. LockInv(r)' BY <1>0, <1>1, <1>2 DEF LockInv, ProgressInv, Holding, Busy, Waiting
<1>8. GuardInv(r)' BY <1>0, <1>1, <1>2, SentinelsAssumption, GuardFacts, GuardNames
    DEF GuardInv, Holding, Busy, Waiting, Guarded, SharedInv, ProgressInv
<1>9. DataInv(r)' BY <1>0, <1>1, <1>2
    DEF DataInv, ProgressInv, Unsaved, Waiting, Staging, DirsOf
<1>10. ResultInv(r)' BY <1>0, <1>1, <1>2 DEF ResultInv, Undecided, ProgressInv, Waiting
<1>11. ProgressInv(r)' BY <1>0, <1>1, <1>2 DEF ProgressInv
<1>12. RetentionInv(r)' BY <1>0, <1>1, <1>2
    DEF RetentionInv, ProgressInv, GuardInv, Guarded, Waiting, Busy
<1> QED BY <1>3, <1>4, <1>5, <1>6, <1>7, <1>8, <1>9, <1>10, <1>11, <1>12, Exclusive DEF RunInv

\* The guard says FROZEN before the journal does.
LEMMA FreezeGuardPreserves ==
  ASSUME Inv, NEW r \in Runs, FreezeGuard(r) PROVE Inv'
<1>0. TypeOK /\ SharedInv /\ RunInv(r) BY DEF Inv
<1>1. UNCHANGED <<staging, data, total, approved, manifest, events, result, receipt, holder,
    op, base, eof, releasable, rpc, rguard>> BY DEF FreezeGuard
<1>2. /\ pc[r] = "freeze.guard"
      /\ op'[r] = op[r]
      /\ \/ pc'[r] = "freeze.event" /\ ep'[r] = ep[r]
         \/ pc'[r] \in {"quar.approval", "quar.guard"} /\ ep'[r] = "QUARANTINED_COMMIT"
      /\ (guard' = guard \/ guard' = [run |-> r, state |-> "FROZEN"])
  BY <1>0 DEF FreezeGuard, TypeOK
<1>3. OnlyRun(r) BY <1>0, <1>1 DEF OnlyRun, TypeOK, Snapshots, FreezeGuard
<1>4. TypeOK'
  <2>1. (guard \in Guards \cup {NoGuard})' BY <1>0, GuardNames, GuardFacts
      DEF FreezeGuard, TypeOK
  <2>2. (pc \in [Runs -> Steps])'
    <3>1. \E s \in Steps : pc' = [pc EXCEPT ![r] = s] BY StepNames DEF FreezeGuard
    <3> QED BY <1>0, <3>1 DEF TypeOK
  <2>3. (ep \in [Runs -> EpisodeStates])' BY <1>0, EpNames DEF FreezeGuard, TypeOK
  <2>4. (faults \in Nat)'
    <3>1. faults' = faults \/ faults' = faults + 1 BY Zenon DEF FreezeGuard
    <3> QED BY <1>0, <3>1 DEF TypeOK
  <2> QED BY <1>0, <1>1, <2>1, <2>2, <2>3, <2>4 DEF TypeOK
<1>5. holder \in {r, NoProcess} BY <1>0, <1>2 DEF LockInv, Holding, Busy, Waiting
<1>6. SharedInv'
  <2>1. guard # NoGuard /\ guard.run = r /\ manifest[r] # NoManifest /\ data[r] = "none"
    BY <1>0, <1>2
        DEF SharedInv, LockInv, GuardInv, DataInv, ResultInv, Undecided, ProgressInv, Guarded,
        Holding, Waiting, Busy, Unsaved
  <2> QED BY <1>0, <1>1, <1>2, <1>3, <1>4, <2>1, SentinelsAssumption, GuardFacts, GuardNames
      DEF SharedInv, OnlyRun, TypeOK, Staging, DirsOf
<1>7. LockInv(r)' BY <1>0, <1>1, <1>2 DEF LockInv, ProgressInv, Holding, Busy, Waiting
<1>8. GuardInv(r)' BY <1>0, <1>1, <1>2, SentinelsAssumption, GuardFacts, GuardNames
    DEF GuardInv, Holding, Busy, Waiting, Guarded, SharedInv, ProgressInv
<1>9. DataInv(r)' BY <1>0, <1>1, <1>2
    DEF DataInv, ProgressInv, Unsaved, Waiting, Staging, DirsOf
<1>10. ResultInv(r)' BY <1>0, <1>1, <1>2 DEF ResultInv, Undecided, ProgressInv, Waiting
<1>11. ProgressInv(r)' BY <1>0, <1>1, <1>2 DEF ProgressInv
<1>12. RetentionInv(r)' BY <1>0, <1>1, <1>2
    DEF RetentionInv, ProgressInv, GuardInv, Guarded, Waiting, Busy
<1> QED BY <1>3, <1>4, <1>5, <1>6, <1>7, <1>8, <1>9, <1>10, <1>11, <1>12, Exclusive DEF RunInv

\* The frozen episode waits, or is discarded, or is retained, as commanded.
LEMMA FreezeEventPreserves ==
  ASSUME Inv, NEW r \in Runs, FreezeEvent(r) PROVE Inv'
<1>0. TypeOK /\ SharedInv /\ RunInv(r) BY DEF Inv
<1>1. UNCHANGED <<guard, staging, data, total, approved, manifest, result, receipt, holder,
    op, base, eof, releasable, rpc, rguard>> BY DEF FreezeEvent
<1>2. /\ pc[r] = "freeze.event"
      /\ op'[r] = op[r]
      /\ \/ (pc'[r] = CASE op[r] = "abort" -> "clear" [] op[r] = "retain" -> "retain.check" [] OTHER -> "ready") /\ ep'[r] = ep[r]
         \/ pc'[r] \in {"quar.approval", "quar.guard"} /\ ep'[r] = "QUARANTINED_COMMIT"
  BY <1>0 DEF FreezeEvent, TypeOK
<1>3. OnlyRun(r) BY <1>0, <1>1 DEF OnlyRun, TypeOK, Snapshots, FreezeEvent
<1>4. TypeOK'
  <2>1. (events \in [Runs -> Seq(EventNames)])'
    <3>1. events' = events \/ \E e \in EventNames : events' = [events EXCEPT ![r] = Append(events[r], e)]
      BY <1>0, EventNamesFacts DEF TypeOK, FreezeEvent
    <3>2. events[r] \in Seq(EventNames) BY <1>0 DEF TypeOK
    <3>3. \A e \in EventNames : Append(events[r], e) \in Seq(EventNames) BY <3>2, EventFacts
    <3> QED BY <1>0, <3>1, <3>3 DEF TypeOK
  <2>2. (pc \in [Runs -> Steps])'
    <3>1. \E s \in Steps : pc' = [pc EXCEPT ![r] = s] BY StepNames DEF FreezeEvent
    <3> QED BY <1>0, <3>1 DEF TypeOK
  <2>3. (ep \in [Runs -> EpisodeStates])' BY <1>0, EpNames DEF FreezeEvent, TypeOK
  <2>4. (faults \in Nat)'
    <3>1. faults' = faults \/ faults' = faults + 1 BY Zenon DEF FreezeEvent
    <3> QED BY <1>0, <3>1 DEF TypeOK
  <2> QED BY <1>0, <1>1, <2>1, <2>2, <2>3, <2>4 DEF TypeOK
<1>5. holder \in {r, NoProcess} BY <1>0, <1>2 DEF LockInv, Holding, Busy, Waiting
<1>6. SharedInv' BY <1>0, <1>1, <1>2, <1>3, <1>4, SentinelsAssumption
    DEF SharedInv, OnlyRun, TypeOK, LockInv, GuardInv, DataInv, ResultInv, ProgressInv,
    Guarded, Holding, Waiting, Busy, Unsaved, Staging, DirsOf
<1>7. LockInv(r)' BY <1>0, <1>1, <1>2 DEF LockInv, ProgressInv, Holding, Busy, Waiting
<1>8. GuardInv(r)' BY <1>0, <1>1, <1>2, SentinelsAssumption, GuardFacts, GuardNames
    DEF GuardInv, Holding, Busy, Waiting, Guarded, SharedInv, ProgressInv
<1>9. DataInv(r)' BY <1>0, <1>1, <1>2
    DEF DataInv, ProgressInv, Unsaved, Waiting, Staging, DirsOf
<1>10. ResultInv(r)' BY <1>0, <1>1, <1>2 DEF ResultInv, Undecided, ProgressInv, Waiting
<1>11. ProgressInv(r)' BY <1>0, <1>1, <1>2 DEF ProgressInv
<1>12. RetentionInv(r)' BY <1>0, <1>1, <1>2
    DEF RetentionInv, ProgressInv, GuardInv, Guarded, Waiting, Busy
<1> QED BY <1>3, <1>4, <1>5, <1>6, <1>7, <1>8, <1>9, <1>10, <1>11, <1>12, Exclusive DEF RunInv

\* A trim clears the buffer of a recording episode.
LEMMA TrimCommandPreserves ==
  ASSUME Inv, NEW r \in Runs, TrimCommand(r) PROVE Inv'
<1>0. TypeOK /\ SharedInv /\ RunInv(r) BY DEF Inv
<1>1. UNCHANGED <<guard, staging, data, total, approved, manifest, events, result, receipt,
    holder, base, eof, releasable, rpc, rguard>> BY DEF TrimCommand
<1>2. /\ pc[r] = "ready" /\ ep[r] = "RECORDING"
      /\ op'[r] = "trim"
      /\ \/ pc'[r] = "clear" /\ ep'[r] = ep[r]
         \/ pc'[r] \in {"quar.approval", "quar.guard"} /\ ep'[r] = "QUARANTINED_COMMIT"
  BY <1>0 DEF TrimCommand, TypeOK
<1>3. OnlyRun(r) BY <1>0, <1>1 DEF OnlyRun, TypeOK, Snapshots, TrimCommand
<1>4. TypeOK'
  <2>1. (pc \in [Runs -> Steps])'
    <3>1. \E s \in Steps : pc' = [pc EXCEPT ![r] = s] BY StepNames DEF TrimCommand
    <3> QED BY <1>0, <3>1 DEF TypeOK
  <2>2. (op \in [Runs -> Operations])' BY <1>0, OpNames DEF TrimCommand, TypeOK
  <2>3. (ep \in [Runs -> EpisodeStates])' BY <1>0, EpNames DEF TrimCommand, TypeOK
  <2>4. (faults \in Nat)'
    <3>1. faults' = faults \/ faults' = faults + 1 BY Zenon DEF TrimCommand
    <3> QED BY <1>0, <3>1 DEF TypeOK
  <2> QED BY <1>0, <1>1, <2>1, <2>2, <2>3, <2>4 DEF TypeOK
<1>5. holder \in {r, NoProcess} BY <1>0, <1>2 DEF LockInv, Holding, Busy, Waiting
<1>6. SharedInv' BY <1>0, <1>1, <1>2, <1>3, <1>4, SentinelsAssumption
    DEF SharedInv, OnlyRun, TypeOK, LockInv, GuardInv, DataInv, ResultInv, ProgressInv,
    Guarded, Holding, Waiting, Busy, Unsaved, Staging, DirsOf
<1>7. LockInv(r)' BY <1>0, <1>1, <1>2 DEF LockInv, ProgressInv, Holding, Busy, Waiting
<1>8. GuardInv(r)' BY <1>0, <1>1, <1>2, SentinelsAssumption, GuardFacts, GuardNames
    DEF GuardInv, Holding, Busy, Waiting, Guarded, SharedInv, ProgressInv
<1>9. DataInv(r)' BY <1>0, <1>1, <1>2
    DEF DataInv, ProgressInv, Unsaved, Waiting, Staging, DirsOf
<1>10. ResultInv(r)' BY <1>0, <1>1, <1>2 DEF ResultInv, Undecided, ProgressInv, Waiting
<1>11. ProgressInv(r)' BY <1>0, <1>1, <1>2 DEF ProgressInv
<1>12. RetentionInv(r)' BY <1>0, <1>1, <1>2
    DEF RetentionInv, ProgressInv, GuardInv, Guarded, Waiting, Busy
<1> QED BY <1>3, <1>4, <1>5, <1>6, <1>7, <1>8, <1>9, <1>10, <1>11, <1>12, Exclusive DEF RunInv

\* Clearing removes the marker before the directory.
LEMMA ClearDirectoryPreserves ==
  ASSUME Inv, NEW r \in Runs, ClearDirectory(r) PROVE Inv'
<1>0. TypeOK /\ SharedInv /\ RunInv(r) BY DEF Inv
<1>1. UNCHANGED <<guard, data, total, approved, manifest, events, result, receipt, holder, pc,
    op, ep, base, eof, releasable, rpc, rguard, faults>> BY DEF ClearDirectory
<1>2. /\ pc[r] = "clear"
      /\ (\A d \in staging' : d \in staging \/ d.episode = manifest[r].episode)
  BY <1>0 DEF ClearDirectory, TypeOK, Staging, DirsOf, OwnedBy, Directories
<1>3. OnlyRun(r) BY <1>0, <1>1 DEF OnlyRun, TypeOK, Snapshots, ClearDirectory
<1>4. TypeOK'
  <2>1. (staging \subseteq Directories)'
    <3>1. PICK d \in staging : staging' \subseteq staging \cup {[d EXCEPT !.owner = Unowned]}
      BY DEF ClearDirectory, Staging, DirsOf
    <3>2. [d EXCEPT !.owner = Unowned] \in Directories BY <1>0 DEF TypeOK, Directories
    <3> QED BY <1>0, <3>1, <3>2 DEF TypeOK
  <2> QED BY <1>0, <1>1, <2>1 DEF TypeOK
<1>5. holder \in {r, NoProcess} BY <1>0, <1>2 DEF LockInv, Holding, Busy, Waiting
<1>6. SharedInv' BY <1>0, <1>1, <1>2, <1>3, <1>4, SentinelsAssumption
    DEF SharedInv, OnlyRun, TypeOK, LockInv, GuardInv, DataInv, ResultInv, ProgressInv,
    Guarded, Holding, Waiting, Busy, Unsaved, Staging, DirsOf
<1>7. LockInv(r)' BY <1>0, <1>1, <1>2 DEF LockInv, ProgressInv, Holding, Busy, Waiting
<1>8. GuardInv(r)' BY <1>0, <1>1, <1>2, SentinelsAssumption, GuardFacts, GuardNames
    DEF GuardInv, Holding, Busy, Waiting, Guarded, SharedInv, ProgressInv
<1>9. DataInv(r)' BY <1>0, <1>1, <1>2
    DEF DataInv, ProgressInv, Unsaved, Waiting, Staging, DirsOf
<1>10. ResultInv(r)' BY <1>0, <1>1, <1>2 DEF ResultInv, Undecided, ProgressInv, Waiting
<1>11. ProgressInv(r)' BY <1>0, <1>1, <1>2 DEF ProgressInv
<1>12. RetentionInv(r)' BY <1>0, <1>1, <1>2
    DEF RetentionInv, ProgressInv, GuardInv, Guarded, Waiting, Busy
<1> QED BY <1>3, <1>4, <1>5, <1>6, <1>7, <1>8, <1>9, <1>10, <1>11, <1>12, Exclusive DEF RunInv

\* A trim claims the directories anew, a discard verifies that they are gone.
LEMMA ClearDonePreserves ==
  ASSUME Inv, NEW r \in Runs, ClearDone(r) PROVE Inv'
<1>0. TypeOK /\ SharedInv /\ RunInv(r) BY DEF Inv
<1>1. UNCHANGED <<guard, staging, data, total, approved, manifest, events, result, receipt,
    holder, op, ep, base, eof, releasable, rpc, rguard, faults>> BY DEF ClearDone
<1>2. /\ pc[r] = "clear" /\ Staging(r) = {}
      /\ op'[r] = op[r] /\ ep'[r] = ep[r]
      /\ pc'[r] = IF op[r] = "trim" THEN "claim" ELSE "verify"
  BY <1>0 DEF ClearDone, TypeOK, Staging, DirsOf, OwnedBy, Directories
<1>3. OnlyRun(r) BY <1>0, <1>1 DEF OnlyRun, TypeOK, Snapshots, ClearDone
<1>4. TypeOK'
  <2>1. (pc \in [Runs -> Steps])'
    <3>1. \E s \in Steps : pc' = [pc EXCEPT ![r] = s] BY StepNames DEF ClearDone
    <3> QED BY <1>0, <3>1 DEF TypeOK
  <2> QED BY <1>0, <1>1, <2>1 DEF TypeOK
<1>5. holder \in {r, NoProcess} BY <1>0, <1>2 DEF LockInv, Holding, Busy, Waiting
<1>6. SharedInv' BY <1>0, <1>1, <1>2, <1>3, <1>4, SentinelsAssumption
    DEF SharedInv, OnlyRun, TypeOK, LockInv, GuardInv, DataInv, ResultInv, ProgressInv,
    Guarded, Holding, Waiting, Busy, Unsaved, Staging, DirsOf
<1>7. LockInv(r)' BY <1>0, <1>1, <1>2 DEF LockInv, ProgressInv, Holding, Busy, Waiting
<1>8. GuardInv(r)' BY <1>0, <1>1, <1>2, SentinelsAssumption, GuardFacts, GuardNames
    DEF GuardInv, Holding, Busy, Waiting, Guarded, SharedInv, ProgressInv
<1>9. DataInv(r)' BY <1>0, <1>1, <1>2
    DEF DataInv, ProgressInv, Unsaved, Waiting, Staging, DirsOf
<1>10. ResultInv(r)' BY <1>0, <1>1, <1>2 DEF ResultInv, Undecided, ProgressInv, Waiting
<1>11. ProgressInv(r)' BY <1>0, <1>1, <1>2 DEF ProgressInv
<1>12. RetentionInv(r)' BY <1>0, <1>1, <1>2
    DEF RetentionInv, ProgressInv, GuardInv, Guarded, Waiting, Busy
<1> QED BY <1>3, <1>4, <1>5, <1>6, <1>7, <1>8, <1>9, <1>10, <1>11, <1>12, Exclusive DEF RunInv

\* A trim that fails goes on recording, a discard that fails quarantines.
LEMMA ClearFailsPreserves ==
  ASSUME Inv, NEW r \in Runs, ClearFails(r) PROVE Inv'
<1>0. TypeOK /\ SharedInv /\ RunInv(r) BY DEF Inv
<1>1. UNCHANGED <<guard, staging, data, total, approved, manifest, events, result, receipt,
    holder, op, base, eof, releasable, rpc, rguard>> BY DEF ClearFails
<1>2. /\ pc[r] = "clear"
      /\ op'[r] = op[r]
      /\ \/ pc'[r] = "ready" /\ ep'[r] = ep[r] /\ op[r] = "trim"
         \/ pc'[r] \in {"quar.approval", "quar.guard"} /\ ep'[r] = "QUARANTINED_COMMIT" /\ op[r] # "trim"
  BY <1>0 DEF ClearFails, TypeOK
<1>3. OnlyRun(r) BY <1>0, <1>1 DEF OnlyRun, TypeOK, Snapshots, ClearFails
<1>4. TypeOK'
  <2>1. (pc \in [Runs -> Steps])'
    <3>1. \E s \in Steps : pc' = [pc EXCEPT ![r] = s] BY StepNames DEF ClearFails
    <3> QED BY <1>0, <3>1 DEF TypeOK
  <2>2. (ep \in [Runs -> EpisodeStates])' BY <1>0, EpNames DEF ClearFails, TypeOK
  <2>3. (faults \in Nat)'
    <3>1. faults' = faults \/ faults' = faults + 1 BY Zenon DEF ClearFails
    <3> QED BY <1>0, <3>1 DEF TypeOK
  <2> QED BY <1>0, <1>1, <2>1, <2>2, <2>3 DEF TypeOK
<1>5. holder \in {r, NoProcess} BY <1>0, <1>2 DEF LockInv, Holding, Busy, Waiting
<1>6. SharedInv' BY <1>0, <1>1, <1>2, <1>3, <1>4, SentinelsAssumption
    DEF SharedInv, OnlyRun, TypeOK, LockInv, GuardInv, DataInv, ResultInv, ProgressInv,
    Guarded, Holding, Waiting, Busy, Unsaved, Staging, DirsOf
<1>7. LockInv(r)' BY <1>0, <1>1, <1>2 DEF LockInv, ProgressInv, Holding, Busy, Waiting
<1>8. GuardInv(r)' BY <1>0, <1>1, <1>2, SentinelsAssumption, GuardFacts, GuardNames
    DEF GuardInv, Holding, Busy, Waiting, Guarded, SharedInv, ProgressInv
<1>9. DataInv(r)' BY <1>0, <1>1, <1>2
    DEF DataInv, ProgressInv, Unsaved, Waiting, Staging, DirsOf
<1>10. ResultInv(r)' BY <1>0, <1>1, <1>2 DEF ResultInv, Undecided, ProgressInv, Waiting
<1>11. ProgressInv(r)' BY <1>0, <1>1, <1>2 DEF ProgressInv
<1>12. RetentionInv(r)' BY <1>0, <1>1, <1>2
    DEF RetentionInv, ProgressInv, GuardInv, Guarded, Waiting, Busy
<1> QED BY <1>3, <1>4, <1>5, <1>6, <1>7, <1>8, <1>9, <1>10, <1>11, <1>12, Exclusive DEF RunInv

\* abort discards an episode that is recording or frozen.
LEMMA AbortEpisodePreserves ==
  ASSUME Inv, NEW r \in Runs, AbortEpisode(r) PROVE Inv'
<1>0. TypeOK /\ SharedInv /\ RunInv(r) BY DEF Inv
<1>1. UNCHANGED <<guard, staging, data, total, approved, manifest, events, result, receipt,
    holder, ep, base, eof, releasable, rpc, rguard, faults>> BY DEF AbortEpisode
<1>2. /\ pc[r] = "ready" /\ ep[r] \in {"RECORDING", "FROZEN"}
      /\ op'[r] = "abort" /\ ep'[r] = ep[r]
      /\ pc'[r] = IF ep[r] = "RECORDING" THEN "freeze" ELSE "clear"
  BY <1>0 DEF AbortEpisode, TypeOK
<1>3. OnlyRun(r) BY <1>0, <1>1 DEF OnlyRun, TypeOK, Snapshots, AbortEpisode
<1>4. TypeOK'
  <2>1. (pc \in [Runs -> Steps])'
    <3>1. \E s \in Steps : pc' = [pc EXCEPT ![r] = s] BY StepNames DEF AbortEpisode
    <3> QED BY <1>0, <3>1 DEF TypeOK
  <2>2. (op \in [Runs -> Operations])' BY <1>0, OpNames DEF AbortEpisode, TypeOK
  <2> QED BY <1>0, <1>1, <2>1, <2>2 DEF TypeOK
<1>5. holder \in {r, NoProcess} BY <1>0, <1>2 DEF LockInv, Holding, Busy, Waiting
<1>6. SharedInv' BY <1>0, <1>1, <1>2, <1>3, <1>4, SentinelsAssumption
    DEF SharedInv, OnlyRun, TypeOK, LockInv, GuardInv, DataInv, ResultInv, ProgressInv,
    Guarded, Holding, Waiting, Busy, Unsaved, Staging, DirsOf
<1>7. LockInv(r)' BY <1>0, <1>1, <1>2 DEF LockInv, ProgressInv, Holding, Busy, Waiting
<1>8. GuardInv(r)' BY <1>0, <1>1, <1>2, SentinelsAssumption, GuardFacts, GuardNames
    DEF GuardInv, Holding, Busy, Waiting, Guarded, SharedInv, ProgressInv
<1>9. DataInv(r)' BY <1>0, <1>1, <1>2
    DEF DataInv, ProgressInv, Unsaved, Waiting, Staging, DirsOf
<1>10. ResultInv(r)' BY <1>0, <1>1, <1>2 DEF ResultInv, Undecided, ProgressInv, Waiting
<1>11. ProgressInv(r)' BY <1>0, <1>1, <1>2 DEF ProgressInv
<1>12. RetentionInv(r)' BY <1>0, <1>1, <1>2
    DEF RetentionInv, ProgressInv, GuardInv, Guarded, Waiting, Busy
<1> QED BY <1>3, <1>4, <1>5, <1>6, <1>7, <1>8, <1>9, <1>10, <1>11, <1>12, Exclusive DEF RunInv

\* ABORTED is entered only with no staging left.
LEMMA VerifyCleanupPreserves ==
  ASSUME Inv, NEW r \in Runs, VerifyCleanup(r) PROVE Inv'
<1>0. TypeOK /\ SharedInv /\ RunInv(r) BY DEF Inv
<1>1. UNCHANGED <<guard, staging, data, total, approved, manifest, events, result, receipt,
    holder, op, base, eof, releasable, rpc, rguard, faults>> BY DEF VerifyCleanup
<1>2. /\ pc[r] = "verify"
      /\ op'[r] = op[r]
      /\ \/ pc'[r] = "abort.result" /\ ep'[r] = "ABORTED" /\ Staging(r) = {}
         \/ pc'[r] \in {"quar.approval", "quar.guard"} /\ ep'[r] = "QUARANTINED_COMMIT"
  BY <1>0 DEF VerifyCleanup, TypeOK, Staging, DirsOf, OwnedBy, Directories
<1>3. OnlyRun(r) BY <1>0, <1>1 DEF OnlyRun, TypeOK, Snapshots, VerifyCleanup
<1>4. TypeOK'
  <2>1. (pc \in [Runs -> Steps])'
    <3>1. \E s \in Steps : pc' = [pc EXCEPT ![r] = s] BY StepNames DEF VerifyCleanup
    <3> QED BY <1>0, <3>1 DEF TypeOK
  <2>2. (ep \in [Runs -> EpisodeStates])' BY <1>0, EpNames DEF VerifyCleanup, TypeOK
  <2> QED BY <1>0, <1>1, <2>1, <2>2 DEF TypeOK
<1>5. holder \in {r, NoProcess} BY <1>0, <1>2 DEF LockInv, Holding, Busy, Waiting
<1>6. SharedInv' BY <1>0, <1>1, <1>2, <1>3, <1>4, SentinelsAssumption
    DEF SharedInv, OnlyRun, TypeOK, LockInv, GuardInv, DataInv, ResultInv, ProgressInv,
    Guarded, Holding, Waiting, Busy, Unsaved, Staging, DirsOf
<1>7. LockInv(r)' BY <1>0, <1>1, <1>2 DEF LockInv, ProgressInv, Holding, Busy, Waiting
<1>8. GuardInv(r)' BY <1>0, <1>1, <1>2, SentinelsAssumption, GuardFacts, GuardNames
    DEF GuardInv, Holding, Busy, Waiting, Guarded, SharedInv, ProgressInv
<1>9. DataInv(r)' BY <1>0, <1>1, <1>2
    DEF DataInv, ProgressInv, Unsaved, Waiting, Staging, DirsOf
<1>10. ResultInv(r)' BY <1>0, <1>1, <1>2 DEF ResultInv, Undecided, ProgressInv, Waiting
<1>11. ProgressInv(r)' BY <1>0, <1>1, <1>2 DEF ProgressInv
<1>12. RetentionInv(r)' BY <1>0, <1>1, <1>2
    DEF RetentionInv, ProgressInv, GuardInv, Guarded, Waiting, Busy
<1> QED BY <1>3, <1>4, <1>5, <1>6, <1>7, <1>8, <1>9, <1>10, <1>11, <1>12, Exclusive DEF RunInv

\* The result says ABORTED while nothing of the episode is saved.
LEMMA AbortResultPreserves ==
  ASSUME Inv, NEW r \in Runs, AbortResult(r) PROVE Inv'
<1>0. TypeOK /\ SharedInv /\ RunInv(r) BY DEF Inv
<1>1. UNCHANGED <<guard, staging, data, total, approved, manifest, events, receipt, holder,
    op, base, eof, releasable, rpc, rguard>> BY DEF AbortResult
<1>2. /\ pc[r] = "abort.result"
      /\ op'[r] = op[r]
      /\ \/ pc'[r] = "abort.event" /\ ep'[r] = ep[r] /\ result'[r] = "ABORTED"
         \/ pc'[r] \in {"quar.approval", "quar.guard"} /\ ep'[r] = "QUARANTINED_COMMIT"
      /\ result'[r] \in {result[r], "ABORTED"}
  BY <1>0 DEF AbortResult, TypeOK
<1>3. OnlyRun(r) BY <1>0, <1>1 DEF OnlyRun, TypeOK, Snapshots, AbortResult
<1>4. TypeOK'
  <2>1. (result \in [Runs -> {"none", "ABORTED", "COMMITTED", "QUARANTINED_COMMIT"}])' BY <1>0
      DEF AbortResult, TypeOK
  <2>2. (pc \in [Runs -> Steps])'
    <3>1. \E s \in Steps : pc' = [pc EXCEPT ![r] = s] BY StepNames DEF AbortResult
    <3> QED BY <1>0, <3>1 DEF TypeOK
  <2>3. (ep \in [Runs -> EpisodeStates])' BY <1>0, EpNames DEF AbortResult, TypeOK
  <2>4. (faults \in Nat)'
    <3>1. faults' = faults \/ faults' = faults + 1 BY Zenon DEF AbortResult
    <3> QED BY <1>0, <3>1 DEF TypeOK
  <2> QED BY <1>0, <1>1, <2>1, <2>2, <2>3, <2>4 DEF TypeOK
<1>5. holder \in {r, NoProcess} BY <1>0, <1>2 DEF LockInv, Holding, Busy, Waiting
<1>6. SharedInv' BY <1>0, <1>1, <1>2, <1>3, <1>4, SentinelsAssumption
    DEF SharedInv, OnlyRun, TypeOK, LockInv, GuardInv, DataInv, ResultInv, ProgressInv,
    Guarded, Holding, Waiting, Busy, Unsaved, Staging, DirsOf
<1>7. LockInv(r)' BY <1>0, <1>1, <1>2 DEF LockInv, ProgressInv, Holding, Busy, Waiting
<1>8. GuardInv(r)' BY <1>0, <1>1, <1>2, SentinelsAssumption, GuardFacts, GuardNames
    DEF GuardInv, Holding, Busy, Waiting, Guarded, SharedInv, ProgressInv
<1>9. DataInv(r)' BY <1>0, <1>1, <1>2
    DEF DataInv, ProgressInv, Unsaved, Waiting, Staging, DirsOf
<1>10. ResultInv(r)' BY <1>0, <1>1, <1>2 DEF ResultInv, Undecided, ProgressInv, Waiting
<1>11. ProgressInv(r)' BY <1>0, <1>1, <1>2 DEF ProgressInv
<1>12. RetentionInv(r)' BY <1>0, <1>1, <1>2
    DEF RetentionInv, ProgressInv, GuardInv, Guarded, Waiting, Busy
<1> QED BY <1>3, <1>4, <1>5, <1>6, <1>7, <1>8, <1>9, <1>10, <1>11, <1>12, Exclusive DEF RunInv

\* The journal follows the result.
LEMMA AbortEventPreserves ==
  ASSUME Inv, NEW r \in Runs, AbortEvent(r) PROVE Inv'
<1>0. TypeOK /\ SharedInv /\ RunInv(r) BY DEF Inv
<1>1. UNCHANGED <<guard, staging, data, total, approved, manifest, result, receipt, holder,
    op, base, eof, releasable, rpc, rguard>> BY DEF AbortEvent
<1>2. /\ pc[r] = "abort.event"
      /\ op'[r] = op[r]
      /\ \/ (pc'[r] = IF op[r] = "retaining" THEN "retain.receipt" ELSE "release") /\ ep'[r] = ep[r]
         \/ pc'[r] \in {"quar.approval", "quar.guard"} /\ ep'[r] = "QUARANTINED_COMMIT"
  BY <1>0 DEF AbortEvent, TypeOK
<1>3. OnlyRun(r) BY <1>0, <1>1 DEF OnlyRun, TypeOK, Snapshots, AbortEvent
<1>4. TypeOK'
  <2>1. (events \in [Runs -> Seq(EventNames)])'
    <3>1. events' = events \/ \E e \in EventNames : events' = [events EXCEPT ![r] = Append(events[r], e)]
      BY <1>0, EventNamesFacts DEF TypeOK, AbortEvent
    <3>2. events[r] \in Seq(EventNames) BY <1>0 DEF TypeOK
    <3>3. \A e \in EventNames : Append(events[r], e) \in Seq(EventNames) BY <3>2, EventFacts
    <3> QED BY <1>0, <3>1, <3>3 DEF TypeOK
  <2>2. (pc \in [Runs -> Steps])'
    <3>1. \E s \in Steps : pc' = [pc EXCEPT ![r] = s] BY StepNames DEF AbortEvent
    <3> QED BY <1>0, <3>1 DEF TypeOK
  <2>3. (ep \in [Runs -> EpisodeStates])' BY <1>0, EpNames DEF AbortEvent, TypeOK
  <2>4. (faults \in Nat)'
    <3>1. faults' = faults \/ faults' = faults + 1 BY Zenon DEF AbortEvent
    <3> QED BY <1>0, <3>1 DEF TypeOK
  <2> QED BY <1>0, <1>1, <2>1, <2>2, <2>3, <2>4 DEF TypeOK
<1>5. holder \in {r, NoProcess} BY <1>0, <1>2 DEF LockInv, Holding, Busy, Waiting
<1>6. SharedInv' BY <1>0, <1>1, <1>2, <1>3, <1>4, SentinelsAssumption
    DEF SharedInv, OnlyRun, TypeOK, LockInv, GuardInv, DataInv, ResultInv, ProgressInv,
    Guarded, Holding, Waiting, Busy, Unsaved, Staging, DirsOf
<1>7. LockInv(r)' BY <1>0, <1>1, <1>2 DEF LockInv, ProgressInv, Holding, Busy, Waiting
<1>8. GuardInv(r)' BY <1>0, <1>1, <1>2, SentinelsAssumption, GuardFacts, GuardNames
    DEF GuardInv, Holding, Busy, Waiting, Guarded, SharedInv, ProgressInv
<1>9. DataInv(r)' BY <1>0, <1>1, <1>2
    DEF DataInv, ProgressInv, Unsaved, Waiting, Staging, DirsOf
<1>10. ResultInv(r)' BY <1>0, <1>1, <1>2 DEF ResultInv, Undecided, ProgressInv, Waiting
<1>11. ProgressInv(r)' BY <1>0, <1>1, <1>2 DEF ProgressInv
<1>12. RetentionInv(r)' BY <1>0, <1>1, <1>2
    DEF RetentionInv, ProgressInv, GuardInv, Guarded, Waiting, Busy
<1> QED BY <1>3, <1>4, <1>5, <1>6, <1>7, <1>8, <1>9, <1>10, <1>11, <1>12, Exclusive DEF RunInv

\* The guard goes last, and the lock with it.
LEMMA ReleaseGuardPreserves ==
  ASSUME Inv, NEW r \in Runs, ReleaseGuard(r) PROVE Inv'
<1>0. TypeOK /\ SharedInv /\ RunInv(r) BY DEF Inv
<1>1. UNCHANGED <<staging, data, total, approved, manifest, events, result, receipt, op, base,
    eof, releasable, rpc, rguard>> BY DEF ReleaseGuard
<1>2. /\ pc[r] = "release"
      /\ op'[r] = op[r]
      /\ (guard' = guard \/ guard' = NoGuard)
      /\ \/ pc'[r] = "ready" /\ ep'[r] = ep[r] /\ guard' = NoGuard /\ holder' = NoProcess
         \/ pc'[r] \in {"quar.approval", "quar.guard"} /\ ep'[r] = "QUARANTINED_COMMIT" /\ holder' = holder
  BY <1>0 DEF ReleaseGuard, TypeOK
<1>3. OnlyRun(r) BY <1>0, <1>1 DEF OnlyRun, TypeOK, Snapshots, ReleaseGuard
<1>4. TypeOK'
  <2>1. (guard \in Guards \cup {NoGuard})' BY <1>0, GuardNames, GuardFacts
      DEF ReleaseGuard, TypeOK
  <2>2. (holder \in Runs \cup Recoverers \cup {NoProcess})' BY <1>0 DEF ReleaseGuard, TypeOK
  <2>3. (pc \in [Runs -> Steps])'
    <3>1. \E s \in Steps : pc' = [pc EXCEPT ![r] = s] BY StepNames DEF ReleaseGuard
    <3> QED BY <1>0, <3>1 DEF TypeOK
  <2>4. (ep \in [Runs -> EpisodeStates])' BY <1>0, EpNames DEF ReleaseGuard, TypeOK
  <2>5. (faults \in Nat)'
    <3>1. faults' = faults \/ faults' = faults + 1 BY Zenon DEF ReleaseGuard
    <3> QED BY <1>0, <3>1 DEF TypeOK
  <2> QED BY <1>0, <1>1, <2>1, <2>2, <2>3, <2>4, <2>5 DEF TypeOK
<1>5. holder \in {r, NoProcess} BY <1>0, <1>2 DEF LockInv, Holding, Busy, Waiting
<1>6. SharedInv'
  <2>1. guard # NoGuard /\ guard.run = r /\ manifest[r] # NoManifest /\ Staging(r) = {} /\ data[r] # "partial"
    BY <1>0, <1>2
        DEF SharedInv, LockInv, GuardInv, DataInv, ResultInv, Undecided, ProgressInv, Guarded,
        Holding, Waiting, Busy, Unsaved
  <2> QED BY <1>0, <1>1, <1>2, <1>3, <1>4, <2>1, SentinelsAssumption, GuardFacts, GuardNames
      DEF SharedInv, OnlyRun, TypeOK, Staging, DirsOf
<1>7. LockInv(r)' BY <1>0, <1>1, <1>2 DEF LockInv, ProgressInv, Holding, Busy, Waiting
<1>8. GuardInv(r)' BY <1>0, <1>1, <1>2, SentinelsAssumption, GuardFacts, GuardNames
    DEF GuardInv, Holding, Busy, Waiting, Guarded, SharedInv, ProgressInv
<1>9. DataInv(r)' BY <1>0, <1>1, <1>2
    DEF DataInv, ProgressInv, Unsaved, Waiting, Staging, DirsOf
<1>10. ResultInv(r)' BY <1>0, <1>1, <1>2 DEF ResultInv, Undecided, ProgressInv, Waiting
<1>11. ProgressInv(r)' BY <1>0, <1>1, <1>2 DEF ProgressInv
<1>12. RetentionInv(r)' BY <1>0, <1>1, <1>2
    DEF RetentionInv, ProgressInv, GuardInv, Guarded, Waiting, Busy
<1> QED BY <1>3, <1>4, <1>5, <1>6, <1>7, <1>8, <1>9, <1>10, <1>11, <1>12, Exclusive DEF RunInv

\* commit starts from FROZEN, or discards when its checks fail.
LEMMA CommitEpisodePreserves ==
  ASSUME Inv, NEW r \in Runs, CommitEpisode(r) PROVE Inv'
<1>0. TypeOK /\ SharedInv /\ RunInv(r) BY DEF Inv
<1>1. UNCHANGED <<guard, staging, data, total, approved, manifest, events, result, receipt,
    holder, base, eof, releasable, rpc, rguard>> BY DEF CommitEpisode
<1>2. /\ pc[r] = "ready" /\ ep[r] = "FROZEN" /\ ep'[r] = "COMMITTING"
      /\ \/ pc'[r] = "commit.guard" /\ op'[r] = "commit"
         \/ pc'[r] = "clear" /\ op'[r] = "precommit"
  BY <1>0 DEF CommitEpisode, TypeOK
<1>3. OnlyRun(r) BY <1>0, <1>1 DEF OnlyRun, TypeOK, Snapshots, CommitEpisode
<1>4. TypeOK'
  <2>1. (pc \in [Runs -> Steps])'
    <3>1. \E s \in Steps : pc' = [pc EXCEPT ![r] = s] BY StepNames DEF CommitEpisode
    <3> QED BY <1>0, <3>1 DEF TypeOK
  <2>2. (op \in [Runs -> Operations])' BY <1>0, OpNames DEF CommitEpisode, TypeOK
  <2>3. (ep \in [Runs -> EpisodeStates])' BY <1>0, EpNames DEF CommitEpisode, TypeOK
  <2>4. (faults \in Nat)'
    <3>1. faults' = faults \/ faults' = faults + 1 BY Zenon DEF CommitEpisode
    <3> QED BY <1>0, <3>1 DEF TypeOK
  <2> QED BY <1>0, <1>1, <2>1, <2>2, <2>3, <2>4 DEF TypeOK
<1>5. holder \in {r, NoProcess} BY <1>0, <1>2 DEF LockInv, Holding, Busy, Waiting
<1>6. SharedInv' BY <1>0, <1>1, <1>2, <1>3, <1>4, SentinelsAssumption
    DEF SharedInv, OnlyRun, TypeOK, LockInv, GuardInv, DataInv, ResultInv, ProgressInv,
    Guarded, Holding, Waiting, Busy, Unsaved, Staging, DirsOf
<1>7. LockInv(r)' BY <1>0, <1>1, <1>2 DEF LockInv, ProgressInv, Holding, Busy, Waiting
<1>8. GuardInv(r)' BY <1>0, <1>1, <1>2, SentinelsAssumption, GuardFacts, GuardNames
    DEF GuardInv, Holding, Busy, Waiting, Guarded, SharedInv, ProgressInv
<1>9. DataInv(r)' BY <1>0, <1>1, <1>2
    DEF DataInv, ProgressInv, Unsaved, Waiting, Staging, DirsOf
<1>10. ResultInv(r)' BY <1>0, <1>1, <1>2 DEF ResultInv, Undecided, ProgressInv, Waiting
<1>11. ProgressInv(r)' BY <1>0, <1>1, <1>2 DEF ProgressInv
<1>12. RetentionInv(r)' BY <1>0, <1>1, <1>2
    DEF RetentionInv, ProgressInv, GuardInv, Guarded, Waiting, Busy
<1> QED BY <1>3, <1>4, <1>5, <1>6, <1>7, <1>8, <1>9, <1>10, <1>11, <1>12, Exclusive DEF RunInv

\* The guard says COMMITTING before anything is saved.
LEMMA CommitGuardPreserves ==
  ASSUME Inv, NEW r \in Runs, CommitGuard(r) PROVE Inv'
<1>0. TypeOK /\ SharedInv /\ RunInv(r) BY DEF Inv
<1>1. UNCHANGED <<staging, data, total, approved, manifest, events, result, receipt, holder,
    ep, base, eof, releasable, rpc, rguard>> BY DEF CommitGuard
<1>2. /\ pc[r] = "commit.guard"
      /\ ep'[r] = ep[r]
      /\ (guard' = guard \/ guard' = [run |-> r, state |-> "COMMITTING"])
      /\ \/ pc'[r] = "save" /\ op'[r] = op[r] /\ guard' = [run |-> r, state |-> "COMMITTING"]
         \/ pc'[r] = "clear" /\ op'[r] = "precommit"
  BY <1>0 DEF CommitGuard, TypeOK
<1>3. OnlyRun(r) BY <1>0, <1>1 DEF OnlyRun, TypeOK, Snapshots, CommitGuard
<1>4. TypeOK'
  <2>1. (guard \in Guards \cup {NoGuard})' BY <1>0, GuardNames, GuardFacts
      DEF CommitGuard, TypeOK
  <2>2. (pc \in [Runs -> Steps])'
    <3>1. \E s \in Steps : pc' = [pc EXCEPT ![r] = s] BY StepNames DEF CommitGuard
    <3> QED BY <1>0, <3>1 DEF TypeOK
  <2>3. (op \in [Runs -> Operations])' BY <1>0, OpNames DEF CommitGuard, TypeOK
  <2>4. (faults \in Nat)'
    <3>1. faults' = faults \/ faults' = faults + 1 BY Zenon DEF CommitGuard
    <3> QED BY <1>0, <3>1 DEF TypeOK
  <2> QED BY <1>0, <1>1, <2>1, <2>2, <2>3, <2>4 DEF TypeOK
<1>5. holder \in {r, NoProcess} BY <1>0, <1>2 DEF LockInv, Holding, Busy, Waiting
<1>6. SharedInv'
  <2>1. guard # NoGuard /\ guard.run = r /\ manifest[r] # NoManifest /\ data[r] = "none"
    BY <1>0, <1>2
        DEF SharedInv, LockInv, GuardInv, DataInv, ResultInv, Undecided, ProgressInv, Guarded,
        Holding, Waiting, Busy, Unsaved
  <2> QED BY <1>0, <1>1, <1>2, <1>3, <1>4, <2>1, SentinelsAssumption, GuardFacts, GuardNames
      DEF SharedInv, OnlyRun, TypeOK, Staging, DirsOf
<1>7. LockInv(r)' BY <1>0, <1>1, <1>2 DEF LockInv, ProgressInv, Holding, Busy, Waiting
<1>8. GuardInv(r)' BY <1>0, <1>1, <1>2, SentinelsAssumption, GuardFacts, GuardNames
    DEF GuardInv, Holding, Busy, Waiting, Guarded, SharedInv, ProgressInv
<1>9. DataInv(r)' BY <1>0, <1>1, <1>2
    DEF DataInv, ProgressInv, Unsaved, Waiting, Staging, DirsOf
<1>10. ResultInv(r)' BY <1>0, <1>1, <1>2 DEF ResultInv, Undecided, ProgressInv, Waiting
<1>11. ProgressInv(r)' BY <1>0, <1>1, <1>2 DEF ProgressInv
<1>12. RetentionInv(r)' BY <1>0, <1>1, <1>2
    DEF RetentionInv, ProgressInv, GuardInv, Guarded, Waiting, Busy
<1> QED BY <1>3, <1>4, <1>5, <1>6, <1>7, <1>8, <1>9, <1>10, <1>11, <1>12, Exclusive DEF RunInv

\* From here on the run's episode is partial and its guard COMMITTING.
LEMMA SaveStartsPreserves ==
  ASSUME Inv, NEW r \in Runs, SaveStarts(r) PROVE Inv'
<1>0. TypeOK /\ SharedInv /\ RunInv(r) BY DEF Inv
<1>1. UNCHANGED <<guard, staging, total, approved, manifest, events, result, receipt, holder,
    op, base, eof, releasable, rpc, rguard>> BY DEF SaveStarts
<1>2. /\ pc[r] = "save"
      /\ op'[r] = op[r]
      /\ \/ pc'[r] = "saving" /\ ep'[r] = ep[r] /\ data'[r] = "partial"
         \/ pc'[r] \in {"quar.approval", "quar.guard"} /\ ep'[r] = "QUARANTINED_COMMIT"
      /\ data'[r] \in {data[r], "partial"}
  BY <1>0 DEF SaveStarts, TypeOK, Snapshots
<1>3. OnlyRun(r) BY <1>0, <1>1 DEF OnlyRun, TypeOK, Snapshots, SaveStarts
<1>4. TypeOK'
  <2>1. (data \in Snapshots)'
    <3>1. data' = data \/ \E state \in DataStates : data' = [data EXCEPT ![r] = state]
      BY DEF SaveStarts, DataStates
    <3> QED BY <1>0, <3>1 DEF TypeOK, Snapshots
  <2>2. (pc \in [Runs -> Steps])'
    <3>1. \E s \in Steps : pc' = [pc EXCEPT ![r] = s] BY StepNames DEF SaveStarts
    <3> QED BY <1>0, <3>1 DEF TypeOK
  <2>3. (ep \in [Runs -> EpisodeStates])' BY <1>0, EpNames DEF SaveStarts, TypeOK
  <2>4. (faults \in Nat)'
    <3>1. faults' = faults \/ faults' = faults + 1 BY Zenon DEF SaveStarts
    <3> QED BY <1>0, <3>1 DEF TypeOK
  <2> QED BY <1>0, <1>1, <2>1, <2>2, <2>3, <2>4 DEF TypeOK
<1>5. holder \in {r, NoProcess} BY <1>0, <1>2 DEF LockInv, Holding, Busy, Waiting
<1>6. SharedInv'
  <2>1. guard # NoGuard /\ guard.run = r /\ manifest[r] # NoManifest /\ guard.state = "COMMITTING" /\ data[r] = "none" /\ result[r] \notin {"ABORTED", "COMMITTED"}
    BY <1>0, <1>2
        DEF SharedInv, LockInv, GuardInv, DataInv, ResultInv, Undecided, ProgressInv, Guarded,
        Holding, Waiting, Busy, Unsaved
  <2>2. \A q \in Runs : data'[q] = "partial" => q = r
    BY <1>0, <1>3, <2>1, SentinelsAssumption DEF SharedInv, OnlyRun
  <2>3. \A q \in Runs : /\ result'[q] = "COMMITTED" => data'[q] = "complete"
                       /\ result'[q] = "ABORTED" => data'[q] = "none"
    BY <1>0, <1>1, <1>3, <2>1 DEF SharedInv, OnlyRun
  <2>4. guard'.state \notin {"RECORDING", "FROZEN"} BY <1>0, <1>1, <2>1, SentinelsAssumption
      DEF SharedInv
  <2> QED BY <1>0, <1>1, <1>2, <1>3, <2>1, <2>2, <2>3, <2>4 DEF SharedInv, OnlyRun
<1>7. LockInv(r)' BY <1>0, <1>1, <1>2 DEF LockInv, ProgressInv, Holding, Busy, Waiting
<1>8. GuardInv(r)' BY <1>0, <1>1, <1>2, SentinelsAssumption, GuardFacts, GuardNames
    DEF GuardInv, Holding, Busy, Waiting, Guarded, SharedInv, ProgressInv
<1>9. DataInv(r)' BY <1>0, <1>1, <1>2
    DEF DataInv, ProgressInv, Unsaved, Waiting, Staging, DirsOf
<1>10. ResultInv(r)' BY <1>0, <1>1, <1>2 DEF ResultInv, Undecided, ProgressInv, Waiting
<1>11. ProgressInv(r)' BY <1>0, <1>1, <1>2 DEF ProgressInv
<1>12. RetentionInv(r)' BY <1>0, <1>1, <1>2
    DEF RetentionInv, ProgressInv, GuardInv, Guarded, Waiting, Busy
<1> QED BY <1>3, <1>4, <1>5, <1>6, <1>7, <1>8, <1>9, <1>10, <1>11, <1>12, Exclusive DEF RunInv

\* The save consumes the staging.
LEMMA SaveEndsPreserves ==
  ASSUME Inv, NEW r \in Runs, SaveEnds(r) PROVE Inv'
<1>0. TypeOK /\ SharedInv /\ RunInv(r) BY DEF Inv
<1>1. UNCHANGED <<guard, data, approved, manifest, events, result, receipt, holder, op, base,
    eof, releasable, rpc, rguard>> BY DEF SaveEnds
<1>2. /\ pc[r] = "saving"
      /\ op'[r] = op[r]
      /\ \/ pc'[r] = "publish" /\ ep'[r] = ep[r] /\ Staging(r)' = {}
         \/ pc'[r] \in {"quar.approval", "quar.guard"} /\ ep'[r] = "QUARANTINED_COMMIT"
      /\ staging' \subseteq staging
  BY <1>0 DEF SaveEnds, TypeOK, Staging, DirsOf, OwnedBy, Directories
<1>3. OnlyRun(r) BY <1>0, <1>1 DEF OnlyRun, TypeOK, Snapshots, SaveEnds
<1>4. TypeOK'
  <2>1. (staging \subseteq Directories)' BY <1>0 DEF SaveEnds, TypeOK
  <2>2. (total \in Nat)' BY <1>0 DEF SaveEnds, TypeOK
  <2>3. (pc \in [Runs -> Steps])'
    <3>1. \E s \in Steps : pc' = [pc EXCEPT ![r] = s] BY StepNames DEF SaveEnds
    <3> QED BY <1>0, <3>1 DEF TypeOK
  <2>4. (ep \in [Runs -> EpisodeStates])' BY <1>0, EpNames DEF SaveEnds, TypeOK
  <2>5. (faults \in Nat)'
    <3>1. faults' = faults \/ faults' = faults + 1 BY Zenon DEF SaveEnds
    <3> QED BY <1>0, <3>1 DEF TypeOK
  <2> QED BY <1>0, <1>1, <2>1, <2>2, <2>3, <2>4, <2>5 DEF TypeOK
<1>5. holder \in {r, NoProcess} BY <1>0, <1>2 DEF LockInv, Holding, Busy, Waiting
<1>6. SharedInv' BY <1>0, <1>1, <1>2, <1>3, <1>4, SentinelsAssumption
    DEF SharedInv, OnlyRun, TypeOK, LockInv, GuardInv, DataInv, ResultInv, ProgressInv,
    Guarded, Holding, Waiting, Busy, Unsaved, Staging, DirsOf
<1>7. LockInv(r)' BY <1>0, <1>1, <1>2 DEF LockInv, ProgressInv, Holding, Busy, Waiting
<1>8. GuardInv(r)' BY <1>0, <1>1, <1>2, SentinelsAssumption, GuardFacts, GuardNames
    DEF GuardInv, Holding, Busy, Waiting, Guarded, SharedInv, ProgressInv
<1>9. DataInv(r)' BY <1>0, <1>1, <1>2
    DEF DataInv, ProgressInv, Unsaved, Waiting, Staging, DirsOf
<1>10. ResultInv(r)' BY <1>0, <1>1, <1>2 DEF ResultInv, Undecided, ProgressInv, Waiting
<1>11. ProgressInv(r)' BY <1>0, <1>1, <1>2 DEF ProgressInv
<1>12. RetentionInv(r)' BY <1>0, <1>1, <1>2
    DEF RetentionInv, ProgressInv, GuardInv, Guarded, Waiting, Busy
<1> QED BY <1>3, <1>4, <1>5, <1>6, <1>7, <1>8, <1>9, <1>10, <1>11, <1>12, Exclusive DEF RunInv

\* Publication makes the episode whole.
LEMMA PublishEpisodePreserves ==
  ASSUME Inv, NEW r \in Runs, PublishEpisode(r) PROVE Inv'
<1>0. TypeOK /\ SharedInv /\ RunInv(r) BY DEF Inv
<1>1. UNCHANGED <<guard, staging, total, approved, manifest, events, result, receipt, holder,
    op, base, eof, releasable, rpc, rguard>> BY DEF PublishEpisode
<1>2. /\ pc[r] = "publish"
      /\ op'[r] = op[r]
      /\ \/ pc'[r] = "commit.event" /\ ep'[r] = "COMMITTED" /\ data'[r] = "complete"
         \/ pc'[r] \in {"quar.approval", "quar.guard"} /\ ep'[r] = "QUARANTINED_COMMIT"
      /\ data'[r] \in {data[r], "complete"}
  BY <1>0 DEF PublishEpisode, TypeOK, Snapshots
<1>3. OnlyRun(r) BY <1>0, <1>1 DEF OnlyRun, TypeOK, Snapshots, PublishEpisode
<1>4. TypeOK'
  <2>1. (data \in Snapshots)'
    <3>1. data' = data \/ \E state \in DataStates : data' = [data EXCEPT ![r] = state]
      BY DEF PublishEpisode, DataStates
    <3> QED BY <1>0, <3>1 DEF TypeOK, Snapshots
  <2>2. (pc \in [Runs -> Steps])'
    <3>1. \E s \in Steps : pc' = [pc EXCEPT ![r] = s] BY StepNames DEF PublishEpisode
    <3> QED BY <1>0, <3>1 DEF TypeOK
  <2>3. (ep \in [Runs -> EpisodeStates])' BY <1>0, EpNames DEF PublishEpisode, TypeOK
  <2>4. (faults \in Nat)'
    <3>1. faults' = faults \/ faults' = faults + 1 BY Zenon DEF PublishEpisode
    <3> QED BY <1>0, <3>1 DEF TypeOK
  <2> QED BY <1>0, <1>1, <2>1, <2>2, <2>3, <2>4 DEF TypeOK
<1>5. holder \in {r, NoProcess} BY <1>0, <1>2 DEF LockInv, Holding, Busy, Waiting
<1>6. SharedInv'
  <2>1. guard # NoGuard /\ guard.run = r /\ manifest[r] # NoManifest /\ data[r] = "partial" /\ result[r] \notin {"ABORTED", "COMMITTED"}
    BY <1>0, <1>2
        DEF SharedInv, LockInv, GuardInv, DataInv, ResultInv, Undecided, ProgressInv, Guarded,
        Holding, Waiting, Busy, Unsaved
  <2>2. \A q \in Runs : data'[q] = "partial" => q = r
    BY <1>0, <1>3, <2>1, SentinelsAssumption DEF SharedInv, OnlyRun
  <2>3. \A q \in Runs : /\ result'[q] = "COMMITTED" => data'[q] = "complete"
                       /\ result'[q] = "ABORTED" => data'[q] = "none"
    BY <1>0, <1>1, <1>3, <2>1 DEF SharedInv, OnlyRun
  <2>4. guard'.state \notin {"RECORDING", "FROZEN"} BY <1>0, <1>1, <2>1, SentinelsAssumption
      DEF SharedInv
  <2> QED BY <1>0, <1>1, <1>2, <1>3, <2>1, <2>2, <2>3, <2>4 DEF SharedInv, OnlyRun
<1>7. LockInv(r)' BY <1>0, <1>1, <1>2 DEF LockInv, ProgressInv, Holding, Busy, Waiting
<1>8. GuardInv(r)' BY <1>0, <1>1, <1>2, SentinelsAssumption, GuardFacts, GuardNames
    DEF GuardInv, Holding, Busy, Waiting, Guarded, SharedInv, ProgressInv
<1>9. DataInv(r)' BY <1>0, <1>1, <1>2
    DEF DataInv, ProgressInv, Unsaved, Waiting, Staging, DirsOf
<1>10. ResultInv(r)' BY <1>0, <1>1, <1>2 DEF ResultInv, Undecided, ProgressInv, Waiting
<1>11. ProgressInv(r)' BY <1>0, <1>1, <1>2 DEF ProgressInv
<1>12. RetentionInv(r)' BY <1>0, <1>1, <1>2
    DEF RetentionInv, ProgressInv, GuardInv, Guarded, Waiting, Busy
<1> QED BY <1>3, <1>4, <1>5, <1>6, <1>7, <1>8, <1>9, <1>10, <1>11, <1>12, Exclusive DEF RunInv

\* The journal says COMMITTED of a whole episode.
LEMMA CommitEventPreserves ==
  ASSUME Inv, NEW r \in Runs, CommitEvent(r) PROVE Inv'
<1>0. TypeOK /\ SharedInv /\ RunInv(r) BY DEF Inv
<1>1. UNCHANGED <<guard, staging, data, total, approved, manifest, result, receipt, holder,
    op, base, eof, releasable, rpc, rguard>> BY DEF CommitEvent
<1>2. /\ pc[r] = "commit.event"
      /\ op'[r] = op[r]
      /\ \/ pc'[r] = "commit.result" /\ ep'[r] = ep[r]
         \/ pc'[r] \in {"quar.approval", "quar.guard"} /\ ep'[r] = "QUARANTINED_COMMIT"
  BY <1>0 DEF CommitEvent, TypeOK
<1>3. OnlyRun(r) BY <1>0, <1>1 DEF OnlyRun, TypeOK, Snapshots, CommitEvent
<1>4. TypeOK'
  <2>1. (events \in [Runs -> Seq(EventNames)])'
    <3>1. events' = events \/ \E e \in EventNames : events' = [events EXCEPT ![r] = Append(events[r], e)]
      BY <1>0, EventNamesFacts DEF TypeOK, CommitEvent
    <3>2. events[r] \in Seq(EventNames) BY <1>0 DEF TypeOK
    <3>3. \A e \in EventNames : Append(events[r], e) \in Seq(EventNames) BY <3>2, EventFacts
    <3> QED BY <1>0, <3>1, <3>3 DEF TypeOK
  <2>2. (pc \in [Runs -> Steps])'
    <3>1. \E s \in Steps : pc' = [pc EXCEPT ![r] = s] BY StepNames DEF CommitEvent
    <3> QED BY <1>0, <3>1 DEF TypeOK
  <2>3. (ep \in [Runs -> EpisodeStates])' BY <1>0, EpNames DEF CommitEvent, TypeOK
  <2>4. (faults \in Nat)'
    <3>1. faults' = faults \/ faults' = faults + 1 BY Zenon DEF CommitEvent
    <3> QED BY <1>0, <3>1 DEF TypeOK
  <2> QED BY <1>0, <1>1, <2>1, <2>2, <2>3, <2>4 DEF TypeOK
<1>5. holder \in {r, NoProcess} BY <1>0, <1>2 DEF LockInv, Holding, Busy, Waiting
<1>6. SharedInv' BY <1>0, <1>1, <1>2, <1>3, <1>4, SentinelsAssumption
    DEF SharedInv, OnlyRun, TypeOK, LockInv, GuardInv, DataInv, ResultInv, ProgressInv,
    Guarded, Holding, Waiting, Busy, Unsaved, Staging, DirsOf
<1>7. LockInv(r)' BY <1>0, <1>1, <1>2 DEF LockInv, ProgressInv, Holding, Busy, Waiting
<1>8. GuardInv(r)' BY <1>0, <1>1, <1>2, SentinelsAssumption, GuardFacts, GuardNames
    DEF GuardInv, Holding, Busy, Waiting, Guarded, SharedInv, ProgressInv
<1>9. DataInv(r)' BY <1>0, <1>1, <1>2
    DEF DataInv, ProgressInv, Unsaved, Waiting, Staging, DirsOf
<1>10. ResultInv(r)' BY <1>0, <1>1, <1>2 DEF ResultInv, Undecided, ProgressInv, Waiting
<1>11. ProgressInv(r)' BY <1>0, <1>1, <1>2 DEF ProgressInv
<1>12. RetentionInv(r)' BY <1>0, <1>1, <1>2
    DEF RetentionInv, ProgressInv, GuardInv, Guarded, Waiting, Busy
<1> QED BY <1>3, <1>4, <1>5, <1>6, <1>7, <1>8, <1>9, <1>10, <1>11, <1>12, Exclusive DEF RunInv

\* The result says COMMITTED of a whole episode.
LEMMA CommitResultPreserves ==
  ASSUME Inv, NEW r \in Runs, CommitResult(r) PROVE Inv'
<1>0. TypeOK /\ SharedInv /\ RunInv(r) BY DEF Inv
<1>1. UNCHANGED <<guard, staging, data, total, approved, manifest, events, receipt, holder,
    op, base, eof, releasable, rpc, rguard>> BY DEF CommitResult
<1>2. /\ pc[r] = "commit.result"
      /\ op'[r] = op[r]
      /\ \/ pc'[r] = "release" /\ ep'[r] = ep[r] /\ result'[r] = "COMMITTED"
         \/ pc'[r] \in {"quar.approval", "quar.guard"} /\ ep'[r] = "QUARANTINED_COMMIT"
      /\ result'[r] \in {result[r], "COMMITTED"}
  BY <1>0 DEF CommitResult, TypeOK
<1>3. OnlyRun(r) BY <1>0, <1>1 DEF OnlyRun, TypeOK, Snapshots, CommitResult
<1>4. TypeOK'
  <2>1. (result \in [Runs -> {"none", "ABORTED", "COMMITTED", "QUARANTINED_COMMIT"}])' BY <1>0
      DEF CommitResult, TypeOK
  <2>2. (pc \in [Runs -> Steps])'
    <3>1. \E s \in Steps : pc' = [pc EXCEPT ![r] = s] BY StepNames DEF CommitResult
    <3> QED BY <1>0, <3>1 DEF TypeOK
  <2>3. (ep \in [Runs -> EpisodeStates])' BY <1>0, EpNames DEF CommitResult, TypeOK
  <2>4. (faults \in Nat)'
    <3>1. faults' = faults \/ faults' = faults + 1 BY Zenon DEF CommitResult
    <3> QED BY <1>0, <3>1 DEF TypeOK
  <2> QED BY <1>0, <1>1, <2>1, <2>2, <2>3, <2>4 DEF TypeOK
<1>5. holder \in {r, NoProcess} BY <1>0, <1>2 DEF LockInv, Holding, Busy, Waiting
<1>6. SharedInv' BY <1>0, <1>1, <1>2, <1>3, <1>4, SentinelsAssumption
    DEF SharedInv, OnlyRun, TypeOK, LockInv, GuardInv, DataInv, ResultInv, ProgressInv,
    Guarded, Holding, Waiting, Busy, Unsaved, Staging, DirsOf
<1>7. LockInv(r)' BY <1>0, <1>1, <1>2 DEF LockInv, ProgressInv, Holding, Busy, Waiting
<1>8. GuardInv(r)' BY <1>0, <1>1, <1>2, SentinelsAssumption, GuardFacts, GuardNames
    DEF GuardInv, Holding, Busy, Waiting, Guarded, SharedInv, ProgressInv
<1>9. DataInv(r)' BY <1>0, <1>1, <1>2
    DEF DataInv, ProgressInv, Unsaved, Waiting, Staging, DirsOf
<1>10. ResultInv(r)' BY <1>0, <1>1, <1>2 DEF ResultInv, Undecided, ProgressInv, Waiting
<1>11. ProgressInv(r)' BY <1>0, <1>1, <1>2 DEF ProgressInv
<1>12. RetentionInv(r)' BY <1>0, <1>1, <1>2
    DEF RetentionInv, ProgressInv, GuardInv, Guarded, Waiting, Busy
<1> QED BY <1>3, <1>4, <1>5, <1>6, <1>7, <1>8, <1>9, <1>10, <1>11, <1>12, Exclusive DEF RunInv

\* retain freezes a recording episode first.
LEMMA RetainCommandPreserves ==
  ASSUME Inv, NEW r \in Runs, RetainCommand(r) PROVE Inv'
<1>0. TypeOK /\ SharedInv /\ RunInv(r) BY DEF Inv
<1>1. UNCHANGED <<guard, staging, data, total, approved, manifest, events, result, receipt,
    holder, ep, base, eof, releasable, rpc, rguard, faults>> BY DEF RetainCommand
<1>2. /\ pc[r] = "ready" /\ ep[r] \in {"RECORDING", "FROZEN"}
      /\ op'[r] = "retain" /\ ep'[r] = ep[r]
      /\ pc'[r] = IF ep[r] = "RECORDING" THEN "freeze" ELSE "retain.check"
  BY <1>0 DEF RetainCommand, TypeOK
<1>3. OnlyRun(r) BY <1>0, <1>1 DEF OnlyRun, TypeOK, Snapshots, RetainCommand
<1>4. TypeOK'
  <2>1. (pc \in [Runs -> Steps])'
    <3>1. \E s \in Steps : pc' = [pc EXCEPT ![r] = s] BY StepNames DEF RetainCommand
    <3> QED BY <1>0, <3>1 DEF TypeOK
  <2>2. (op \in [Runs -> Operations])' BY <1>0, OpNames DEF RetainCommand, TypeOK
  <2> QED BY <1>0, <1>1, <2>1, <2>2 DEF TypeOK
<1>5. holder \in {r, NoProcess} BY <1>0, <1>2 DEF LockInv, Holding, Busy, Waiting
<1>6. SharedInv' BY <1>0, <1>1, <1>2, <1>3, <1>4, SentinelsAssumption
    DEF SharedInv, OnlyRun, TypeOK, LockInv, GuardInv, DataInv, ResultInv, ProgressInv,
    Guarded, Holding, Waiting, Busy, Unsaved, Staging, DirsOf
<1>7. LockInv(r)' BY <1>0, <1>1, <1>2 DEF LockInv, ProgressInv, Holding, Busy, Waiting
<1>8. GuardInv(r)' BY <1>0, <1>1, <1>2, SentinelsAssumption, GuardFacts, GuardNames
    DEF GuardInv, Holding, Busy, Waiting, Guarded, SharedInv, ProgressInv
<1>9. DataInv(r)' BY <1>0, <1>1, <1>2
    DEF DataInv, ProgressInv, Unsaved, Waiting, Staging, DirsOf
<1>10. ResultInv(r)' BY <1>0, <1>1, <1>2 DEF ResultInv, Undecided, ProgressInv, Waiting
<1>11. ProgressInv(r)' BY <1>0, <1>1, <1>2 DEF ProgressInv
<1>12. RetentionInv(r)' BY <1>0, <1>1, <1>2
    DEF RetentionInv, ProgressInv, GuardInv, Guarded, Waiting, Busy
<1> QED BY <1>3, <1>4, <1>5, <1>6, <1>7, <1>8, <1>9, <1>10, <1>11, <1>12, Exclusive DEF RunInv

\* A source that can be read is retained under quarantine.
LEMMA RetainCheckPreserves ==
  ASSUME Inv, NEW r \in Runs, RetainCheck(r) PROVE Inv'
<1>0. TypeOK /\ SharedInv /\ RunInv(r) BY DEF Inv
<1>1. UNCHANGED <<guard, staging, data, total, approved, manifest, events, result, receipt,
    holder, base, eof, rpc, rguard, faults>> BY DEF RetainCheck
<1>2. /\ pc[r] = "retain.check"
      /\ \/ pc'[r] = "retain.guard" /\ op'[r] = "retaining" /\ ep'[r] = "QUARANTINED_COMMIT"
         \/ pc'[r] = "ready" /\ op'[r] = op[r] /\ ep'[r] = ep[r]
  BY <1>0 DEF RetainCheck, TypeOK
<1>3. OnlyRun(r) BY <1>0, <1>1 DEF OnlyRun, TypeOK, Snapshots, RetainCheck
<1>4. TypeOK'
  <2>1. (pc \in [Runs -> Steps])'
    <3>1. pc' = [pc EXCEPT ![r] = "retain.guard"] \/ pc' = [pc EXCEPT ![r] = "ready"] BY Zenon
        DEF RetainCheck
    <3> QED BY <1>0, <3>1, StepNames DEF TypeOK
  <2>2. (op \in [Runs -> Operations])'
    <3>1. op' = [op EXCEPT ![r] = "retaining"] \/ op' = op BY Zenon DEF RetainCheck
    <3> QED BY <1>0, <3>1, OpNames DEF TypeOK
  <2>3. (ep \in [Runs -> EpisodeStates])' BY <1>0, EpNames DEF RetainCheck, TypeOK
  <2>4. (releasable \in [Runs -> BOOLEAN])' BY <1>0 DEF RetainCheck, TypeOK
  <2> QED BY <1>0, <1>1, <2>1, <2>2, <2>3, <2>4 DEF TypeOK
<1>5. holder \in {r, NoProcess} BY <1>0, <1>2 DEF LockInv, Holding, Busy, Waiting
<1>6. SharedInv' BY <1>0, <1>1, <1>2, <1>3, <1>4, SentinelsAssumption
    DEF SharedInv, OnlyRun, TypeOK, LockInv, GuardInv, DataInv, ResultInv, ProgressInv,
    Guarded, Holding, Waiting, Busy, Unsaved, Staging, DirsOf
<1>7. LockInv(r)' BY <1>0, <1>1, <1>2 DEF LockInv, ProgressInv, Holding, Busy, Waiting
<1>8. GuardInv(r)' BY <1>0, <1>1, <1>2, SentinelsAssumption, GuardFacts, GuardNames
    DEF GuardInv, Holding, Busy, Waiting, Guarded, SharedInv, ProgressInv
<1>9. DataInv(r)' BY <1>0, <1>1, <1>2
    DEF DataInv, ProgressInv, Unsaved, Waiting, Staging, DirsOf
<1>10. ResultInv(r)' BY <1>0, <1>1, <1>2 DEF ResultInv, Undecided, ProgressInv, Waiting
<1>11. ProgressInv(r)' BY <1>0, <1>1, <1>2 DEF ProgressInv
<1>12. RetentionInv(r)' BY <1>0, <1>1, <1>2
    DEF RetentionInv, ProgressInv, GuardInv, Guarded, Waiting, Busy
<1> QED BY <1>3, <1>4, <1>5, <1>6, <1>7, <1>8, <1>9, <1>10, <1>11, <1>12, Exclusive DEF RunInv

\* The guard is quarantined before the copy is published.
LEMMA RetainGuardPreserves ==
  ASSUME Inv, NEW r \in Runs, RetainGuard(r) PROVE Inv'
<1>0. TypeOK /\ SharedInv /\ RunInv(r) BY DEF Inv
<1>1. UNCHANGED <<staging, data, total, approved, manifest, events, result, receipt, holder,
    op, base, eof, releasable, rpc, rguard>> BY DEF RetainGuard
<1>2. /\ pc[r] = "retain.guard"
      /\ op'[r] = op[r]
      /\ \/ pc'[r] = "retain.publish" /\ ep'[r] = ep[r]
         \/ pc'[r] \in {"quar.approval", "quar.guard"} /\ ep'[r] = "QUARANTINED_COMMIT"
      /\ (guard' = guard \/ guard' = [run |-> r, state |-> "QUARANTINED_COMMIT"])
  BY <1>0 DEF RetainGuard, TypeOK
<1>3. OnlyRun(r) BY <1>0, <1>1 DEF OnlyRun, TypeOK, Snapshots, RetainGuard
<1>4. TypeOK'
  <2>1. (guard \in Guards \cup {NoGuard})' BY <1>0, GuardNames, GuardFacts
      DEF RetainGuard, TypeOK
  <2>2. (pc \in [Runs -> Steps])'
    <3>1. \E s \in Steps : pc' = [pc EXCEPT ![r] = s] BY StepNames DEF RetainGuard
    <3> QED BY <1>0, <3>1 DEF TypeOK
  <2>3. (ep \in [Runs -> EpisodeStates])' BY <1>0, EpNames DEF RetainGuard, TypeOK
  <2>4. (faults \in Nat)'
    <3>1. faults' = faults \/ faults' = faults + 1 BY Zenon DEF RetainGuard
    <3> QED BY <1>0, <3>1 DEF TypeOK
  <2> QED BY <1>0, <1>1, <2>1, <2>2, <2>3, <2>4 DEF TypeOK
<1>5. holder \in {r, NoProcess} BY <1>0, <1>2 DEF LockInv, Holding, Busy, Waiting
<1>6. SharedInv'
  <2>1. guard # NoGuard /\ guard.run = r /\ manifest[r] # NoManifest
    BY <1>0, <1>2
        DEF SharedInv, LockInv, GuardInv, DataInv, ResultInv, Undecided, ProgressInv, Guarded,
        Holding, Waiting, Busy, Unsaved
  <2> QED BY <1>0, <1>1, <1>2, <1>3, <1>4, <2>1, SentinelsAssumption, GuardFacts, GuardNames
      DEF SharedInv, OnlyRun, TypeOK, Staging, DirsOf
<1>7. LockInv(r)' BY <1>0, <1>1, <1>2 DEF LockInv, ProgressInv, Holding, Busy, Waiting
<1>8. GuardInv(r)' BY <1>0, <1>1, <1>2, SentinelsAssumption, GuardFacts, GuardNames
    DEF GuardInv, Holding, Busy, Waiting, Guarded, SharedInv, ProgressInv
<1>9. DataInv(r)' BY <1>0, <1>1, <1>2
    DEF DataInv, ProgressInv, Unsaved, Waiting, Staging, DirsOf
<1>10. ResultInv(r)' BY <1>0, <1>1, <1>2 DEF ResultInv, Undecided, ProgressInv, Waiting
<1>11. ProgressInv(r)' BY <1>0, <1>1, <1>2 DEF ProgressInv
<1>12. RetentionInv(r)' BY <1>0, <1>1, <1>2
    DEF RetentionInv, ProgressInv, GuardInv, Guarded, Waiting, Busy
<1> QED BY <1>3, <1>4, <1>5, <1>6, <1>7, <1>8, <1>9, <1>10, <1>11, <1>12, Exclusive DEF RunInv

\* Only a full copy of a sound source goes on to release it.
LEMMA RetainPublishPreserves ==
  ASSUME Inv, NEW r \in Runs, RetainPublish(r) PROVE Inv'
<1>0. TypeOK /\ SharedInv /\ RunInv(r) BY DEF Inv
<1>1. UNCHANGED <<guard, staging, data, total, approved, manifest, events, result, holder, op,
    base, eof, releasable, rpc, rguard>> BY DEF RetainPublish
<1>2. /\ pc[r] = "retain.publish"
      /\ op'[r] = op[r]
      /\ \/ pc'[r] = "retain.recheck" /\ ep'[r] = ep[r] /\ receipt'[r] = "full"
         \/ pc'[r] = "retain.result" /\ ep'[r] = ep[r]
         \/ pc'[r] \in {"quar.approval", "quar.guard"} /\ ep'[r] = "QUARANTINED_COMMIT"
  BY <1>0 DEF RetainPublish, TypeOK
<1>3. OnlyRun(r) BY <1>0, <1>1 DEF OnlyRun, TypeOK, Snapshots, RetainPublish
<1>4. TypeOK'
  <2>1. (receipt \in [Runs -> {"none", "partial", "full"}])' BY <1>0 DEF RetainPublish, TypeOK
  <2>2. (pc \in [Runs -> Steps])'
    <3>1. \E s \in Steps : pc' = [pc EXCEPT ![r] = s] BY StepNames DEF RetainPublish
    <3> QED BY <1>0, <3>1 DEF TypeOK
  <2>3. (ep \in [Runs -> EpisodeStates])' BY <1>0, EpNames DEF RetainPublish, TypeOK
  <2>4. (faults \in Nat)'
    <3>1. faults' = faults \/ faults' = faults + 1 BY Zenon DEF RetainPublish
    <3> QED BY <1>0, <3>1 DEF TypeOK
  <2> QED BY <1>0, <1>1, <2>1, <2>2, <2>3, <2>4 DEF TypeOK
<1>5. holder \in {r, NoProcess} BY <1>0, <1>2 DEF LockInv, Holding, Busy, Waiting
<1>6. SharedInv' BY <1>0, <1>1, <1>2, <1>3, <1>4, SentinelsAssumption
    DEF SharedInv, OnlyRun, TypeOK, LockInv, GuardInv, DataInv, ResultInv, ProgressInv,
    Guarded, Holding, Waiting, Busy, Unsaved, Staging, DirsOf
<1>7. LockInv(r)' BY <1>0, <1>1, <1>2 DEF LockInv, ProgressInv, Holding, Busy, Waiting
<1>8. GuardInv(r)' BY <1>0, <1>1, <1>2, SentinelsAssumption, GuardFacts, GuardNames
    DEF GuardInv, Holding, Busy, Waiting, Guarded, SharedInv, ProgressInv
<1>9. DataInv(r)' BY <1>0, <1>1, <1>2
    DEF DataInv, ProgressInv, Unsaved, Waiting, Staging, DirsOf
<1>10. ResultInv(r)' BY <1>0, <1>1, <1>2 DEF ResultInv, Undecided, ProgressInv, Waiting
<1>11. ProgressInv(r)' BY <1>0, <1>1, <1>2 DEF ProgressInv
<1>12. RetentionInv(r)' BY <1>0, <1>1, <1>2
    DEF RetentionInv, ProgressInv, GuardInv, Guarded, Waiting, Busy
<1> QED BY <1>3, <1>4, <1>5, <1>6, <1>7, <1>8, <1>9, <1>10, <1>11, <1>12, Exclusive DEF RunInv

\* The source is checked again before it is cleared.
LEMMA RetainRecheckPreserves ==
  ASSUME Inv, NEW r \in Runs, RetainRecheck(r) PROVE Inv'
<1>0. TypeOK /\ SharedInv /\ RunInv(r) BY DEF Inv
<1>1. UNCHANGED <<guard, staging, data, total, approved, manifest, events, result, receipt,
    holder, op, base, eof, releasable, rpc, rguard, faults>> BY DEF RetainRecheck
<1>2. /\ pc[r] = "retain.recheck"
      /\ op'[r] = op[r]
      /\ \/ pc'[r] = "clear" /\ ep'[r] = ep[r]
         \/ pc'[r] \in {"quar.approval", "quar.guard"} /\ ep'[r] = "QUARANTINED_COMMIT"
  BY <1>0 DEF RetainRecheck, TypeOK
<1>3. OnlyRun(r) BY <1>0, <1>1 DEF OnlyRun, TypeOK, Snapshots, RetainRecheck
<1>4. TypeOK'
  <2>1. (pc \in [Runs -> Steps])'
    <3>1. \E s \in Steps : pc' = [pc EXCEPT ![r] = s] BY StepNames DEF RetainRecheck
    <3> QED BY <1>0, <3>1 DEF TypeOK
  <2>2. (ep \in [Runs -> EpisodeStates])' BY <1>0, EpNames DEF RetainRecheck, TypeOK
  <2> QED BY <1>0, <1>1, <2>1, <2>2 DEF TypeOK
<1>5. holder \in {r, NoProcess} BY <1>0, <1>2 DEF LockInv, Holding, Busy, Waiting
<1>6. SharedInv' BY <1>0, <1>1, <1>2, <1>3, <1>4, SentinelsAssumption
    DEF SharedInv, OnlyRun, TypeOK, LockInv, GuardInv, DataInv, ResultInv, ProgressInv,
    Guarded, Holding, Waiting, Busy, Unsaved, Staging, DirsOf
<1>7. LockInv(r)' BY <1>0, <1>1, <1>2 DEF LockInv, ProgressInv, Holding, Busy, Waiting
<1>8. GuardInv(r)' BY <1>0, <1>1, <1>2, SentinelsAssumption, GuardFacts, GuardNames
    DEF GuardInv, Holding, Busy, Waiting, Guarded, SharedInv, ProgressInv
<1>9. DataInv(r)' BY <1>0, <1>1, <1>2
    DEF DataInv, ProgressInv, Unsaved, Waiting, Staging, DirsOf
<1>10. ResultInv(r)' BY <1>0, <1>1, <1>2 DEF ResultInv, Undecided, ProgressInv, Waiting
<1>11. ProgressInv(r)' BY <1>0, <1>1, <1>2 DEF ProgressInv
<1>12. RetentionInv(r)' BY <1>0, <1>1, <1>2
    DEF RetentionInv, ProgressInv, GuardInv, Guarded, Waiting, Busy
<1> QED BY <1>3, <1>4, <1>5, <1>6, <1>7, <1>8, <1>9, <1>10, <1>11, <1>12, Exclusive DEF RunInv

\* The receipt is rewritten before the guard goes.
LEMMA RetainReceiptPreserves ==
  ASSUME Inv, NEW r \in Runs, RetainReceipt(r) PROVE Inv'
<1>0. TypeOK /\ SharedInv /\ RunInv(r) BY DEF Inv
<1>1. UNCHANGED <<guard, staging, data, total, approved, manifest, events, result, receipt,
    holder, op, base, eof, releasable, rpc, rguard>> BY DEF RetainReceipt
<1>2. /\ pc[r] = "retain.receipt"
      /\ op'[r] = op[r]
      /\ \/ pc'[r] = "release" /\ ep'[r] = ep[r]
         \/ pc'[r] \in {"quar.approval", "quar.guard"} /\ ep'[r] = "QUARANTINED_COMMIT"
  BY <1>0 DEF RetainReceipt, TypeOK
<1>3. OnlyRun(r) BY <1>0, <1>1 DEF OnlyRun, TypeOK, Snapshots, RetainReceipt
<1>4. TypeOK'
  <2>1. (pc \in [Runs -> Steps])'
    <3>1. \E s \in Steps : pc' = [pc EXCEPT ![r] = s] BY StepNames DEF RetainReceipt
    <3> QED BY <1>0, <3>1 DEF TypeOK
  <2>2. (ep \in [Runs -> EpisodeStates])' BY <1>0, EpNames DEF RetainReceipt, TypeOK
  <2>3. (faults \in Nat)'
    <3>1. faults' = faults \/ faults' = faults + 1 BY Zenon DEF RetainReceipt
    <3> QED BY <1>0, <3>1 DEF TypeOK
  <2> QED BY <1>0, <1>1, <2>1, <2>2, <2>3 DEF TypeOK
<1>5. holder \in {r, NoProcess} BY <1>0, <1>2 DEF LockInv, Holding, Busy, Waiting
<1>6. SharedInv' BY <1>0, <1>1, <1>2, <1>3, <1>4, SentinelsAssumption
    DEF SharedInv, OnlyRun, TypeOK, LockInv, GuardInv, DataInv, ResultInv, ProgressInv,
    Guarded, Holding, Waiting, Busy, Unsaved, Staging, DirsOf
<1>7. LockInv(r)' BY <1>0, <1>1, <1>2 DEF LockInv, ProgressInv, Holding, Busy, Waiting
<1>8. GuardInv(r)' BY <1>0, <1>1, <1>2, SentinelsAssumption, GuardFacts, GuardNames
    DEF GuardInv, Holding, Busy, Waiting, Guarded, SharedInv, ProgressInv
<1>9. DataInv(r)' BY <1>0, <1>1, <1>2
    DEF DataInv, ProgressInv, Unsaved, Waiting, Staging, DirsOf
<1>10. ResultInv(r)' BY <1>0, <1>1, <1>2 DEF ResultInv, Undecided, ProgressInv, Waiting
<1>11. ProgressInv(r)' BY <1>0, <1>1, <1>2 DEF ProgressInv
<1>12. RetentionInv(r)' BY <1>0, <1>1, <1>2
    DEF RetentionInv, ProgressInv, GuardInv, Guarded, Waiting, Busy
<1> QED BY <1>3, <1>4, <1>5, <1>6, <1>7, <1>8, <1>9, <1>10, <1>11, <1>12, Exclusive DEF RunInv

\* A retained, unreleased episode stays quarantined.
LEMMA RetainResultPreserves ==
  ASSUME Inv, NEW r \in Runs, RetainResult(r) PROVE Inv'
<1>0. TypeOK /\ SharedInv /\ RunInv(r) BY DEF Inv
<1>1. UNCHANGED <<guard, staging, data, total, approved, manifest, events, receipt, holder,
    op, base, eof, releasable, rpc, rguard>> BY DEF RetainResult
<1>2. /\ pc[r] = "retain.result"
      /\ op'[r] = op[r]
      /\ \/ pc'[r] = "retain.event" /\ ep'[r] = ep[r]
         \/ pc'[r] \in {"quar.approval", "quar.guard"} /\ ep'[r] = "QUARANTINED_COMMIT"
      /\ result'[r] \in {result[r], "QUARANTINED_COMMIT"}
  BY <1>0 DEF RetainResult, TypeOK
<1>3. OnlyRun(r) BY <1>0, <1>1 DEF OnlyRun, TypeOK, Snapshots, RetainResult
<1>4. TypeOK'
  <2>1. (result \in [Runs -> {"none", "ABORTED", "COMMITTED", "QUARANTINED_COMMIT"}])' BY <1>0
      DEF RetainResult, TypeOK
  <2>2. (pc \in [Runs -> Steps])'
    <3>1. \E s \in Steps : pc' = [pc EXCEPT ![r] = s] BY StepNames DEF RetainResult
    <3> QED BY <1>0, <3>1 DEF TypeOK
  <2>3. (ep \in [Runs -> EpisodeStates])' BY <1>0, EpNames DEF RetainResult, TypeOK
  <2>4. (faults \in Nat)'
    <3>1. faults' = faults \/ faults' = faults + 1 BY Zenon DEF RetainResult
    <3> QED BY <1>0, <3>1 DEF TypeOK
  <2> QED BY <1>0, <1>1, <2>1, <2>2, <2>3, <2>4 DEF TypeOK
<1>5. holder \in {r, NoProcess} BY <1>0, <1>2 DEF LockInv, Holding, Busy, Waiting
<1>6. SharedInv' BY <1>0, <1>1, <1>2, <1>3, <1>4, SentinelsAssumption
    DEF SharedInv, OnlyRun, TypeOK, LockInv, GuardInv, DataInv, ResultInv, ProgressInv,
    Guarded, Holding, Waiting, Busy, Unsaved, Staging, DirsOf
<1>7. LockInv(r)' BY <1>0, <1>1, <1>2 DEF LockInv, ProgressInv, Holding, Busy, Waiting
<1>8. GuardInv(r)' BY <1>0, <1>1, <1>2, SentinelsAssumption, GuardFacts, GuardNames
    DEF GuardInv, Holding, Busy, Waiting, Guarded, SharedInv, ProgressInv
<1>9. DataInv(r)' BY <1>0, <1>1, <1>2
    DEF DataInv, ProgressInv, Unsaved, Waiting, Staging, DirsOf
<1>10. ResultInv(r)' BY <1>0, <1>1, <1>2 DEF ResultInv, Undecided, ProgressInv, Waiting
<1>11. ProgressInv(r)' BY <1>0, <1>1, <1>2 DEF ProgressInv
<1>12. RetentionInv(r)' BY <1>0, <1>1, <1>2
    DEF RetentionInv, ProgressInv, GuardInv, Guarded, Waiting, Busy
<1> QED BY <1>3, <1>4, <1>5, <1>6, <1>7, <1>8, <1>9, <1>10, <1>11, <1>12, Exclusive DEF RunInv

\* The journal records the retention.
LEMMA RetainEventPreserves ==
  ASSUME Inv, NEW r \in Runs, RetainEvent(r) PROVE Inv'
<1>0. TypeOK /\ SharedInv /\ RunInv(r) BY DEF Inv
<1>1. UNCHANGED <<guard, staging, data, total, approved, manifest, result, receipt, holder,
    op, base, eof, releasable, rpc, rguard>> BY DEF RetainEvent
<1>2. /\ pc[r] = "retain.event"
      /\ op'[r] = op[r]
      /\ \/ pc'[r] = "ready" /\ ep'[r] = ep[r]
         \/ pc'[r] \in {"quar.approval", "quar.guard"} /\ ep'[r] = "QUARANTINED_COMMIT"
  BY <1>0 DEF RetainEvent, TypeOK
<1>3. OnlyRun(r) BY <1>0, <1>1 DEF OnlyRun, TypeOK, Snapshots, RetainEvent
<1>4. TypeOK'
  <2>1. (events \in [Runs -> Seq(EventNames)])'
    <3>1. events' = events \/ \E e \in EventNames : events' = [events EXCEPT ![r] = Append(events[r], e)]
      BY <1>0, EventNamesFacts DEF TypeOK, RetainEvent
    <3>2. events[r] \in Seq(EventNames) BY <1>0 DEF TypeOK
    <3>3. \A e \in EventNames : Append(events[r], e) \in Seq(EventNames) BY <3>2, EventFacts
    <3> QED BY <1>0, <3>1, <3>3 DEF TypeOK
  <2>2. (pc \in [Runs -> Steps])'
    <3>1. \E s \in Steps : pc' = [pc EXCEPT ![r] = s] BY StepNames DEF RetainEvent
    <3> QED BY <1>0, <3>1 DEF TypeOK
  <2>3. (ep \in [Runs -> EpisodeStates])' BY <1>0, EpNames DEF RetainEvent, TypeOK
  <2>4. (faults \in Nat)'
    <3>1. faults' = faults \/ faults' = faults + 1 BY Zenon DEF RetainEvent
    <3> QED BY <1>0, <3>1 DEF TypeOK
  <2> QED BY <1>0, <1>1, <2>1, <2>2, <2>3, <2>4 DEF TypeOK
<1>5. holder \in {r, NoProcess} BY <1>0, <1>2 DEF LockInv, Holding, Busy, Waiting
<1>6. SharedInv' BY <1>0, <1>1, <1>2, <1>3, <1>4, SentinelsAssumption
    DEF SharedInv, OnlyRun, TypeOK, LockInv, GuardInv, DataInv, ResultInv, ProgressInv,
    Guarded, Holding, Waiting, Busy, Unsaved, Staging, DirsOf
<1>7. LockInv(r)' BY <1>0, <1>1, <1>2 DEF LockInv, ProgressInv, Holding, Busy, Waiting
<1>8. GuardInv(r)' BY <1>0, <1>1, <1>2, SentinelsAssumption, GuardFacts, GuardNames
    DEF GuardInv, Holding, Busy, Waiting, Guarded, SharedInv, ProgressInv
<1>9. DataInv(r)' BY <1>0, <1>1, <1>2
    DEF DataInv, ProgressInv, Unsaved, Waiting, Staging, DirsOf
<1>10. ResultInv(r)' BY <1>0, <1>1, <1>2 DEF ResultInv, Undecided, ProgressInv, Waiting
<1>11. ProgressInv(r)' BY <1>0, <1>1, <1>2 DEF ProgressInv
<1>12. RetentionInv(r)' BY <1>0, <1>1, <1>2
    DEF RetentionInv, ProgressInv, GuardInv, Guarded, Waiting, Busy
<1> QED BY <1>3, <1>4, <1>5, <1>6, <1>7, <1>8, <1>9, <1>10, <1>11, <1>12, Exclusive DEF RunInv

\* Quarantine withdraws the approval again.
LEMMA QuarantineApprovalPreserves ==
  ASSUME Inv, NEW r \in Runs, QuarantineApproval(r) PROVE Inv'
<1>0. TypeOK /\ SharedInv /\ RunInv(r) BY DEF Inv
<1>1. UNCHANGED <<guard, staging, data, total, manifest, events, result, receipt, holder, op,
    ep, base, eof, releasable, rpc, rguard>> BY DEF QuarantineApproval
<1>2. /\ pc[r] = "quar.approval"
      /\ op'[r] = op[r] /\ ep'[r] = ep[r]
      /\ pc'[r] = "quar.guard"
      /\ (approved' = approved \/ approved' = FALSE)
  BY <1>0 DEF QuarantineApproval, TypeOK
<1>3. OnlyRun(r) BY <1>0, <1>1 DEF OnlyRun, TypeOK, Snapshots, QuarantineApproval
<1>4. TypeOK'
  <2>1. (approved \in BOOLEAN)'
    <3>1. approved' = approved \/ approved' = FALSE BY Zenon DEF QuarantineApproval
    <3> QED BY <1>0, <3>1 DEF TypeOK
  <2>2. (pc \in [Runs -> Steps])'
    <3>1. \E s \in Steps : pc' = [pc EXCEPT ![r] = s] BY StepNames DEF QuarantineApproval
    <3> QED BY <1>0, <3>1 DEF TypeOK
  <2>3. (faults \in Nat)'
    <3>1. faults' = faults \/ faults' = faults + 1 BY Zenon DEF QuarantineApproval
    <3> QED BY <1>0, <3>1 DEF TypeOK
  <2> QED BY <1>0, <1>1, <2>1, <2>2, <2>3 DEF TypeOK
<1>5. holder \in {r, NoProcess} BY <1>0, <1>2 DEF LockInv, Holding, Busy, Waiting
<1>6. SharedInv' BY <1>0, <1>1, <1>2, <1>3, <1>4, SentinelsAssumption
    DEF SharedInv, OnlyRun, TypeOK, LockInv, GuardInv, DataInv, ResultInv, ProgressInv,
    Guarded, Holding, Waiting, Busy, Unsaved, Staging, DirsOf
<1>7. LockInv(r)' BY <1>0, <1>1, <1>2 DEF LockInv, ProgressInv, Holding, Busy, Waiting
<1>8. GuardInv(r)' BY <1>0, <1>1, <1>2, SentinelsAssumption, GuardFacts, GuardNames
    DEF GuardInv, Holding, Busy, Waiting, Guarded, SharedInv, ProgressInv
<1>9. DataInv(r)' BY <1>0, <1>1, <1>2
    DEF DataInv, ProgressInv, Unsaved, Waiting, Staging, DirsOf
<1>10. ResultInv(r)' BY <1>0, <1>1, <1>2 DEF ResultInv, Undecided, ProgressInv, Waiting
<1>11. ProgressInv(r)' BY <1>0, <1>1, <1>2 DEF ProgressInv
<1>12. RetentionInv(r)' BY <1>0, <1>1, <1>2
    DEF RetentionInv, ProgressInv, GuardInv, Guarded, Waiting, Busy
<1> QED BY <1>3, <1>4, <1>5, <1>6, <1>7, <1>8, <1>9, <1>10, <1>11, <1>12, Exclusive DEF RunInv

\* The run's own guard is quarantined, or stays what it was.
LEMMA QuarantineGuardPreserves ==
  ASSUME Inv, NEW r \in Runs, QuarantineGuard(r) PROVE Inv'
<1>0. TypeOK /\ SharedInv /\ RunInv(r) BY DEF Inv
<1>1. UNCHANGED <<staging, data, total, approved, manifest, events, result, receipt, holder,
    op, ep, base, eof, releasable, rpc, rguard>> BY DEF QuarantineGuard
<1>2. /\ pc[r] = "quar.guard"
      /\ op'[r] = op[r] /\ ep'[r] = ep[r]
      /\ pc'[r] = "quar.result"
      /\ (guard' = guard \/ guard' = [run |-> r, state |-> "QUARANTINED_COMMIT"])
  BY <1>0 DEF QuarantineGuard, TypeOK
<1>3. OnlyRun(r) BY <1>0, <1>1 DEF OnlyRun, TypeOK, Snapshots, QuarantineGuard
<1>4. TypeOK'
  <2>1. (guard \in Guards \cup {NoGuard})' BY <1>0, GuardNames, GuardFacts
      DEF QuarantineGuard, TypeOK
  <2>2. (pc \in [Runs -> Steps])'
    <3>1. \E s \in Steps : pc' = [pc EXCEPT ![r] = s] BY StepNames DEF QuarantineGuard
    <3> QED BY <1>0, <3>1 DEF TypeOK
  <2>3. (faults \in Nat)'
    <3>1. faults' = faults \/ faults' = faults + 1 BY Zenon DEF QuarantineGuard
    <3> QED BY <1>0, <3>1 DEF TypeOK
  <2> QED BY <1>0, <1>1, <2>1, <2>2, <2>3 DEF TypeOK
<1>5. holder \in {r, NoProcess} BY <1>0, <1>2 DEF LockInv, Holding, Busy, Waiting
<1>6. SharedInv'
  <2>1. (guard # NoGuard => guard.run = r) /\ manifest[r] # NoManifest /\ ~approved
    BY <1>0, <1>2
        DEF SharedInv, LockInv, GuardInv, DataInv, ResultInv, Undecided, ProgressInv, Guarded,
        Holding, Waiting, Busy, Unsaved
  <2> QED BY <1>0, <1>1, <1>2, <1>3, <1>4, <2>1, SentinelsAssumption, GuardFacts, GuardNames
      DEF SharedInv, OnlyRun, TypeOK, Staging, DirsOf
<1>7. LockInv(r)' BY <1>0, <1>1, <1>2 DEF LockInv, ProgressInv, Holding, Busy, Waiting
<1>8. GuardInv(r)' BY <1>0, <1>1, <1>2, SentinelsAssumption, GuardFacts, GuardNames
    DEF GuardInv, Holding, Busy, Waiting, Guarded, SharedInv, ProgressInv
<1>9. DataInv(r)' BY <1>0, <1>1, <1>2
    DEF DataInv, ProgressInv, Unsaved, Waiting, Staging, DirsOf
<1>10. ResultInv(r)' BY <1>0, <1>1, <1>2 DEF ResultInv, Undecided, ProgressInv, Waiting
<1>11. ProgressInv(r)' BY <1>0, <1>1, <1>2 DEF ProgressInv
<1>12. RetentionInv(r)' BY <1>0, <1>1, <1>2
    DEF RetentionInv, ProgressInv, GuardInv, Guarded, Waiting, Busy
<1> QED BY <1>3, <1>4, <1>5, <1>6, <1>7, <1>8, <1>9, <1>10, <1>11, <1>12, Exclusive DEF RunInv

\* The result says QUARANTINED_COMMIT, or stays what it was.
LEMMA QuarantineResultPreserves ==
  ASSUME Inv, NEW r \in Runs, QuarantineResult(r) PROVE Inv'
<1>0. TypeOK /\ SharedInv /\ RunInv(r) BY DEF Inv
<1>1. UNCHANGED <<guard, staging, data, total, approved, manifest, events, receipt, holder,
    op, ep, base, eof, releasable, rpc, rguard>> BY DEF QuarantineResult
<1>2. /\ pc[r] = "quar.result"
      /\ op'[r] = op[r] /\ ep'[r] = ep[r]
      /\ pc'[r] = "quar.event"
      /\ result'[r] \in {result[r], "QUARANTINED_COMMIT"}
  BY <1>0 DEF QuarantineResult, TypeOK
<1>3. OnlyRun(r) BY <1>0, <1>1 DEF OnlyRun, TypeOK, Snapshots, QuarantineResult
<1>4. TypeOK'
  <2>1. (result \in [Runs -> {"none", "ABORTED", "COMMITTED", "QUARANTINED_COMMIT"}])' BY <1>0
      DEF QuarantineResult, TypeOK
  <2>2. (pc \in [Runs -> Steps])'
    <3>1. \E s \in Steps : pc' = [pc EXCEPT ![r] = s] BY StepNames DEF QuarantineResult
    <3> QED BY <1>0, <3>1 DEF TypeOK
  <2>3. (faults \in Nat)'
    <3>1. faults' = faults \/ faults' = faults + 1 BY Zenon DEF QuarantineResult
    <3> QED BY <1>0, <3>1 DEF TypeOK
  <2> QED BY <1>0, <1>1, <2>1, <2>2, <2>3 DEF TypeOK
<1>5. holder \in {r, NoProcess} BY <1>0, <1>2 DEF LockInv, Holding, Busy, Waiting
<1>6. SharedInv' BY <1>0, <1>1, <1>2, <1>3, <1>4, SentinelsAssumption
    DEF SharedInv, OnlyRun, TypeOK, LockInv, GuardInv, DataInv, ResultInv, ProgressInv,
    Guarded, Holding, Waiting, Busy, Unsaved, Staging, DirsOf
<1>7. LockInv(r)' BY <1>0, <1>1, <1>2 DEF LockInv, ProgressInv, Holding, Busy, Waiting
<1>8. GuardInv(r)' BY <1>0, <1>1, <1>2, SentinelsAssumption, GuardFacts, GuardNames
    DEF GuardInv, Holding, Busy, Waiting, Guarded, SharedInv, ProgressInv
<1>9. DataInv(r)' BY <1>0, <1>1, <1>2
    DEF DataInv, ProgressInv, Unsaved, Waiting, Staging, DirsOf
<1>10. ResultInv(r)' BY <1>0, <1>1, <1>2 DEF ResultInv, Undecided, ProgressInv, Waiting
<1>11. ProgressInv(r)' BY <1>0, <1>1, <1>2 DEF ProgressInv
<1>12. RetentionInv(r)' BY <1>0, <1>1, <1>2
    DEF RetentionInv, ProgressInv, GuardInv, Guarded, Waiting, Busy
<1> QED BY <1>3, <1>4, <1>5, <1>6, <1>7, <1>8, <1>9, <1>10, <1>11, <1>12, Exclusive DEF RunInv

\* A retain goes on after a quarantine, anything else is over.
LEMMA QuarantineEventPreserves ==
  ASSUME Inv, NEW r \in Runs, QuarantineEvent(r) PROVE Inv'
<1>0. TypeOK /\ SharedInv /\ RunInv(r) BY DEF Inv
<1>1. UNCHANGED <<guard, staging, data, total, approved, manifest, result, receipt, holder,
    op, ep, base, eof, releasable, rpc, rguard>> BY DEF QuarantineEvent
<1>2. /\ pc[r] = "quar.event"
      /\ op'[r] = op[r] /\ ep'[r] = ep[r]
      /\ pc'[r] = IF op[r] = "retain" THEN "retain.check" ELSE "ready"
  BY <1>0 DEF QuarantineEvent, TypeOK
<1>3. OnlyRun(r) BY <1>0, <1>1 DEF OnlyRun, TypeOK, Snapshots, QuarantineEvent
<1>4. TypeOK'
  <2>1. (events \in [Runs -> Seq(EventNames)])'
    <3>1. events' = events \/ \E e \in EventNames : events' = [events EXCEPT ![r] = Append(events[r], e)]
      BY <1>0, EventNamesFacts DEF TypeOK, QuarantineEvent
    <3>2. events[r] \in Seq(EventNames) BY <1>0 DEF TypeOK
    <3>3. \A e \in EventNames : Append(events[r], e) \in Seq(EventNames) BY <3>2, EventFacts
    <3> QED BY <1>0, <3>1, <3>3 DEF TypeOK
  <2>2. (pc \in [Runs -> Steps])'
    <3>1. \E s \in Steps : pc' = [pc EXCEPT ![r] = s] BY StepNames DEF QuarantineEvent
    <3> QED BY <1>0, <3>1 DEF TypeOK
  <2>3. (faults \in Nat)'
    <3>1. faults' = faults \/ faults' = faults + 1 BY Zenon DEF QuarantineEvent
    <3> QED BY <1>0, <3>1 DEF TypeOK
  <2> QED BY <1>0, <1>1, <2>1, <2>2, <2>3 DEF TypeOK
<1>5. holder \in {r, NoProcess} BY <1>0, <1>2 DEF LockInv, Holding, Busy, Waiting
<1>6. SharedInv' BY <1>0, <1>1, <1>2, <1>3, <1>4, SentinelsAssumption
    DEF SharedInv, OnlyRun, TypeOK, LockInv, GuardInv, DataInv, ResultInv, ProgressInv,
    Guarded, Holding, Waiting, Busy, Unsaved, Staging, DirsOf
<1>7. LockInv(r)' BY <1>0, <1>1, <1>2 DEF LockInv, ProgressInv, Holding, Busy, Waiting
<1>8. GuardInv(r)' BY <1>0, <1>1, <1>2, SentinelsAssumption, GuardFacts, GuardNames
    DEF GuardInv, Holding, Busy, Waiting, Guarded, SharedInv, ProgressInv
<1>9. DataInv(r)' BY <1>0, <1>1, <1>2
    DEF DataInv, ProgressInv, Unsaved, Waiting, Staging, DirsOf
<1>10. ResultInv(r)' BY <1>0, <1>1, <1>2 DEF ResultInv, Undecided, ProgressInv, Waiting
<1>11. ProgressInv(r)' BY <1>0, <1>1, <1>2 DEF ProgressInv
<1>12. RetentionInv(r)' BY <1>0, <1>1, <1>2
    DEF RetentionInv, ProgressInv, GuardInv, Guarded, Waiting, Busy
<1> QED BY <1>3, <1>4, <1>5, <1>6, <1>7, <1>8, <1>9, <1>10, <1>11, <1>12, Exclusive DEF RunInv

-----------------------------------------------------------------------------
(* Steps that need no lock *)

\* A run keeps its invariant when neither its own state nor the guard, the
\* staging, the approval and (if it needs it) the lock change.
LEMMA Frame ==
  ASSUME NEW q \in Runs, RunInv(q), UNCHANGED <<guard, staging, approved>>,
         Holding(q) => holder' = holder,
         pc'[q] = pc[q], op'[q] = op[q], ep'[q] = ep[q], data'[q] = data[q],
         result'[q] = result[q], manifest'[q] = manifest[q], receipt'[q] = receipt[q]
  PROVE  RunInv(q)'
<1>1. Holding(q)' = Holding(q) /\ Guarded(q)' = Guarded(q) /\ Waiting(q)' = Waiting(q)
  BY DEF Holding, Guarded, Busy, Waiting
<1>2. Staging(q)' = Staging(q) BY DEF Staging, DirsOf
<1> USE <1>1, <1>2 DEF RunInv
<1>3. LockInv(q)' BY DEF LockInv
<1>4. GuardInv(q)' BY DEF GuardInv
<1>5. DataInv(q)' BY DEF DataInv, Unsaved
<1>6. ResultInv(q)' BY DEF ResultInv, Undecided
<1>7. ProgressInv(q)' BY DEF ProgressInv
<1>8. RetentionInv(q)' BY DEF RetentionInv
<1> QED BY <1>3, <1>4, <1>5, <1>6, <1>7, <1>8

\* A step that touches no durable state and at most frees its own lock need only
\* be checked against its own run.
LEMMA Bystander ==
  ASSUME Inv, NEW r \in Runs, UNCHANGED durable, OnlyRun(r), TypeOK',
         holder' = IF holder = r /\ pc'[r] \in {"closed", "dead"} THEN NoProcess ELSE holder,
         pc'[r] \in {"off", "open"} => pc[r] \in {"off", "open"}, RunInv(r)'
  PROVE  Inv'
<1>1. SharedInv'
  <2>1. \A q \in Runs : pc'[q] \in {"off", "open"} => pc[q] \in {"off", "open"} BY DEF OnlyRun
  <2> QED BY <2>1 DEF Inv, SharedInv, durable, TypeOK, Guards
<1>2. ASSUME NEW q \in Runs PROVE RunInv(q)'
  <2>1. CASE q = r BY <2>1
  <2>2. CASE q # r
    <3>1. Holding(q) => holder' = holder BY <2>2 DEF Inv, RunInv, LockInv
    <3> QED BY <3>1, <2>2, Frame DEF Inv, OnlyRun, durable
  <2> QED BY <2>1, <2>2
<1>3. ASSUME NEW q \in Recoverers PROVE RecoveryInv(q)'
  <2>1. RecoveryInv(q) /\ UNCHANGED <<rpc, rguard>> BY DEF Inv, OnlyRun
  <2>2. rpc[q] # "idle" => holder' = holder
    BY <2>1, ProcessesAssumption DEF RecoveryInv
  <2>3. \A p \in Runs : pc'[p] \in {"off", "open"} => pc[p] \in {"off", "open"} BY DEF OnlyRun
  <2>4. rguard[q] # NoGuard => rguard[q].run \in Runs BY DEF Inv, TypeOK, Guards
  <2> QED BY <2>1, <2>2, <2>3, <2>4 DEF RecoveryInv, durable, Staging, DirsOf
<1> QED BY <1>1, <1>2, <1>3 DEF Inv

\* Opening the dataset writes nothing.
LEMMA OpenPreserves ==
  ASSUME Inv, NEW r \in Runs, Open(r) PROVE Inv'
<1>1. TypeOK /\ RunInv(r) BY DEF Inv
<1>2. pc[r] = "off" /\ pc'[r] = "open" BY <1>1 DEF Open, TypeOK
<1>3. UNCHANGED <<durable, rpc, rguard, holder, op, ep, eof, releasable, faults>> BY DEF Open
<1>4. OnlyRun(r) BY <1>1, <1>3 DEF OnlyRun, Open, TypeOK
<1>5. TypeOK'
  <2>1. (pc \in [Runs -> Steps])' BY <1>1, StepNames DEF Open, TypeOK
  <2>2. (base \in [Runs -> Nat])' BY <1>1 DEF Open, TypeOK
  <2> QED BY <1>1, <1>3, <2>1, <2>2 DEF TypeOK
<1>6. RunInv(r)'
  <2> USE <1>1, <1>2, <1>3 DEF RunInv
  <2>1. LockInv(r)' BY DEF LockInv, Holding, Busy, Waiting, Outside
  <2>2. GuardInv(r)' BY
      DEF GuardInv, Guarded, Holding, Busy, Waiting, Outside, Beginning, Quarantining
  <2>3. DataInv(r)' BY DEF DataInv, Unsaved
  <2>4. ResultInv(r)' BY DEF ResultInv, Undecided
  <2>5. ProgressInv(r)' BY
      DEF ProgressInv, Beginning, Claiming, Freezing, Discarding, Saving, Retaining,
      Quarantining
  <2>6. RetentionInv(r)' BY
      DEF RetentionInv, Guarded, Busy, Waiting, Outside, Claiming, Freezing, Discarding,
      Saving, Quarantining
  <2> QED BY <2>1, <2>2, <2>3, <2>4, <2>5, <2>6
<1> QED BY <1>2, <1>3, <1>4, <1>5, <1>6, Bystander

\* The end of input changes no protocol state.
LEMMA CloseInputPreserves ==
  ASSUME Inv, NEW r \in Runs, CloseInput(r) PROVE Inv'
<1>1. TypeOK /\ RunInv(r) BY DEF Inv
<1>2. pc[r] \in {"open", "ready"} /\ UNCHANGED <<durable, rpc, rguard, holder, pc, op, ep,
    base, releasable, faults>>
  BY DEF CloseInput
<1>3. TypeOK'
  <2>1. (eof \in [Runs -> BOOLEAN])' BY <1>1 DEF CloseInput, TypeOK
  <2> QED BY <1>1, <1>2, <2>1 DEF TypeOK
<1>4. OnlyRun(r) BY <1>2 DEF OnlyRun
<1>5. RunInv(r)' BY <1>1, <1>2, Frame DEF durable
<1> QED BY <1>2, <1>3, <1>4, <1>5, Bystander

\* A process that has exited or died satisfies its invariant: it promises nothing.
LEMMA Stopped ==
  ASSUME NEW r \in Runs, pc'[r] \in {"closed", "dead"}
  PROVE  RunInv(r)'
<1> USE DEF RunInv
<1>1. LockInv(r)' BY DEF LockInv, Holding, Busy, Waiting, Outside
<1>2. GuardInv(r)' BY
    DEF GuardInv, Guarded, Holding, Busy, Waiting, Outside, Beginning, Quarantining
<1>3. DataInv(r)' BY
    DEF DataInv, Unsaved, Waiting, Beginning, Claiming, Freezing, Retaining, Quarantining,
    Discarding
<1>4. ResultInv(r)' BY
    DEF ResultInv, Undecided, Waiting, Beginning, Claiming, Freezing, Retaining, Saving,
    Quarantining
<1>5. ProgressInv(r)' BY
    DEF ProgressInv, Beginning, Claiming, Freezing, Discarding, Saving, Retaining, Quarantining
<1>6. RetentionInv(r)' BY
    DEF RetentionInv, Guarded, Busy, Waiting, Outside, Claiming, Freezing, Discarding, Saving,
    Quarantining
<1> QED BY <1>1, <1>2, <1>3, <1>4, <1>5, <1>6

\* An exit or a crash frees the lock of that process and leaves the disk alone.
LEMMA StopPreserves ==
  ASSUME Inv, NEW r \in Runs, Exit(r) \/ Crash(r) PROVE Inv'
<1>1. TypeOK BY DEF Inv
<1>2. /\ pc' = [pc EXCEPT ![r] = "closed"] \/ pc' = [pc EXCEPT ![r] = "dead"]
      /\ holder' = IF holder = r THEN NoProcess ELSE holder
      /\ UNCHANGED <<durable, rpc, rguard, faults>>
      /\ op' = [op EXCEPT ![r] = "none"] /\ ep' = [ep EXCEPT ![r] = "IDLE"]
      /\ base' = [base EXCEPT ![r] = 0]
      /\ eof' = [eof EXCEPT ![r] = FALSE] /\ releasable' = [releasable EXCEPT ![r] = FALSE]
  BY DEF Exit, Crash, Forget
<1>3. pc'[r] \in {"closed", "dead"} /\ OnlyRun(r) BY <1>1, <1>2 DEF TypeOK, OnlyRun
<1>4. TypeOK'
  <2>1. (pc \in [Runs -> Steps])' BY <1>1, <1>2, StepNames DEF TypeOK
  <2>2. (holder \in Runs \cup Recoverers \cup {NoProcess})' BY <1>1, <1>2 DEF TypeOK
  <2>3. (op \in [Runs -> Operations])' BY <1>1, <1>2 DEF TypeOK, Operations
  <2>4. (ep \in [Runs -> EpisodeStates])' BY <1>1, <1>2 DEF TypeOK, EpisodeStates
  <2>5. (base \in [Runs -> Nat])' BY <1>1, <1>2 DEF TypeOK
  <2>6. (eof \in [Runs -> BOOLEAN] /\ releasable \in [Runs -> BOOLEAN])' BY <1>1, <1>2
      DEF TypeOK
  <2> QED BY <1>1, <1>2, <2>1, <2>2, <2>3, <2>4, <2>5, <2>6 DEF TypeOK
<1>5. RunInv(r)' BY <1>3, Stopped
<1> QED BY <1>2, <1>3, <1>4, <1>5, Bystander

-----------------------------------------------------------------------------
(* The steps of a recovery *)

\* While a recoverer holds the lock, or takes it when free, no run is working, and
\* its step need only be checked against the shared state and itself.
LEMMA RecovererOnly ==
  ASSUME Inv, NEW q \in Recoverers, holder \in {q, NoProcess},
         UNCHANGED <<data, pc, op, ep>>,
         \A r \in Runs : pc[r] \in {"off", "open"} => result'[r] = result[r],
         \A p \in Recoverers \ {q} : rpc'[p] = rpc[p],
         TypeOK', SharedInv', RecoveryInv(q)'
  PROVE  Inv'
<1>1. ASSUME NEW r \in Runs PROVE RunInv(r)'
  <2>1. ~Holding(r) BY ProcessesAssumption, SentinelsAssumption DEF Inv, RunInv, LockInv
  <2> QED BY <2>1, Idle DEF Inv
<1>2. ASSUME NEW p \in Recoverers, p # q PROVE RecoveryInv(p)'
  <2>1. rpc'[p] = "idle" BY <1>2, SentinelsAssumption DEF Inv, RecoveryInv
  <2> QED BY <2>1 DEF RecoveryInv
<1> QED BY <1>1, <1>2 DEF Inv

\* Recovery starts with the free lock.
LEMMA RecoverLockPreserves ==
  ASSUME Inv, NEW q \in Recoverers, RecoverLock(q) PROVE Inv'
<1>0. TypeOK /\ SharedInv /\ RecoveryInv(q) BY DEF Inv
<1>1. UNCHANGED <<durable, processes, rguard, faults>> BY DEF RecoverLock
<1>2. rpc'[q] = "read" /\ holder = NoProcess /\ holder' = q BY <1>0
    DEF RecoverLock, At, RGoto, TypeOK
<1>3. \A p \in Recoverers \ {q} : rpc'[p] = rpc[p] BY <1>0 DEF RecoverLock, RGoto, TypeOK
<1>4. TypeOK'
  <2>1. (rpc \in [Recoverers -> RecoverySteps])' BY <1>0
      DEF RecoverLock, RGoto, TypeOK, RecoverySteps
  <2> QED BY <1>0, <1>1, <1>2, <2>1 DEF processes, TypeOK
<1>5. SharedInv' BY <1>0, <1>1 DEF SharedInv, processes
<1>6. RecoveryInv(q)' BY <1>1, <1>2 DEF RecoveryInv
<1> QED BY <1>1, <1>2, <1>3, <1>4, <1>5, <1>6, RecovererOnly DEF processes

\* What recovery reads it can rely on while it holds the lock.
LEMMA RecoverReadPreserves ==
  ASSUME Inv, NEW q \in Recoverers, RecoverRead(q) PROVE Inv'
<1>0. TypeOK /\ SharedInv /\ RecoveryInv(q) BY DEF Inv
<1>1. UNCHANGED <<durable, processes, faults>> BY DEF RecoverRead
<1>2. /\ rpc[q] = "read" /\ rguard'[q] = guard
      /\ \/ rpc'[q] = "idle" /\ holder' = NoProcess
         \/ guard # NoGuard /\ rpc'[q] = "quarantine" /\ holder' = holder
         \/ /\ guard # NoGuard /\ rpc'[q] = "remove" /\ holder' = holder
            /\ guard.state \in {"RECORDING", "FROZEN"}
  BY <1>0 DEF RecoverRead, At, RGoto, TypeOK, Recoverable
<1>3. \A p \in Recoverers \ {q} : rpc'[p] = rpc[p] BY <1>0 DEF RecoverRead, RGoto, TypeOK
<1>4. TypeOK'
  <2>1. (rpc \in [Recoverers -> RecoverySteps])'
    <3>1. \E s \in RecoverySteps : rpc' = [rpc EXCEPT ![q] = s] BY
        DEF RecoverRead, RGoto, RecoverySteps
    <3> QED BY <1>0, <3>1 DEF TypeOK
  <2>2. (rguard \in [Recoverers -> Guards \cup {NoGuard}])' BY <1>0 DEF RecoverRead, TypeOK
  <2>3. (holder \in Runs \cup Recoverers \cup {NoProcess})' BY <1>0, <1>2 DEF TypeOK
  <2> QED BY <1>0, <1>1, <2>1, <2>2, <2>3 DEF processes, TypeOK
<1>5. SharedInv' BY <1>0, <1>1 DEF SharedInv, processes
<1>6. RecoveryInv(q)' BY <1>0, <1>1, <1>2 DEF RecoveryInv, SharedInv, processes
<1> QED BY <1>0, <1>1, <1>2, <1>3, <1>4, <1>5, <1>6, RecovererOnly DEF processes, RecoveryInv

\* Only directories of the guarded run's episode are touched.
LEMMA RecoverRemoveDirectoryPreserves ==
  ASSUME Inv, NEW q \in Recoverers, RecoverRemoveDirectory(q) PROVE Inv'
<1>0. TypeOK /\ SharedInv /\ RecoveryInv(q) BY DEF Inv
<1>1. UNCHANGED <<guard, data, total, approved, manifest, events, result, receipt,
                  processes, holder, rguard>> BY DEF RecoverRemoveDirectory
<1>2. PICK d \in Staging(rguard[q].run) : staging' \subseteq Unmarked(d)  \cup staging
  BY DEF RecoverRemoveDirectory, Recover, Unmarked
<1>3. d \in staging /\ [d EXCEPT !.owner = Unowned] \in Directories
      /\ [d EXCEPT !.owner = Unowned].episode = d.episode
  BY <1>0 DEF Staging, DirsOf, TypeOK, Directories
<1>4. \E s \in {"remove", "quarantine"} : rpc' = [rpc EXCEPT ![q] = s]
  BY DEF RecoverRemoveDirectory, Recover, RGoto
<1>5. rpc[q] = "remove" BY DEF RecoverRemoveDirectory, At
<1>6. TypeOK'
  <2>1. (rpc \in [Recoverers -> RecoverySteps])' BY <1>0, <1>4 DEF RecoverySteps, TypeOK
  <2>2. (staging \subseteq Directories)' BY <1>0, <1>2, <1>3 DEF Unmarked, TypeOK
  <2>3. (faults \in Nat)'
    <3>1. faults' = faults \/ faults' = faults + 1 BY DEF RecoverRemoveDirectory, Recover
    <3> QED BY <1>0, <3>1 DEF TypeOK
  <2> QED BY <1>0, <1>1, <2>1, <2>2, <2>3 DEF processes, TypeOK
<1>7. SharedInv'
  <2>1. guard # NoGuard BY <1>0, <1>5 DEF RecoveryInv
  <2>2. \A e \in staging' : e.episode = manifest[guard.run].episode
    BY <1>0, <1>2, <1>3, <2>1 DEF SharedInv, Unmarked
  <2> QED BY <1>0, <1>1, <2>1, <2>2 DEF SharedInv, processes
<1>8. rpc'[q] \in {"remove", "quarantine"} /\ \A p \in Recoverers \ {q} : rpc'[p] = rpc[p]
  BY <1>0, <1>4 DEF TypeOK
<1>9. RecoveryInv(q)' BY <1>0, <1>1, <1>5, <1>8 DEF RecoveryInv, SharedInv, processes
<1> QED BY <1>0, <1>1, <1>5, <1>6, <1>7, <1>8, <1>9, RecovererOnly DEF processes, RecoveryInv

\* No staging is left when the result is written.
LEMMA RecoverVerifyPreserves ==
  ASSUME Inv, NEW q \in Recoverers, RecoverVerify(q) PROVE Inv'
<1>0. TypeOK /\ SharedInv /\ RecoveryInv(q) BY DEF Inv
<1>1. UNCHANGED <<durable, processes, holder, rguard, faults>> BY DEF RecoverVerify
<1>2. \E s \in {"result", "quarantine"} : rpc' = [rpc EXCEPT ![q] = s] BY
    DEF RecoverVerify, RGoto
<1>3. rpc[q] = "remove" /\ Staging(rguard[q].run) = {} BY DEF RecoverVerify, At
<1>4. rpc'[q] \in {"result", "quarantine"} /\ \A p \in Recoverers \ {q} : rpc'[p] = rpc[p]
  BY <1>0, <1>2 DEF TypeOK
<1>5. TypeOK'
  <2>1. (rpc \in [Recoverers -> RecoverySteps])' BY <1>0, <1>2 DEF RecoverySteps, TypeOK
  <2> QED BY <1>0, <1>1, <2>1 DEF processes, TypeOK
<1>6. SharedInv' BY <1>0, <1>1 DEF SharedInv, processes
<1>7. RecoveryInv(q)' BY <1>0, <1>1, <1>3, <1>4
    DEF RecoveryInv, SharedInv, processes, Staging, DirsOf
<1> QED BY <1>0, <1>1, <1>3, <1>4, <1>5, <1>6, <1>7, RecovererOnly DEF processes, RecoveryInv

\* The run of a RECORDING or FROZEN guard has saved nothing.
LEMMA RecoverResultPreserves ==
  ASSUME Inv, NEW q \in Recoverers, RecoverResult(q) PROVE Inv'
<1> DEFINE r == rguard[q].run
<1>0. TypeOK /\ SharedInv /\ RecoveryInv(q) BY DEF Inv
<1>1. UNCHANGED <<guard, staging, data, total, approved, manifest, events, receipt,
                  processes, holder, rguard>> BY DEF RecoverResult
<1>2. \/ result' = [result EXCEPT ![r] = "ABORTED"] /\ rpc' = [rpc EXCEPT ![q] = "event"]
      \/ /\ result' = [result EXCEPT ![r] = "ABORTED"] \/ result' = result
         /\ rpc' = [rpc EXCEPT ![q] = "quarantine"]
  BY DEF RecoverResult, Recover, RGoto
<1>3. /\ rpc[q] = "result" /\ guard # NoGuard /\ guard = rguard[q] /\ r \in Runs
      /\ data[r] = "none" /\ pc[r] \notin {"off", "open"} /\ Staging(r) = {}
  BY <1>0 DEF RecoverResult, At, RecoveryInv, SharedInv, TypeOK, Guards
<1>4. \A p \in Recoverers \ {q} : rpc'[p] = rpc[p] BY <1>0, <1>2 DEF TypeOK
<1>5. \/ rpc'[q] = "event" /\ result'[r] = "ABORTED"
      \/ rpc'[q] = "quarantine"
  BY <1>0, <1>2, <1>3 DEF TypeOK
<1>6. \A p \in Runs : result'[p] = result[p] \/ (p = r /\ result'[p] = "ABORTED")
  BY <1>0, <1>2, <1>3 DEF TypeOK
<1>7. TypeOK'
  <2>1. (rpc \in [Recoverers -> RecoverySteps])' BY <1>0, <1>2 DEF RecoverySteps, TypeOK
  <2>2. (result \in [Runs -> {"none", "ABORTED", "COMMITTED", "QUARANTINED_COMMIT"}])'
    BY <1>0, <1>2 DEF TypeOK
  <2>3. (faults \in Nat)'
    <3>1. faults' = faults \/ faults' = faults + 1 BY DEF RecoverResult, Recover
    <3> QED BY <1>0, <3>1 DEF TypeOK
  <2> QED BY <1>0, <1>1, <2>1, <2>2, <2>3 DEF processes, TypeOK
<1>8. SharedInv' BY <1>0, <1>1, <1>3, <1>6 DEF SharedInv, processes
<1>9. RecoveryInv(q)' BY <1>0, <1>1, <1>3, <1>5
    DEF RecoveryInv, SharedInv, processes, Staging, DirsOf
<1> QED BY <1>0, <1>1, <1>3, <1>4, <1>6, <1>7, <1>8, <1>9, RecovererOnly
    DEF processes, RecoveryInv

\* The journal is rewritten with RECOVERED_ABORT.
LEMMA RecoverEventPreserves ==
  ASSUME Inv, NEW q \in Recoverers, RecoverEvent(q) PROVE Inv'
<1>0. TypeOK /\ SharedInv /\ RecoveryInv(q) BY DEF Inv
<1>1. UNCHANGED <<guard, staging, data, total, approved, manifest, result, receipt,
                  processes, holder, rguard>> BY DEF RecoverEvent
<1>2. \E s \in {"unlink", "quarantine"} : rpc' = [rpc EXCEPT ![q] = s]
  BY DEF RecoverEvent, Recover, RGoto
<1>3. rpc[q] = "event" BY DEF RecoverEvent, At
<1>4. rpc'[q] \in {"unlink", "quarantine"} /\ \A p \in Recoverers \ {q} : rpc'[p] = rpc[p]
  BY <1>0, <1>2 DEF TypeOK
<1>5. TypeOK'
  <2>1. (rpc \in [Recoverers -> RecoverySteps])' BY <1>0, <1>2 DEF RecoverySteps, TypeOK
  <2>2. (events \in [Runs -> Seq(EventNames)])'
    <3> DEFINE r == rguard[q].run
    <3>1. r \in Runs BY <1>0, <1>3 DEF RecoveryInv, TypeOK, Guards
    <3>2. Append(Undo(events[r]), "RECOVERED_ABORT") \in Seq(EventNames)
      <4>1. events[r] \in Seq(EventNames) BY <1>0, <3>1 DEF TypeOK
      <4>2. Undo(events[r]) \in Seq(EventNames) BY <4>1 DEF Undo
      <4> QED BY <4>2, EventNamesFacts, EventFacts
    <3>3. events' = events \/ events' = [events EXCEPT ![r] = Append(Undo(events[r]),
        "RECOVERED_ABORT")]
      BY <1>0, <3>1 DEF RecoverEvent, Recover, TypeOK
    <3> QED BY <1>0, <3>2, <3>3 DEF TypeOK
  <2>3. (faults \in Nat)'
    <3>1. faults' = faults \/ faults' = faults + 1 BY DEF RecoverEvent, Recover
    <3> QED BY <1>0, <3>1 DEF TypeOK
  <2> QED BY <1>0, <1>1, <2>1, <2>2, <2>3 DEF processes, TypeOK
<1>6. SharedInv' BY <1>0, <1>1 DEF SharedInv, processes
<1>7. RecoveryInv(q)' BY <1>0, <1>1, <1>3, <1>4
    DEF RecoveryInv, SharedInv, processes, Staging, DirsOf
<1> QED BY <1>0, <1>1, <1>3, <1>4, <1>5, <1>6, <1>7, RecovererOnly DEF processes, RecoveryInv

\* The guard goes when nothing of the run is left.
LEMMA RecoverUnlinkPreserves ==
  ASSUME Inv, NEW q \in Recoverers, RecoverUnlink(q) PROVE Inv'
<1>0. TypeOK /\ SharedInv /\ RecoveryInv(q) BY DEF Inv
<1>1. UNCHANGED <<staging, data, total, approved, manifest, events, result, receipt,
                  processes, rguard>> BY DEF RecoverUnlink
<1>2. /\ guard' = guard \/ guard' = NoGuard
      /\ \/ holder' = NoProcess /\ rpc' = [rpc EXCEPT ![q] = "idle"]
         \/ holder' = holder /\ rpc' = [rpc EXCEPT ![q] = "quarantine"]
  BY DEF RecoverUnlink, RGoto
<1>3. rpc[q] = "unlink" /\ guard # NoGuard /\ guard = rguard[q] /\ guard.run \in Runs
  BY <1>0 DEF RecoverUnlink, At, RecoveryInv, TypeOK, Guards
<1>4. data[guard.run] = "none" /\ staging = {}
  <2>1. Staging(guard.run) = {} /\ guard.state \in {"RECORDING", "FROZEN"} BY <1>0, <1>3
      DEF RecoveryInv
  <2> QED BY <1>0, <1>3, <2>1 DEF SharedInv, Staging, DirsOf
<1>5. \A p \in Recoverers \ {q} : rpc'[p] = rpc[p] BY <1>0, <1>2 DEF TypeOK
<1>6. rpc'[q] = "idle" \/ (rpc'[q] = "quarantine" /\ holder' = holder) BY <1>0, <1>2 DEF TypeOK
<1>7. TypeOK'
  <2>1. (rpc \in [Recoverers -> RecoverySteps])' BY <1>0, <1>2 DEF RecoverySteps, TypeOK
  <2>2. (holder \in Runs \cup Recoverers \cup {NoProcess})' BY <1>0, <1>2 DEF TypeOK
  <2>3. (guard \in Guards \cup {NoGuard})' BY <1>0, <1>2 DEF TypeOK
  <2>4. (faults \in Nat)'
    <3>1. faults' = faults \/ faults' = faults + 1 BY DEF RecoverUnlink
    <3> QED BY <1>0, <3>1 DEF TypeOK
  <2> QED BY <1>0, <1>1, <2>1, <2>2, <2>3, <2>4 DEF processes, TypeOK
<1>8. SharedInv'
  <2>1. \A p \in Runs : data[p] # "partial" BY <1>0, <1>3, <1>4 DEF SharedInv
  <2> QED BY <1>0, <1>1, <1>2, <1>4, <2>1 DEF SharedInv, processes
<1>9. RecoveryInv(q)' BY <1>0, <1>1, <1>2, <1>3, <1>6 DEF RecoveryInv, SharedInv, processes
<1> QED BY <1>0, <1>1, <1>3, <1>5, <1>7, <1>8, <1>9, RecovererOnly DEF processes, RecoveryInv

\* The guard that was read is written back, quarantined.
LEMMA RecoverQuarantinePreserves ==
  ASSUME Inv, NEW q \in Recoverers, RecoverQuarantine(q) PROVE Inv'
<1> DEFINE r == rguard[q].run
<1>0. TypeOK /\ SharedInv /\ RecoveryInv(q) BY DEF Inv
<1>1. UNCHANGED <<staging, data, total, approved, manifest, events, result, receipt,
                  processes, rguard>> BY DEF RecoverQuarantine
<1>2. /\ guard' = guard \/ guard' = [run |-> r, state |-> "QUARANTINED_COMMIT"]
      /\ holder' = NoProcess /\ rpc' = [rpc EXCEPT ![q] = "idle"]
  BY DEF RecoverQuarantine, RGoto
<1>3. /\ rpc[q] = "quarantine" /\ ~approved /\ r \in Runs /\ manifest[r] # NoManifest
      /\ pc[r] \notin {"off", "open"} /\ (guard # NoGuard => guard.run = r)
  BY <1>0 DEF RecoverQuarantine, At, RecoveryInv, TypeOK, Guards
<1>4. rpc'[q] = "idle" /\ \A p \in Recoverers \ {q} : rpc'[p] = rpc[p] BY <1>0, <1>2 DEF TypeOK
<1>5. TypeOK'
  <2>1. (rpc \in [Recoverers -> RecoverySteps])' BY <1>0, <1>2 DEF RecoverySteps, TypeOK
  <2>2. (holder \in Runs \cup Recoverers \cup {NoProcess})' BY <1>2 DEF TypeOK
  <2>3. (guard \in Guards \cup {NoGuard})' BY <1>0, <1>2, <1>3, GuardFacts, GuardNames
      DEF TypeOK
  <2>4. (faults \in Nat)'
    <3>1. faults' = faults \/ faults' = faults + 1 BY DEF RecoverQuarantine
    <3> QED BY <1>0, <3>1 DEF TypeOK
  <2> QED BY <1>0, <1>1, <2>1, <2>2, <2>3, <2>4 DEF processes, TypeOK
<1>6. SharedInv' BY <1>0, <1>1, <1>2, <1>3, GuardFacts, GuardNames DEF SharedInv, processes
<1>7. RecoveryInv(q)' BY <1>4 DEF RecoveryInv
<1> QED BY <1>0, <1>1, <1>3, <1>4, <1>5, <1>6, <1>7, RecovererOnly DEF processes, RecoveryInv

\* A recovery may die with a directory emptied, marker first.
LEMMA RecoverCrashPreserves ==
  ASSUME Inv, NEW q \in Recoverers, RecoverCrash(q) PROVE Inv'
<1>0. TypeOK /\ SharedInv /\ RecoveryInv(q) BY DEF Inv
<1>1. UNCHANGED <<guard, data, total, approved, manifest, events, result, receipt,
                  processes, rguard, faults>> BY DEF RecoverCrash
<1>2. rpc[q] # "idle" /\ rpc' = [rpc EXCEPT ![q] = "idle"] /\ holder' = NoProcess
  BY DEF RecoverCrash, RGoto
<1>3. \/ staging' = staging
      \/ /\ guard # NoGuard
         /\ \E d \in staging : staging' \subseteq staging \cup {[d EXCEPT !.owner = Unowned]}
  BY <1>0 DEF RecoverCrash, At, RecoveryInv, Unmarked, Staging, DirsOf
<1>4. \A d \in staging : /\ [d EXCEPT !.owner = Unowned] \in Directories
                         /\ [d EXCEPT !.owner = Unowned].episode = d.episode
  BY <1>0 DEF TypeOK, Directories
<1>5. rpc'[q] = "idle" /\ \A p \in Recoverers \ {q} : rpc'[p] = rpc[p] BY <1>0, <1>2 DEF TypeOK
<1>6. TypeOK'
  <2>1. (rpc \in [Recoverers -> RecoverySteps])' BY <1>0, <1>2 DEF RecoverySteps, TypeOK
  <2>2. (holder \in Runs \cup Recoverers \cup {NoProcess})' BY <1>2 DEF TypeOK
  <2>3. (staging \subseteq Directories)' BY <1>0, <1>3, <1>4 DEF TypeOK
  <2> QED BY <1>0, <1>1, <2>1, <2>2, <2>3 DEF processes, TypeOK
<1>7. SharedInv'
  <2>1. guard # NoGuard => \A d \in staging' : d.episode = manifest[guard.run].episode
    BY <1>0, <1>3, <1>4 DEF SharedInv
  <2>2. guard = NoGuard => staging' = {} BY <1>0, <1>3 DEF SharedInv
  <2> QED BY <1>0, <1>1, <2>1, <2>2 DEF SharedInv, processes
<1>8. RecoveryInv(q)' BY <1>5 DEF RecoveryInv
<1> QED BY <1>0, <1>1, <1>2, <1>5, <1>6, <1>7, <1>8, RecovererOnly DEF processes, RecoveryInv

-----------------------------------------------------------------------------
(* The invariant *)

\* The invariant holds initially.
LEMMA InitInv == Init => Inv
<1> SUFFICES ASSUME Init PROVE Inv OBVIOUS
<1> USE DEF Init
<1>1. TypeOK
  BY StepNames DEF TypeOK, Snapshots, DataStates, Operations, EpisodeStates, RecoverySteps
<1>2. SharedInv BY DEF SharedInv
<1>3. ASSUME NEW r \in Runs PROVE RunInv(r)
  <2>0. pc[r] = "off" /\ ep[r] = "IDLE" /\ data[r] = "none" /\ result[r] = "none" OBVIOUS
  <2> HIDE DEF Init
  <2> USE <2>0 DEF RunInv
  <2>1. LockInv(r) BY DEF LockInv, Holding, Busy, Waiting, Outside
  <2>2. GuardInv(r) BY
      DEF GuardInv, Guarded, Holding, Busy, Waiting, Outside, Beginning, Quarantining
  <2>3. DataInv(r) BY DEF DataInv, Unsaved
  <2>4. ResultInv(r) BY DEF ResultInv, Undecided
  <2>5. ProgressInv(r) BY
      DEF ProgressInv, Beginning, Claiming, Freezing, Discarding, Saving, Retaining,
      Quarantining
  <2>6. RetentionInv(r) BY
      DEF RetentionInv, Guarded, Busy, Waiting, Outside, Claiming, Freezing, Discarding,
      Saving, Quarantining
  <2> QED BY <2>1, <2>2, <2>3, <2>4, <2>5, <2>6
<1>4. ASSUME NEW q \in Recoverers PROVE RecoveryInv(q) BY DEF RecoveryInv
<1> QED BY <1>1, <1>2, <1>3, <1>4 DEF Inv

\* A stuttering step keeps the invariant.
LEMMA StutterInv == Inv /\ UNCHANGED vars => Inv'
BY DEF Inv, vars, TypeOK, SharedInv, RunInv, RecoveryInv, LockInv, GuardInv, DataInv,
       ResultInv, ProgressInv, RetentionInv, Holding, Guarded, Busy, Waiting, Unsaved,
       Undecided, Staging, DirsOf

\* Every step keeps the invariant.
LEMMA NextInv == Inv /\ [Next]_vars => Inv'
<1> SUFFICES ASSUME Inv, [Next]_vars PROVE Inv' OBVIOUS
<1>1. ASSUME NEW r \in Runs, RecorderStep(r) PROVE Inv'
  BY <1>1, BeginInvalidatesApprovalPreserves, BeginGuardPreserves,
     ClaimMakeDirectoryPreserves, ClaimWriteOwnerPreserves, ClaimDonePreserves,
     ClaimEventPreserves, FreezeEpisodePreserves, FreezeGuardPreserves,
     FreezeEventPreserves, ClearDirectoryPreserves, ClearDonePreserves,
     ClearFailsPreserves, VerifyCleanupPreserves, AbortResultPreserves,
     AbortEventPreserves, ReleaseGuardPreserves, CommitGuardPreserves,
     SaveStartsPreserves, SaveEndsPreserves, PublishEpisodePreserves,
     CommitEventPreserves, CommitResultPreserves, RetainCheckPreserves,
     RetainGuardPreserves, RetainPublishPreserves, RetainRecheckPreserves,
     RetainReceiptPreserves, RetainResultPreserves, RetainEventPreserves,
     QuarantineApprovalPreserves, QuarantineGuardPreserves,
     QuarantineResultPreserves, QuarantineEventPreserves, StopPreserves
  DEF RecorderStep
<1>2. ASSUME NEW r \in Runs, Command(r) PROVE Inv'
  BY <1>2, BeginEpisodePreserves, FreezeCommandPreserves, TrimCommandPreserves,
     CommitEpisodePreserves, RetainCommandPreserves DEF Command
<1>3. ASSUME NEW r \in Runs, AbortEpisode(r) \/ Open(r) \/ WriteRow(r) \/ CloseInput(r) \/ Crash(r)
      PROVE Inv'
  BY <1>3, AbortEpisodePreserves, OpenPreserves, WriteRowPreserves, CloseInputPreserves,
     StopPreserves
<1>4. ASSUME NEW q \in Recoverers, RecoveryStep(q) \/ RecoverLock(q) \/ RecoverCrash(q)
      PROVE Inv'
  BY <1>4, RecoverReadPreserves, RecoverRemoveDirectoryPreserves, RecoverVerifyPreserves,
     RecoverResultPreserves, RecoverEventPreserves, RecoverUnlinkPreserves,
     RecoverQuarantinePreserves, RecoverLockPreserves, RecoverCrashPreserves
  DEF RecoveryStep
<1>5. CASE UNCHANGED vars BY <1>5, StutterInv
<1> QED BY <1>1, <1>2, <1>3, <1>4, <1>5 DEF Next

\* The invariant holds in every reachable state, for any number of runs,
\* recoverers and cameras and any bound on the failing writes.
THEOREM Invariance == Spec => []Inv
<1> QED BY InitInv, NextInv, PTL DEF Spec

\* Every variable keeps its type.
THEOREM TypeCorrectness == Spec => []TypeOK
<1>1. Inv => TypeOK BY DEF Inv
<1> QED BY <1>1, Invariance, PTL

\* Readers never find staging or half an episode in an unguarded dataset.
THEOREM DatasetClean == Spec => []UnguardedIsClean
<1>1. Inv => UnguardedIsClean BY DEF Inv, SharedInv, UnguardedIsClean
<1> QED BY <1>1, Invariance, PTL

\* A result file never says more than the dataset holds.
THEOREM ResultsTruthful == Spec => []ResultIsTruthful
<1>1. Inv => ResultIsTruthful BY DEF Inv, SharedInv, ResultIsTruthful
<1> QED BY <1>1, Invariance, PTL

\* At most one run is recording, frozen or committing, and it holds the lock.
THEOREM Exclusion == Spec => []OneOpenTransaction
<1>1. Inv => OneOpenTransaction
  <2> SUFFICES ASSUME Inv, NEW r \in Runs, OpenTransaction(r)
               PROVE holder = r /\ guard # NoGuard /\ guard.run = r
    BY DEF OneOpenTransaction
  <2>1. RunInv(r) BY DEF Inv
  <2>2. pc[r] \notin Beginning \cup Quarantining \cup {"off", "open", "closed", "dead"}
    BY <2>1 DEF OpenTransaction, Alive, RunInv, ProgressInv, Beginning, Quarantining
  <2>3. Guarded(r) /\ Holding(r)
    BY <2>1, <2>2
        DEF OpenTransaction, RunInv, ProgressInv, Guarded, Holding, Busy, Waiting, Outside
  <2> QED BY <2>1, <2>3 DEF RunInv, LockInv, GuardInv
<1> QED BY <1>1, Invariance, PTL

\* No training approval outlives the start of a transaction.
THEOREM ApprovalWithdrawn == Spec => []NoApprovalDuringTransaction
<1>1. Inv => NoApprovalDuringTransaction BY DEF Inv, SharedInv, NoApprovalDuringTransaction
<1> QED BY <1>1, Invariance, PTL

\* What is left on disk tells the truth.
THEOREM DatasetTruthful == Spec => []DatasetIsTruthful
<1> QED BY DatasetClean, ResultsTruthful, PTL DEF DatasetIsTruthful

\* An open transaction has the lock and the guard to itself, and no approval beside it.
THEOREM TransactionExclusive == Spec => []TransactionIsExclusive
<1> QED BY Exclusion, ApprovalWithdrawn, PTL DEF TransactionIsExclusive

-----------------------------------------------------------------------------
(* Action properties and refinement *)

\* Only these steps touch the commit guard or the episodes in the dataset.
GuardStep(r) ==
    \/ BeginGuard(r) \/ FreezeGuard(r) \/ CommitGuard(r) \/ RetainGuard(r)
    \/ QuarantineGuard(r) \/ ReleaseGuard(r)
DataStep(r)  == SaveStarts(r) \/ PublishEpisode(r)
UnguardStep(q) == RecoverUnlink(q) \/ RecoverQuarantine(q)

\* All other steps leave the guard and the episodes alone.
LEMMA StepEffects ==
  ASSUME Next
  PROVE  \/ UNCHANGED <<guard, data>>
         \/ \E r \in Runs : GuardStep(r) \/ DataStep(r)
         \/ \E q \in Recoverers : UnguardStep(q)
<1>1. ASSUME NEW r \in Runs, RecorderStep(r), ~GuardStep(r), ~DataStep(r)
      PROVE UNCHANGED <<guard, data>>
  <2>1. BeginInvalidatesApproval(r) => UNCHANGED <<guard, data>> BY DEF BeginInvalidatesApproval
  <2>2. ClaimMakeDirectory(r) \/ ClaimWriteOwner(r) => UNCHANGED <<guard, data>>
    BY DEF ClaimMakeDirectory, ClaimWriteOwner
  <2>3. ClaimDone(r) \/ ClaimEvent(r) => UNCHANGED <<guard, data>> BY DEF ClaimDone, ClaimEvent
  <2>4. FreezeEpisode(r) \/ FreezeEvent(r) => UNCHANGED <<guard, data>> BY
      DEF FreezeEpisode, FreezeEvent
  <2>5. ClearDirectory(r) \/ ClearDone(r) \/ ClearFails(r) => UNCHANGED <<guard, data>>
    BY DEF ClearDirectory, ClearDone, ClearFails
  <2>6. VerifyCleanup(r) \/ AbortResult(r) \/ AbortEvent(r) => UNCHANGED <<guard, data>>
    BY DEF VerifyCleanup, AbortResult, AbortEvent
  <2>7. SaveEnds(r) \/ CommitEvent(r) \/ CommitResult(r) => UNCHANGED <<guard, data>>
    BY DEF SaveEnds, CommitEvent, CommitResult
  <2>8. RetainCheck(r) \/ RetainPublish(r) \/ RetainRecheck(r) => UNCHANGED <<guard, data>>
    BY DEF RetainCheck, RetainPublish, RetainRecheck
  <2>9. RetainReceipt(r) \/ RetainResult(r) \/ RetainEvent(r) => UNCHANGED <<guard, data>>
    BY DEF RetainReceipt, RetainResult, RetainEvent
  <2>10. QuarantineApproval(r) \/ QuarantineResult(r) \/ QuarantineEvent(r) => UNCHANGED <<guard, data>>
    BY DEF QuarantineApproval, QuarantineResult, QuarantineEvent
  <2>11. Exit(r) => UNCHANGED <<guard, data>> BY DEF Exit
  <2> QED BY <1>1, <2>1, <2>2, <2>3, <2>4, <2>5, <2>6, <2>7, <2>8, <2>9, <2>10, <2>11
          DEF RecorderStep, GuardStep, DataStep
<1>2. ASSUME NEW r \in Runs, Command(r) PROVE UNCHANGED <<guard, data>>
  <2>1. BeginEpisode(r) => UNCHANGED <<guard, data>> BY DEF BeginEpisode
  <2>2. FreezeCommand(r) \/ TrimCommand(r) => UNCHANGED <<guard, data>> BY
      DEF FreezeCommand, TrimCommand
  <2>3. CommitEpisode(r) \/ RetainCommand(r) => UNCHANGED <<guard, data>> BY
      DEF CommitEpisode, RetainCommand
  <2> QED BY <1>2, <2>1, <2>2, <2>3 DEF Command
<1>3. ASSUME NEW r \in Runs, AbortEpisode(r) \/ Open(r) \/ WriteRow(r) \/ CloseInput(r) \/ Crash(r)
      PROVE UNCHANGED <<guard, data>>
  BY <1>3 DEF AbortEpisode, Open, WriteRow, CloseInput, Crash
<1>4. ASSUME NEW q \in Recoverers, RecoveryStep(q) \/ RecoverLock(q) \/ RecoverCrash(q), ~UnguardStep(q)
      PROVE UNCHANGED <<guard, data>>
  <2>1. RecoverRead(q) \/ RecoverRemoveDirectory(q) => UNCHANGED <<guard, data>>
    BY DEF RecoverRead, RecoverRemoveDirectory
  <2>2. RecoverVerify(q) \/ RecoverResult(q) \/ RecoverEvent(q) => UNCHANGED <<guard, data>>
    BY DEF RecoverVerify, RecoverResult, RecoverEvent
  <2>3. RecoverLock(q) \/ RecoverCrash(q) => UNCHANGED <<guard, data>> BY
      DEF RecoverLock, RecoverCrash
  <2> QED BY <1>4, <2>1, <2>2, <2>3 DEF RecoveryStep, UnguardStep
<1> QED BY <1>1, <1>2, <1>3, <1>4 DEF Next

\* What a recorder's step does to the guard: it sets its own up where there was
\* none, changes the state of its own, or removes its own at the end.
LEMMA GuardStepFacts ==
  ASSUME Inv, NEW r \in Runs, GuardStep(r)
  PROVE  /\ data' = data
         /\ \/ guard' = guard
            \/ guard' # NoGuard /\ guard'.run = r /\ (guard = NoGuard \/ guard.run = r)
            \/ /\ guard' = NoGuard /\ guard # NoGuard /\ guard.run = r
               /\ \/ data[r] = "complete" /\ result[r] = "COMMITTED"
                  \/ data[r] = "none" /\ result[r] = "ABORTED" /\ Staging(r) = {}
               /\ guard.state # "QUARANTINED_COMMIT" \/ (holder = r /\ receipt[r] = "full")
<1>1. TypeOK /\ SharedInv /\ RunInv(r) BY DEF Inv
<1>2. CASE ~ReleaseGuard(r)
  <2>1. data' = data
    BY <1>2 DEF GuardStep, BeginGuard, FreezeGuard, CommitGuard, RetainGuard, QuarantineGuard
  <2>2. \/ guard' = guard
        \/ guard' # NoGuard /\ guard'.run = r
    BY <1>2, GuardFacts, GuardNames
    DEF GuardStep, BeginGuard, FreezeGuard, CommitGuard, RetainGuard, QuarantineGuard
  <2>3. pc[r] \in {"begin.guard", "freeze.guard", "commit.guard", "retain.guard", "quar.guard"}
    BY <1>2 DEF GuardStep, BeginGuard, FreezeGuard, CommitGuard, RetainGuard, QuarantineGuard
  <2>4. guard = NoGuard \/ guard.run = r
    BY <1>1, <2>3 DEF RunInv, GuardInv, Guarded, Busy, Outside, Beginning, Quarantining
  <2> QED BY <2>1, <2>2, <2>4
<1>3. CASE ReleaseGuard(r)
  <2>1. pc[r] = "release" /\ data' = data /\ (guard' = guard \/ guard' = NoGuard)
    BY <1>3 DEF ReleaseGuard
  <2>2. guard # NoGuard /\ guard.run = r /\ holder = r
    BY <1>1, <2>1
        DEF RunInv, LockInv, GuardInv, Guarded, Holding, Busy, Outside, Beginning, Quarantining
  <2>3. Staging(r) = {} /\ result[r] = (IF op[r] = "commit" THEN "COMMITTED" ELSE "ABORTED")
    BY <1>1, <2>1 DEF RunInv, DataInv, ResultInv
  <2>4. data[r] = IF op[r] = "commit" THEN "complete" ELSE "none"
    BY <1>1, <2>3 DEF SharedInv
  <2>5. guard.state # "QUARANTINED_COMMIT" \/ receipt[r] = "full"
    BY <1>1, <2>1
        DEF RunInv, RetentionInv, Guarded, Busy, Outside, Beginning, Quarantining, Discarding
  <2> QED BY <2>1, <2>2, <2>3, <2>4, <2>5
<1> QED BY <1>2, <1>3

\* What a recovery's step does to the guard: it removes that of an untouched run
\* whose staging is gone and whose result says ABORTED, or quarantines it.
LEMMA UnguardStepFacts ==
  ASSUME Inv, NEW q \in Recoverers, UnguardStep(q)
  PROVE  /\ data' = data
         /\ \/ guard' = guard
            \/ /\ guard' # NoGuard /\ guard'.run \in Runs
               /\ guard = NoGuard \/ guard.run = guard'.run
            \/ /\ guard' = NoGuard /\ guard # NoGuard /\ guard.run \in Runs
               /\ data[guard.run] = "none" /\ result[guard.run] = "ABORTED"
               /\ Staging(guard.run) = {} /\ guard.state # "QUARANTINED_COMMIT"
<1>1. TypeOK /\ SharedInv /\ RecoveryInv(q) BY DEF Inv
<1>2. CASE RecoverUnlink(q)
  <2>1. rpc[q] = "unlink" /\ data' = data /\ (guard' = guard \/ guard' = NoGuard)
    BY <1>2 DEF RecoverUnlink, At
  <2>2. /\ guard # NoGuard /\ guard.state \in {"RECORDING", "FROZEN"}
        /\ Staging(guard.run) = {} /\ result[guard.run] = "ABORTED"
    BY <1>1, <2>1 DEF RecoveryInv
  <2>3. data[guard.run] = "none" /\ guard.run \in Runs BY <1>1, <2>2
      DEF SharedInv, TypeOK, Guards
  <2> QED BY <2>1, <2>2, <2>3
<1>3. CASE RecoverQuarantine(q)
  <2>1. /\ rpc[q] = "quarantine" /\ data' = data
        /\ guard' = guard \/ guard' = [run |-> rguard[q].run, state |-> "QUARANTINED_COMMIT"]
    BY <1>3 DEF RecoverQuarantine, At
  <2>2. rguard[q].run \in Runs /\ (guard = NoGuard \/ guard.run = rguard[q].run)
    BY <1>1, <2>1 DEF RecoveryInv, TypeOK, Guards
  <2> QED BY <2>1, <2>2, GuardFacts, GuardNames
<1> QED BY <1>2, <1>3 DEF UnguardStep

\* Saving takes the guarded run's episode from nothing to a part to the whole.
LEMMA DataStepFacts ==
  ASSUME Inv, NEW r \in Runs, DataStep(r)
  PROVE  /\ guard' = guard /\ guard # NoGuard /\ guard.run = r
         /\ \/ data' = data
            \/ data[r] = "none" /\ data' = [data EXCEPT ![r] = "partial"]
            \/ data[r] = "partial" /\ data' = [data EXCEPT ![r] = "complete"]
<1>1. pc[r] \in {"save", "publish"} /\ guard' = guard BY
    DEF DataStep, SaveStarts, PublishEpisode
<1>2. /\ guard # NoGuard /\ guard.run = r
      /\ pc[r] = "save" => data[r] = "none"
      /\ pc[r] = "publish" => data[r] = "partial"
  BY <1>1
      DEF Inv, RunInv, GuardInv, DataInv, Unsaved, Guarded, Busy, Outside, Beginning,
      Quarantining
<1> QED BY <1>1, <1>2 DEF DataStep, SaveStarts, PublishEpisode

\* A guard goes only when its run's outcome is settled on disk.
THEOREM GuardReleases == Spec => GuardReleaseIsJustified
<1> DEFINE Release == guard # NoGuard /\ guard' = NoGuard =>
             \/ data[guard.run] = "complete" /\ result[guard.run] = "COMMITTED"
             \/ data[guard.run] = "none" /\ result[guard.run] = "ABORTED" /\ Staging(guard.run) = {}
<1>1. Inv /\ [Next]_vars => [Release]_vars
  <2> SUFFICES ASSUME Inv, Next, guard # NoGuard, guard' = NoGuard PROVE Release OBVIOUS
  <2>1. CASE \E r \in Runs : GuardStep(r) BY <2>1, GuardStepFacts
  <2>2. CASE \E r \in Runs : DataStep(r) BY <2>2, DataStepFacts
  <2>3. CASE \E q \in Recoverers : UnguardStep(q) BY <2>3, UnguardStepFacts
  <2> QED BY <2>1, <2>2, <2>3, StepEffects
<1> QED BY <1>1, Invariance, PTL DEF Spec, GuardReleaseIsJustified

\* A standing guard keeps its run; a quarantined one yields only to retention.
THEOREM QuarantineHolds == Spec => QuarantineIsSticky
<1> DEFINE Sticky == guard # NoGuard /\ guard' # guard =>
             \/ guard' # NoGuard /\ guard'.run = guard.run
             \/ guard' = NoGuard /\ guard.state # "QUARANTINED_COMMIT"
             \/ guard' = NoGuard /\ holder = guard.run /\ receipt[guard.run] = "full"
<1>1. Inv /\ [Next]_vars => [Sticky]_vars
  <2> SUFFICES ASSUME Inv, Next, guard # NoGuard, guard' # guard PROVE Sticky OBVIOUS
  <2>1. CASE \E r \in Runs : GuardStep(r) BY <2>1, GuardStepFacts
  <2>2. CASE \E r \in Runs : DataStep(r) BY <2>2, DataStepFacts
  <2>3. CASE \E q \in Recoverers : UnguardStep(q) BY <2>3, UnguardStepFacts
  <2> QED BY <2>1, <2>2, <2>3, StepEffects
<1> QED BY <1>1, Invariance, PTL DEF Spec, QuarantineIsSticky

\* The guard goes only with a settled outcome, and never to another run.
THEOREM GuardHonoured == Spec => GuardIsHonoured
<1> QED BY GuardReleases, QuarantineHolds DEF GuardIsHonoured

\* The recorder and the recovery implement the abstract dataset.
THEOREM Implementation == Spec => ImplementsAtomicDataset
<1> DEFINE Open0 == IF guard = NoGuard THEN NoGuard ELSE guard.run
<1>1. Init => Dataset!Init BY DEF Init, Dataset!Init
<1>2. Inv /\ [Next]_vars => [Dataset!Next]_<<Open0, data>>
  <2> SUFFICES ASSUME Inv, Next, ~UNCHANGED <<guard, data>> PROVE [Dataset!Next]_<<Open0, data>>
    BY DEF vars
  <2> USE DEF Dataset!Next, Dataset!Begin, Dataset!Write, Dataset!Complete, Dataset!Close
  <2>0. guard = NoGuard => \A r \in Runs : data[r] # "partial" BY DEF Inv, SharedInv
  <2>1. ASSUME NEW r \in Runs, GuardStep(r) PROVE [Dataset!Next]_<<Open0, data>>
    <3>1. guard # NoGuard /\ guard' = NoGuard => \A q \in Runs : data[q] # "partial"
      BY <2>1, GuardStepFacts DEF Inv, SharedInv
    <3> QED BY <2>0, <2>1, <3>1, GuardStepFacts
  <2>2. ASSUME NEW r \in Runs, DataStep(r) PROVE [Dataset!Next]_<<Open0, data>>
    BY <2>2, DataStepFacts
  <2>3. ASSUME NEW q \in Recoverers, UnguardStep(q) PROVE [Dataset!Next]_<<Open0, data>>
    <3>1. guard # NoGuard /\ guard' = NoGuard => \A r \in Runs : data[r] # "partial"
      BY <2>3, UnguardStepFacts DEF Inv, SharedInv
    <3> QED BY <2>0, <2>3, <3>1, UnguardStepFacts
  <2> QED BY <2>1, <2>2, <2>3, StepEffects
<1> QED BY <1>1, <1>2, Invariance, PTL DEF Spec, ImplementsAtomicDataset, Dataset!Spec
==============================================================================
