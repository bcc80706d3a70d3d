------------------------- MODULE RecorderTransaction -------------------------
(***************************************************************************)
(* The dataset transaction of the episode recorder                        *)
(* (tools/fr5_lerobot_recorder.py) and the recovery of an orphaned one    *)
(* (tools/data_factory_recovery.py).                                      *)
(*                                                                         *)
(* A recorder process serves one run.  It holds the dataset lock, writes  *)
(* a commit guard (meta/quarantine.json), claims one staging directory    *)
(* per camera, journals its events, and ends the transaction by saving    *)
(* the episode or by discarding it; only then does it remove the guard.   *)
(* Every write to disk is one step, so a process may die between any two  *)
(* of them; each write may also fail, leaving the old or the new content. *)
(* A recovery process may be started at any moment.                       *)
(*                                                                         *)
(* Simplifications: a run makes one accepted begin (a second one is        *)
(* refused by the code) and at most one readiness trim (the coordinator   *)
(* sends one); episode rows are abstracted to the staging they need; the  *)
(* commit's quality rejection returns to FROZEN and changes nothing here. *)
(***************************************************************************)
EXTENDS Naturals, Sequences, FiniteSets

CONSTANTS
    Runs,        \* recorder processes, one per run_id
    Recoverers,  \* invocations of the recovery command
    Cameras,     \* configured cameras, one staging directory each
    MaxFaults,   \* bound on the writes that fail in one behaviour
    NoGuard,     \* meta/quarantine.json does not exist
    NoManifest,  \* staging_manifest.json does not exist
    NoProcess,   \* nobody holds the dataset lock
    Unowned      \* owner of a staging directory without an owner marker

VARIABLES
    \* durable state, on the dataset's and the run's disk
    guard,      \* meta/quarantine.json: which run, in which state
    staging,    \* the staging directories that exist
    data,       \* per run: nothing, part, or all of its episode in the dataset
    total,      \* meta/info.json total_episodes
    approved,   \* meta/training_approved.json exists
    manifest,   \* per run: staging_manifest.json
    events,     \* per run: events.jsonl
    result,     \* per run: the state in result.json
    receipt,    \* per run: the diagnostic archive published by retain
    \* volatile state
    holder,     \* the process that holds .data_factory_transaction.lock
    pc,         \* per run: the next write of the operation in progress
    op,         \* per run: that operation
    ep,         \* per run: episode_state
    base,       \* per run: total_episodes when its process opened the dataset
    eof,        \* per run: the coordinator closed the command stream
    releasable, \* per run: retain may release the source (no release_error)
    rpc,        \* per recoverer: its next step
    rguard,     \* per recoverer: the guard it read
    faults      \* failed writes so far

durable   == <<guard, staging, data, total, approved, manifest, events, result, receipt>>
recovery  == <<rpc, rguard>>
vars == <<guard, staging, data, total, approved, manifest, events, result, receipt,
          holder, pc, op, ep, base, eof, releasable, rpc, rguard, faults>>

-----------------------------------------------------------------------------
(* Types *)

GuardStates  == {"RECORDING", "FROZEN", "COMMITTING", "QUARANTINED_COMMIT"}
EpisodeStates == {"IDLE", "RECORDING", "FROZEN", "COMMITTING", "COMMITTED",
                  "ABORTED", "QUARANTINED_COMMIT"}
Terminal     == {"COMMITTED", "ABORTED", "QUARANTINED_COMMIT"}
Guards       == [run : Runs, state : GuardStates]
Directories  == [episode : Nat, camera : Cameras, owner : Runs \cup {Unowned}]
DataStates   == {"none", "partial", "complete"}
Snapshots    == [Runs -> DataStates]
Manifests    == [episode : Nat, snapshot : Snapshots]
EventNames   == {"BEGIN", "READINESS_PREFIX_TRIMMED", "FROZEN", "ABORTED", "COMMITTED",
                 "DIAGNOSTIC_RETAINED", "DIAGNOSTIC_RETAINED_RELEASED",
                 "QUARANTINED", "RECOVERED_ABORT"}
Steps        == {"off", "open", "begin.approval", "begin.guard", "claim", "claim.event",
                 "ready", "freeze", "freeze.guard", "freeze.event", "clear", "verify",
                 "abort.result", "abort.event", "retain.receipt", "release",
                 "commit.guard", "save", "saving", "publish", "commit.event",
                 "commit.result", "retain.check", "retain.guard", "retain.publish",
                 "retain.recheck", "retain.result", "retain.event",
                 "quar.approval", "quar.guard", "quar.result", "quar.event",
                 "closed", "dead"}
Operations   == {"none", "begin", "trim", "freeze", "abort", "commit", "precommit",
                 "retain", "retaining"}
RecoverySteps == {"idle", "read", "remove", "rmdir", "result", "event", "unlink",
                  "quarantine"}

ASSUME MaxFaultsAssumption == MaxFaults \in Nat
ASSUME ProcessesAssumption == Runs \cap Recoverers = {}
ASSUME SentinelsAssumption ==
    /\ NoGuard \notin Guards
    /\ NoManifest \notin Manifests
    /\ NoProcess \notin Runs \cup Recoverers
    /\ Unowned \notin Runs

TypeOK ==
    /\ guard \in Guards \cup {NoGuard}
    /\ staging \subseteq Directories
    /\ data \in Snapshots
    /\ total \in Nat
    /\ approved \in BOOLEAN
    /\ manifest \in [Runs -> Manifests \cup {NoManifest}]
    /\ events \in [Runs -> Seq(EventNames)]
    /\ result \in [Runs -> {"none", "ABORTED", "COMMITTED", "QUARANTINED_COMMIT"}]
    /\ receipt \in [Runs -> {"none", "partial", "full"}]
    /\ holder \in Runs \cup Recoverers \cup {NoProcess}
    /\ pc \in [Runs -> Steps]
    /\ op \in [Runs -> Operations]
    /\ ep \in [Runs -> EpisodeStates]
    /\ base \in [Runs -> Nat]
    /\ eof \in [Runs -> BOOLEAN]
    /\ releasable \in [Runs -> BOOLEAN]
    /\ rpc \in [Recoverers -> RecoverySteps]
    /\ rguard \in [Recoverers -> Guards \cup {NoGuard}]
    /\ faults \in Nat

-----------------------------------------------------------------------------
(* What a process sees on disk *)

Recorded(r)   == manifest[r] # NoManifest
DirsOf(e)     == {d \in staging : d.episode = e}
Staging(r)    == DirsOf(manifest[r].episode)
OwnedBy(r, d) == d.owner = r
Claimed(r)    == \A c \in Cameras : \E d \in Staging(r) : d.camera = c /\ OwnedBy(r, d)
SnapshotUnchanged(r) == manifest[r].snapshot = data

\* The journal that recovery and retention demand: BEGIN, and FROZEN iff the
\* guard is FROZEN; a trailing RECOVERED_ABORT of an earlier attempt is ignored.
Undo(s) == IF s # <<>> /\ s[Len(s)] = "RECOVERED_ABORT" THEN SubSeq(s, 1, Len(s) - 1) ELSE s
Journal(state) == IF state = "FROZEN" THEN <<"BEGIN", "FROZEN">> ELSE <<"BEGIN">>
JournalMatches(r, state) == Undo(events[r]) = Journal(state)

\* Retention's journal check also accepts the readiness trim.
FrozenJournals == {<<"BEGIN", "FROZEN">>, <<"BEGIN", "READINESS_PREFIX_TRIMMED", "FROZEN">>}

-----------------------------------------------------------------------------
(* Outcomes of one durable write *)

Alive(r) == pc[r] \notin {"off", "closed", "dead"}
Running(r, step) == pc[r] = step
Goto(r, step)    == pc' = [pc EXCEPT ![r] = step]
Enter(r, state)  == ep' = [ep EXCEPT ![r] = state]
Fault   == faults < MaxFaults /\ faults' = faults + 1
NoFault == UNCHANGED faults
Unlock  == holder' = NoProcess

SetGuard(r, state)  == guard' = [run |-> r, state |-> state]
SetResult(r, state) == result' = [result EXCEPT ![r] = state]
Append1(r, name)    == events' = [events EXCEPT ![r] = Append(@, name)]

\* The write succeeds and the operation goes on, or it fails (with either
\* content on disk) and the transaction is quarantined.
Persist(r, new, old, next) ==
    \/ new /\ Goto(r, next) /\ NoFault /\ UNCHANGED ep
    \/ (new \/ old) /\ Fault /\ Enter(r, "QUARANTINED_COMMIT")
       /\ Goto(r, IF op[r] = "retaining" THEN "quar.guard" ELSE "quar.approval")

\* A failed check quarantines without a failed write.
Quarantine(r) ==
    /\ Enter(r, "QUARANTINED_COMMIT")
    /\ Goto(r, IF op[r] = "retaining" THEN "quar.guard" ELSE "quar.approval")

-----------------------------------------------------------------------------
Init ==
    /\ guard = NoGuard /\ staging = {} /\ total = 0 /\ approved = TRUE
    /\ data = [r \in Runs |-> "none"]
    /\ manifest = [r \in Runs |-> NoManifest]
    /\ events = [r \in Runs |-> <<>>]
    /\ result = [r \in Runs |-> "none"]
    /\ receipt = [r \in Runs |-> "none"]
    /\ holder = NoProcess
    /\ pc = [r \in Runs |-> "off"]
    /\ op = [r \in Runs |-> "none"]
    /\ ep = [r \in Runs |-> "IDLE"]
    /\ base = [r \in Runs |-> 0]
    /\ eof = [r \in Runs |-> FALSE]
    /\ releasable = [r \in Runs |-> FALSE]
    /\ rpc = [q \in Recoverers |-> "idle"]
    /\ rguard = [q \in Recoverers |-> NoGuard]
    /\ faults = 0

-----------------------------------------------------------------------------
(* The process and its command stream *)

\* The recorder opens the dataset; the episode index is fixed from here on.
Open(r) ==
    /\ Running(r, "off") /\ Goto(r, "open")
    /\ base' = [base EXCEPT ![r] = total]
    /\ UNCHANGED <<durable, recovery, holder, op, ep, eof, releasable, faults>>

\* The control loop, between two commands, finds the command stream closed.
CloseInput(r) ==
    /\ pc[r] \in {"open", "ready"} /\ ~eof[r]
    /\ eof' = [eof EXCEPT ![r] = TRUE]
    /\ UNCHANGED <<durable, recovery, holder, pc, op, ep, base, releasable, faults>>

\* What a process knew goes with it.
Forget(r) ==
    /\ op' = [op EXCEPT ![r] = "none"] /\ Enter(r, "IDLE")
    /\ base' = [base EXCEPT ![r] = 0]
    /\ eof' = [eof EXCEPT ![r] = FALSE] /\ releasable' = [releasable EXCEPT ![r] = FALSE]

\* Mutant: the process keeps the dataset lock when it ends.
ExitHolding(r) ==
    /\ \/ Running(r, "ready") /\ ep[r] \in Terminal
       \/ pc[r] \in {"open", "ready"} /\ ep[r] = "IDLE" /\ eof[r]
    /\ Goto(r, "closed")
    /\ Forget(r) /\ UNCHANGED <<durable, recovery, holder, faults>>

\* The control loop ends after a terminal response, or at the end of input.
Exit(r) ==
    /\ \/ Running(r, "ready") /\ ep[r] \in Terminal
       \/ pc[r] \in {"open", "ready"} /\ ep[r] = "IDLE" /\ eof[r]
    /\ Goto(r, "closed")
    /\ holder' = IF holder = r THEN NoProcess ELSE holder
    /\ Forget(r) /\ UNCHANGED <<durable, recovery, faults>>

\* The process dies; the kernel releases its lock, everything else stays.
Crash(r) ==
    /\ Alive(r) /\ Goto(r, "dead")
    /\ holder' = IF holder = r THEN NoProcess ELSE holder
    /\ Forget(r) /\ UNCHANGED <<durable, recovery, faults>>

Accepts(r, states) == Running(r, "ready") /\ ~eof[r] /\ ep[r] \in states

-----------------------------------------------------------------------------
(* begin: lock, manifest, approval, guard, staging, journal *)

\* Mutant: the dataset lock is taken over.
BeginUnlocked(r) ==
    /\ Running(r, "open") /\ ~eof[r]
    /\ guard = NoGuard /\ DirsOf(base[r]) = {}
    /\ op' = [op EXCEPT ![r] = "begin"]
    /\ \/ /\ manifest' = [manifest EXCEPT ![r] = [episode |-> base[r], snapshot |-> data]]
          /\ holder' = r /\ Goto(r, "begin.approval") /\ NoFault
       \/ /\ Fault /\ Goto(r, "ready") /\ UNCHANGED <<manifest, holder>>
    /\ UNCHANGED <<guard, staging, data, total, approved, events, result, receipt,
                   recovery, ep, base, eof, releasable>>

\* Mutant: a standing guard does not refuse a begin.
BeginOverGuard(r) ==
    /\ Running(r, "open") /\ ~eof[r]
    /\ holder = NoProcess /\ DirsOf(base[r]) = {}
    /\ op' = [op EXCEPT ![r] = "begin"]
    /\ \/ /\ manifest' = [manifest EXCEPT ![r] = [episode |-> base[r], snapshot |-> data]]
          /\ holder' = r /\ Goto(r, "begin.approval") /\ NoFault
       \/ /\ Fault /\ Goto(r, "ready") /\ UNCHANGED <<manifest, holder>>
    /\ UNCHANGED <<guard, staging, data, total, approved, events, result, receipt,
                   recovery, ep, base, eof, releasable>>

BeginEpisode(r) ==
    /\ Running(r, "open") /\ ~eof[r]
    /\ holder = NoProcess /\ guard = NoGuard /\ DirsOf(base[r]) = {}
    /\ op' = [op EXCEPT ![r] = "begin"]
    /\ \/ /\ manifest' = [manifest EXCEPT ![r] = [episode |-> base[r], snapshot |-> data]]
          /\ holder' = r /\ Goto(r, "begin.approval") /\ NoFault
       \/ /\ Fault /\ Goto(r, "ready") /\ UNCHANGED <<manifest, holder>>
    /\ UNCHANGED <<guard, staging, data, total, approved, events, result, receipt,
                   recovery, ep, base, eof, releasable>>

\* Mutant: the training approval survives the begin.
BeginKeepsApproval(r) ==
    /\ Running(r, "begin.approval")
    /\ \/ /\ approved' = approved /\ Goto(r, "begin.guard") /\ NoFault /\ UNCHANGED holder
       \/ /\ approved' \in {approved, FALSE} /\ Fault /\ Unlock /\ Goto(r, "ready")
    /\ UNCHANGED <<guard, staging, data, total, manifest, events, result, receipt,
                   recovery, op, ep, base, eof, releasable>>

BeginInvalidatesApproval(r) ==
    /\ Running(r, "begin.approval")
    /\ \/ /\ approved' = FALSE /\ Goto(r, "begin.guard") /\ NoFault /\ UNCHANGED holder
       \/ /\ approved' \in {approved, FALSE} /\ Fault /\ Unlock /\ Goto(r, "ready")
    /\ UNCHANGED <<guard, staging, data, total, manifest, events, result, receipt,
                   recovery, op, ep, base, eof, releasable>>

\* A guard write that fails leaves the process IDLE and the lock free.
BeginGuard(r) ==
    /\ Running(r, "begin.guard")
    /\ \/ /\ SetGuard(r, "RECORDING") /\ Enter(r, "RECORDING") /\ Goto(r, "claim")
          /\ NoFault /\ UNCHANGED holder
       \/ /\ SetGuard(r, "RECORDING") \/ UNCHANGED guard
          /\ Fault /\ Unlock /\ Goto(r, "ready") /\ UNCHANGED ep
    /\ UNCHANGED <<staging, data, total, approved, manifest, events, result, receipt,
                   recovery, op, base, eof, releasable>>

\* A claim that fails quarantines a begin; a trim reports it and goes on recording.
ClaimFails(r) ==
    /\ Fault
    /\ IF op[r] = "trim" THEN Goto(r, "ready") /\ UNCHANGED ep ELSE Quarantine(r)

ClaimMakeDirectory(r) ==
    /\ Running(r, "claim") /\ \A d \in Staging(r) : OwnedBy(r, d)
    /\ \E c \in Cameras :
         LET new == [episode |-> manifest[r].episode, camera |-> c, owner |-> Unowned]
         IN  /\ \A d \in Staging(r) : d.camera # c
             /\ \/ staging' = staging \cup {new} /\ NoFault /\ UNCHANGED <<pc, ep>>
                \/ staging' \in {staging, staging \cup {new}} /\ ClaimFails(r)
    /\ UNCHANGED <<guard, data, total, approved, manifest, events, result, receipt,
                   recovery, holder, op, base, eof, releasable>>

ClaimWriteOwner(r) ==
    /\ Running(r, "claim")
    /\ \E d \in Staging(r) :
         LET owned == (staging \ {d}) \cup {[d EXCEPT !.owner = r]}
         IN  /\ d.owner = Unowned
             /\ \/ staging' = owned /\ NoFault /\ UNCHANGED <<pc, ep>>
                \/ staging' \in {staging, owned} /\ ClaimFails(r)
    /\ UNCHANGED <<guard, data, total, approved, manifest, events, result, receipt,
                   recovery, holder, op, base, eof, releasable>>

ClaimDone(r) ==
    /\ Running(r, "claim") /\ Claimed(r) /\ Goto(r, "claim.event")
    /\ UNCHANGED <<durable, recovery, holder, op, ep, base, eof, releasable, faults>>

ClaimEvent(r) ==
    /\ Running(r, "claim.event")
    /\ Persist(r, Append1(r, IF op[r] = "trim" THEN "READINESS_PREFIX_TRIMMED" ELSE "BEGIN"),
               UNCHANGED events, "ready")
    /\ UNCHANGED <<guard, staging, data, total, approved, manifest, result, receipt,
                   recovery, holder, op, base, eof, releasable>>

-----------------------------------------------------------------------------
(* Recording, freezing and trimming *)

\* The first row of a buffer creates a missing image directory, without a marker.
WriteRow(r) ==
    /\ Running(r, "ready") /\ ep[r] = "RECORDING"
    /\ \E c \in Cameras :
         /\ \A d \in Staging(r) : d.camera # c
         /\ staging' = staging \cup
              {[episode |-> manifest[r].episode, camera |-> c, owner |-> Unowned]}
    /\ UNCHANGED <<guard, data, total, approved, manifest, events, result, receipt,
                   recovery, holder, pc, op, ep, base, eof, releasable, faults>>

FreezeCommand(r) ==
    /\ Accepts(r, {"RECORDING"})
    /\ op' = [op EXCEPT ![r] = "freeze"] /\ Goto(r, "freeze")
    /\ UNCHANGED <<durable, recovery, holder, ep, base, eof, releasable, faults>>

\* The rows drain up to the freeze request, or the sampler or a writer does not.
FreezeEpisode(r) ==
    /\ Running(r, "freeze")
    /\ \/ Enter(r, "FROZEN") /\ Goto(r, "freeze.guard")
       \/ Quarantine(r)
    /\ UNCHANGED <<durable, recovery, holder, op, base, eof, releasable, faults>>

FreezeGuard(r) ==
    /\ Running(r, "freeze.guard")
    /\ Persist(r, SetGuard(r, "FROZEN"), UNCHANGED guard, "freeze.event")
    /\ UNCHANGED <<staging, data, total, approved, manifest, events, result, receipt,
                   recovery, holder, op, base, eof, releasable>>

\* freeze, abort and retain all freeze a RECORDING episode first.
FreezeEvent(r) ==
    /\ Running(r, "freeze.event")
    /\ Persist(r, Append1(r, "FROZEN"), UNCHANGED events,
               CASE op[r] = "abort" -> "clear" [] op[r] = "retain" -> "retain.check"
                 [] OTHER -> "ready")
    /\ UNCHANGED <<guard, staging, data, total, approved, manifest, result, receipt,
                   recovery, holder, op, base, eof, releasable>>

TrimCommand(r) ==
    /\ Accepts(r, {"RECORDING"}) /\ op[r] # "trim"
    /\ op' = [op EXCEPT ![r] = "trim"]
    /\ \/ Goto(r, "clear") /\ NoFault /\ UNCHANGED ep
       \/ Fault /\ Quarantine(r)
    /\ UNCHANGED <<durable, recovery, holder, base, eof, releasable>>

-----------------------------------------------------------------------------
(* clear_episode_buffer: removes the staging directories, marker first *)

ClearDirectory(r) ==
    /\ Running(r, "clear")
    /\ \E d \in Staging(r) :
         staging' = (staging \ {d}) \cup
            (IF d.owner = Unowned THEN {} ELSE {[d EXCEPT !.owner = Unowned]})
    /\ UNCHANGED <<guard, data, total, approved, manifest, events, result, receipt,
                   recovery, holder, pc, op, ep, base, eof, releasable, faults>>

ClearDone(r) ==
    /\ Running(r, "clear") /\ Staging(r) = {}
    /\ Goto(r, IF op[r] = "trim" THEN "claim" ELSE "verify")
    /\ UNCHANGED <<durable, recovery, holder, op, ep, base, eof, releasable, faults>>

ClearFails(r) ==
    /\ Running(r, "clear") /\ ClaimFails(r)
    /\ UNCHANGED <<durable, recovery, holder, op, base, eof, releasable>>

-----------------------------------------------------------------------------
(* abort: clear, verify, result, event, then release the guard and the lock *)

\* By command, after a malformed command, or because the input ended.
AbortEpisode(r) ==
    /\ Running(r, "ready") /\ ep[r] \in {"RECORDING", "FROZEN"}
    /\ op' = [op EXCEPT ![r] = "abort"]
    /\ Goto(r, IF ep[r] = "RECORDING" THEN "freeze" ELSE "clear")
    /\ UNCHANGED <<durable, recovery, holder, ep, base, eof, releasable, faults>>

VerifyCleanup(r) ==
    /\ Running(r, "verify")
    /\ IF Staging(r) = {} /\ SnapshotUnchanged(r)
       THEN Enter(r, "ABORTED") /\ Goto(r, "abort.result")
       ELSE Quarantine(r)
    /\ UNCHANGED <<durable, recovery, holder, op, base, eof, releasable, faults>>

AbortResult(r) ==
    /\ Running(r, "abort.result")
    /\ Persist(r, SetResult(r, "ABORTED"), UNCHANGED result, "abort.event")
    /\ UNCHANGED <<guard, staging, data, total, approved, manifest, events, receipt,
                   recovery, holder, op, base, eof, releasable>>

AbortEvent(r) ==
    /\ Running(r, "abort.event")
    /\ LET retained == op[r] = "retaining" IN
       Persist(r, Append1(r, IF retained THEN "DIAGNOSTIC_RETAINED_RELEASED" ELSE "ABORTED"),
               UNCHANGED events, IF retained THEN "retain.receipt" ELSE "release")
    /\ UNCHANGED <<guard, staging, data, total, approved, manifest, result, receipt,
                   recovery, holder, op, base, eof, releasable>>

ReleaseGuard(r) ==
    /\ Running(r, "release")
    /\ Persist(r, guard' = NoGuard, UNCHANGED guard, "ready")
    /\ holder' = IF pc'[r] = "ready" THEN NoProcess ELSE holder
    /\ UNCHANGED <<staging, data, total, approved, manifest, events, result, receipt,
                   recovery, op, base, eof, releasable>>

-----------------------------------------------------------------------------
(* commit: guard, save, publish, event, result, then release *)

CommitEpisode(r) ==
    /\ Accepts(r, {"FROZEN"})
    /\ Enter(r, "COMMITTING")
    /\ \/ op' = [op EXCEPT ![r] = "commit"] /\ Goto(r, "commit.guard") /\ NoFault
       \/ op' = [op EXCEPT ![r] = "precommit"] /\ Goto(r, "clear") /\ Fault
    /\ UNCHANGED <<durable, recovery, holder, base, eof, releasable>>

\* Before the save a failure still discards the episode (_abort_precommit).
CommitGuard(r) ==
    /\ Running(r, "commit.guard")
    /\ \/ SetGuard(r, "COMMITTING") /\ Goto(r, "save") /\ NoFault /\ UNCHANGED op
       \/ /\ SetGuard(r, "COMMITTING") \/ UNCHANGED guard
          /\ Fault /\ op' = [op EXCEPT ![r] = "precommit"] /\ Goto(r, "clear")
    /\ UNCHANGED <<staging, data, total, approved, manifest, events, result, receipt,
                   recovery, holder, ep, base, eof, releasable>>

SetData(r, state) == data' = [data EXCEPT ![r] = state]

\* save_episode writes data, video and metadata, and consumes the staging.
SaveStarts(r) ==
    /\ Running(r, "save")
    /\ Persist(r, SetData(r, "partial"), UNCHANGED data, "saving")
    /\ UNCHANGED <<guard, staging, total, approved, manifest, events, result, receipt,
                   recovery, holder, op, base, eof, releasable>>

SaveEnds(r) ==
    /\ Running(r, "saving")
    /\ Persist(r, total' = base[r] + 1 /\ staging' = staging \ Staging(r),
               UNCHANGED <<total, staging>>, "publish")
    /\ UNCHANGED <<guard, data, approved, manifest, events, result, receipt,
                   recovery, holder, op, base, eof, releasable>>

\* Mutant: a failed publication is taken for a success.
PublishUnchecked(r) ==
    /\ Running(r, "publish")
    /\ \/ SetData(r, "complete") /\ Enter(r, "COMMITTED") /\ Goto(r, "commit.event") /\ NoFault
       \/ data' \in {data, [data EXCEPT ![r] = "complete"]} /\ Fault /\ Enter(r, "COMMITTED")
          /\ Goto(r, "commit.event")
    /\ UNCHANGED <<guard, staging, total, approved, manifest, events, result, receipt,
                   recovery, holder, op, base, eof, releasable>>

\* Provenance, quality log and finalize; afterwards the disk reserve is checked.
PublishEpisode(r) ==
    /\ Running(r, "publish")
    /\ \/ SetData(r, "complete") /\ Enter(r, "COMMITTED") /\ Goto(r, "commit.event") /\ NoFault
       \/ data' \in {data, [data EXCEPT ![r] = "complete"]} /\ Fault /\ Quarantine(r)
    /\ UNCHANGED <<guard, staging, total, approved, manifest, events, result, receipt,
                   recovery, holder, op, base, eof, releasable>>

\* Mutant: the guard is released before the result is written.
CommitEventLast(r) ==
    /\ Running(r, "commit.event")
    /\ Persist(r, Append1(r, "COMMITTED"), UNCHANGED events, "release")
    /\ UNCHANGED <<guard, staging, data, total, approved, manifest, result, receipt,
                   recovery, holder, op, base, eof, releasable>>

CommitEvent(r) ==
    /\ Running(r, "commit.event")
    /\ Persist(r, Append1(r, "COMMITTED"), UNCHANGED events, "commit.result")
    /\ UNCHANGED <<guard, staging, data, total, approved, manifest, result, receipt,
                   recovery, holder, op, base, eof, releasable>>

CommitResult(r) ==
    /\ Running(r, "commit.result")
    /\ Persist(r, SetResult(r, "COMMITTED"), UNCHANGED result, "release")
    /\ UNCHANGED <<guard, staging, data, total, approved, manifest, events, receipt,
                   recovery, holder, op, base, eof, releasable>>

-----------------------------------------------------------------------------
(* retain: publish a diagnostic copy, release only a fully retained source *)

RetainCommand(r) ==
    /\ Accepts(r, {"RECORDING", "FROZEN"})
    /\ op' = [op EXCEPT ![r] = "retain"]
    /\ Goto(r, IF ep[r] = "RECORDING" THEN "freeze" ELSE "retain.check")
    /\ UNCHANGED <<durable, recovery, holder, ep, base, eof, releasable, faults>>

\* validate_native_retention_source: what cannot be read is refused, what is
\* readable but changed, quarantined or badly journalled is retained unreleased.
RetainCheck(r) ==
    /\ Running(r, "retain.check")
    /\ IF guard.state \in {"FROZEN", "QUARANTINED_COMMIT"} /\ Claimed(r)
       THEN /\ releasable' = [releasable EXCEPT ![r] =
                   /\ guard.state = "FROZEN"
                   /\ events[r] \in FrozenJournals
                   /\ SnapshotUnchanged(r)]
            /\ op' = [op EXCEPT ![r] = "retaining"]
            /\ Enter(r, "QUARANTINED_COMMIT") /\ Goto(r, "retain.guard")
       ELSE Goto(r, "ready") /\ UNCHANGED <<releasable, op, ep>>
    /\ UNCHANGED <<durable, recovery, holder, base, eof, faults>>

RetainGuard(r) ==
    /\ Running(r, "retain.guard")
    /\ Persist(r, SetGuard(r, "QUARANTINED_COMMIT"), UNCHANGED guard, "retain.publish")
    /\ UNCHANGED <<staging, data, total, approved, manifest, events, result, receipt,
                   recovery, holder, op, base, eof, releasable>>

\* Mutant: a partial copy releases its source.
RetainAnyCopy(r) ==
    /\ Running(r, "retain.publish")
    /\ \E copy \in {"partial", "full"} :
         Persist(r, receipt' = [receipt EXCEPT ![r] = copy], UNCHANGED receipt,
                 IF releasable[r] THEN "retain.recheck" ELSE "retain.result")
    /\ UNCHANGED <<guard, staging, data, total, approved, manifest, events, result,
                   recovery, holder, op, base, eof, releasable>>

\* The copy is full or partial; only a full copy of a sound source is released.
RetainPublish(r) ==
    /\ Running(r, "retain.publish")
    /\ \E copy \in {"partial", "full"} :
         Persist(r, receipt' = [receipt EXCEPT ![r] = copy], UNCHANGED receipt,
                 IF copy = "full" /\ releasable[r] THEN "retain.recheck" ELSE "retain.result")
    /\ UNCHANGED <<guard, staging, data, total, approved, manifest, events, result,
                   recovery, holder, op, base, eof, releasable>>

RetainRecheck(r) ==
    /\ Running(r, "retain.recheck")
    /\ IF Claimed(r) /\ SnapshotUnchanged(r) THEN Goto(r, "clear") /\ UNCHANGED ep
       ELSE Quarantine(r)
    /\ UNCHANGED <<durable, recovery, holder, op, base, eof, releasable, faults>>

\* The receipt is rewritten as RELEASED before the guard goes.
RetainReceipt(r) ==
    /\ Running(r, "retain.receipt")
    /\ Persist(r, UNCHANGED receipt, UNCHANGED receipt, "release")
    /\ UNCHANGED <<durable, recovery, holder, op, base, eof, releasable>>

RetainResult(r) ==
    /\ Running(r, "retain.result")
    /\ Persist(r, SetResult(r, "QUARANTINED_COMMIT"), UNCHANGED result, "retain.event")
    /\ UNCHANGED <<guard, staging, data, total, approved, manifest, events, receipt,
                   recovery, holder, op, base, eof, releasable>>

RetainEvent(r) ==
    /\ Running(r, "retain.event")
    /\ Persist(r, Append1(r, "DIAGNOSTIC_RETAINED"), UNCHANGED events, "ready")
    /\ UNCHANGED <<guard, staging, data, total, approved, manifest, result, receipt,
                   recovery, holder, op, base, eof, releasable>>

-----------------------------------------------------------------------------
(* _persist_quarantine: four writes, each may fail and the next one follows *)

Attempt(r, new, old, next) ==
    /\ Goto(r, next)
    /\ \/ new /\ NoFault
       \/ (new \/ old) /\ Fault

QuarantineApproval(r) ==
    /\ Running(r, "quar.approval")
    /\ Attempt(r, approved' = FALSE, UNCHANGED approved, "quar.guard")
    /\ UNCHANGED <<guard, staging, data, total, manifest, events, result, receipt,
                   recovery, holder, op, ep, base, eof, releasable>>

QuarantineGuard(r) ==
    /\ Running(r, "quar.guard")
    /\ Attempt(r, SetGuard(r, "QUARANTINED_COMMIT"), UNCHANGED guard, "quar.result")
    /\ UNCHANGED <<staging, data, total, approved, manifest, events, result, receipt,
                   recovery, holder, op, ep, base, eof, releasable>>

QuarantineResult(r) ==
    /\ Running(r, "quar.result")
    /\ Attempt(r, SetResult(r, "QUARANTINED_COMMIT"), UNCHANGED result, "quar.event")
    /\ UNCHANGED <<guard, staging, data, total, approved, manifest, events, receipt,
                   recovery, holder, op, ep, base, eof, releasable>>

\* A freeze that quarantined inside retain goes on to retain what there is.
QuarantineEvent(r) ==
    /\ Running(r, "quar.event")
    /\ Attempt(r, Append1(r, "QUARANTINED"), UNCHANGED events,
               IF op[r] = "retain" THEN "retain.check" ELSE "ready")
    /\ UNCHANGED <<guard, staging, data, total, approved, manifest, result, receipt,
                   recovery, holder, op, ep, base, eof, releasable>>

-----------------------------------------------------------------------------
(* recover_orphaned_transaction *)

RGoto(q, step) == rpc' = [rpc EXCEPT ![q] = step]
At(q, step)    == rpc[q] = step
processes == <<pc, op, ep, base, eof, releasable>>

\* A write of the recovery succeeds, or fails and the guard is quarantined.
Recover(q, new, old, next) ==
    \/ new /\ RGoto(q, next) /\ NoFault
    \/ (new \/ old) /\ Fault /\ RGoto(q, "quarantine")

RecoverLock(q) ==
    /\ At(q, "idle") /\ holder = NoProcess
    /\ holder' = q /\ RGoto(q, "read")
    /\ UNCHANGED <<durable, processes, rguard, faults>>

\* What recovery demands of an orphan before it touches anything.
Recoverable(g) ==
    /\ g.state \in {"RECORDING", "FROZEN"}
    /\ JournalMatches(g.run, g.state)
    /\ SnapshotUnchanged(g.run)

\* Mutant: an invocation that finds no guard keeps the lock.
RecoverReadLocked(q) ==
    /\ At(q, "read")
    /\ rguard' = [rguard EXCEPT ![q] = guard]
    /\ IF guard = NoGuard THEN RGoto(q, "idle") /\ UNCHANGED holder
       ELSE RGoto(q, IF Recoverable(guard) THEN "remove" ELSE "quarantine") /\ UNCHANGED holder
    /\ UNCHANGED <<durable, processes, faults>>

RecoverRead(q) ==
    /\ At(q, "read")
    /\ rguard' = [rguard EXCEPT ![q] = guard]
    /\ IF guard = NoGuard THEN Unlock /\ RGoto(q, "idle")
       ELSE RGoto(q, IF Recoverable(guard) THEN "remove" ELSE "quarantine") /\ UNCHANGED holder
    /\ UNCHANGED <<durable, processes, faults>>

\* A directory is emptied, marker and all, and removed only under the orphan's
\* own marker; anything else quarantines.
Unmarked(d) == (staging \ {d}) \cup {[d EXCEPT !.owner = Unowned]}

RecoverRemoveDirectory(q) ==
    /\ At(q, "remove")
    /\ \E d \in Staging(rguard[q].run) :
         IF OwnedBy(rguard[q].run, d)
         THEN Recover(q, staging' = staging \ {d}, staging' \in {staging, Unmarked(d)}, "remove")
         ELSE RGoto(q, "quarantine") /\ UNCHANGED <<staging, faults>>
    /\ UNCHANGED <<guard, data, total, approved, manifest, events, result, receipt,
                   processes, holder, rguard>>

\* Mutant: recovery does not wait for the last staging directory.
RecoverEarly(q) ==
    /\ At(q, "remove")
    /\ RGoto(q, IF SnapshotUnchanged(rguard[q].run) THEN "result" ELSE "quarantine")
    /\ UNCHANGED <<durable, processes, holder, rguard, faults>>

\* Mutant: recovery writes no result.
RecoverSkipsResult(q) ==
    /\ At(q, "remove") /\ Staging(rguard[q].run) = {}
    /\ RGoto(q, IF SnapshotUnchanged(rguard[q].run) THEN "event" ELSE "quarantine")
    /\ UNCHANGED <<durable, processes, holder, rguard, faults>>

RecoverVerify(q) ==
    /\ At(q, "remove") /\ Staging(rguard[q].run) = {}
    /\ RGoto(q, IF SnapshotUnchanged(rguard[q].run) THEN "result" ELSE "quarantine")
    /\ UNCHANGED <<durable, processes, holder, rguard, faults>>

RecoverResult(q) ==
    /\ At(q, "result")
    /\ Recover(q, SetResult(rguard[q].run, "ABORTED"), UNCHANGED result, "event")
    /\ UNCHANGED <<guard, staging, data, total, approved, manifest, events, receipt,
                   processes, holder, rguard>>

RecoverEvent(q) ==
    /\ At(q, "event")
    /\ LET r == rguard[q].run IN
       Recover(q, events' = [events EXCEPT ![r] = Append(Undo(@), "RECOVERED_ABORT")],
               UNCHANGED events, "unlink")
    /\ UNCHANGED <<guard, staging, data, total, approved, manifest, result, receipt,
                   processes, holder, rguard>>

RecoverUnlink(q) ==
    /\ At(q, "unlink")
    /\ \/ guard' = NoGuard /\ RGoto(q, "idle") /\ Unlock /\ NoFault
       \/ guard' \in {guard, NoGuard} /\ Fault /\ RGoto(q, "quarantine") /\ UNCHANGED holder
    /\ UNCHANGED <<staging, data, total, approved, manifest, events, result, receipt,
                   processes, rguard>>

\* The guard that was read is written back as quarantined.
RecoverQuarantine(q) ==
    /\ At(q, "quarantine")
    /\ \/ SetGuard(rguard[q].run, "QUARANTINED_COMMIT") /\ NoFault
       \/ (SetGuard(rguard[q].run, "QUARANTINED_COMMIT") \/ UNCHANGED guard) /\ Fault
    /\ RGoto(q, "idle") /\ Unlock
    /\ UNCHANGED <<staging, data, total, approved, manifest, events, result, receipt,
                   processes, rguard>>

\* The command dies, perhaps while it empties a directory.
RecoverCrash(q) ==
    /\ rpc[q] # "idle" /\ RGoto(q, "idle") /\ Unlock
    /\ \/ UNCHANGED staging
       \/ /\ At(q, "remove")
          /\ \E d \in Staging(rguard[q].run) :
               OwnedBy(rguard[q].run, d) /\ staging' = Unmarked(d)
    /\ UNCHANGED <<guard, data, total, approved, manifest, events, result, receipt,
                   processes, rguard, faults>>

-----------------------------------------------------------------------------
(* The specification *)

\* What the recorder does by itself, given that its process runs.
RecorderStep(r) ==
    \/ BeginInvalidatesApproval(r) \/ BeginGuard(r)
    \/ ClaimMakeDirectory(r) \/ ClaimWriteOwner(r) \/ ClaimDone(r) \/ ClaimEvent(r)
    \/ FreezeEpisode(r) \/ FreezeGuard(r) \/ FreezeEvent(r)
    \/ ClearDirectory(r) \/ ClearDone(r) \/ ClearFails(r)
    \/ VerifyCleanup(r) \/ AbortResult(r) \/ AbortEvent(r) \/ ReleaseGuard(r)
    \/ CommitGuard(r) \/ SaveStarts(r) \/ SaveEnds(r) \/ PublishEpisode(r)
    \/ CommitEvent(r) \/ CommitResult(r)
    \/ RetainCheck(r) \/ RetainGuard(r) \/ RetainPublish(r) \/ RetainRecheck(r)
    \/ RetainReceipt(r) \/ RetainResult(r) \/ RetainEvent(r)
    \/ QuarantineApproval(r) \/ QuarantineGuard(r) \/ QuarantineResult(r) \/ QuarantineEvent(r)
    \/ Exit(r)

\* What the coordinator asks of it.
Command(r) ==
    \/ BeginEpisode(r) \/ FreezeCommand(r) \/ TrimCommand(r) \/ CommitEpisode(r)
    \/ RetainCommand(r)

RecoveryStep(q) ==
    \/ RecoverRead(q) \/ RecoverRemoveDirectory(q) \/ RecoverVerify(q)
    \/ RecoverResult(q) \/ RecoverEvent(q) \/ RecoverUnlink(q) \/ RecoverQuarantine(q)

Next ==
    \/ \E r \in Runs : \/ RecorderStep(r) \/ Command(r) \/ AbortEpisode(r)
                       \/ Open(r) \/ WriteRow(r) \/ CloseInput(r) \/ Crash(r)
    \/ \E q \in Recoverers : RecoveryStep(q) \/ RecoverLock(q) \/ RecoverCrash(q)

Spec == Init /\ [][Next]_vars

\* A running process takes its next step; a process whose input ended aborts
\* what is open.  Nothing forces a command, a crash, or a start of the recovery.
Fairness ==
    /\ \A r \in Runs : /\ WF_vars(RecorderStep(r))
                       /\ WF_vars(eof[r] /\ AbortEpisode(r))
    /\ \A q \in Recoverers : WF_vars(RecoveryStep(q))

FairSpec == Spec /\ Fairness

-----------------------------------------------------------------------------
(* Properties *)

\* Without a guard the dataset holds no partial episode and no staging: what a
\* reader finds then is only whole episodes, whatever died or failed before
\* (begin_episode, commit_episode, abort_episode, recover_orphaned_transaction).
UnguardedIsClean ==
    guard = NoGuard => staging = {} /\ \A r \in Runs : data[r] # "partial"

\* A result file never claims more than the dataset holds: COMMITTED means all
\* of the episode is there, ABORTED means none of it is, whether the recorder
\* or the recovery wrote it.
ResultIsTruthful ==
    \A r \in Runs :
        /\ result[r] = "COMMITTED" => data[r] = "complete"
        /\ result[r] = "ABORTED" => data[r] = "none"

\* An open transaction is exclusive: its process holds the dataset lock, and
\* the guard on disk, once there is one, is its own.
OpenTransaction(r) == Alive(r) /\ ep[r] \in {"RECORDING", "FROZEN", "COMMITTING"}
OneOpenTransaction ==
    \A r \in Runs : OpenTransaction(r) => holder = r /\ guard # NoGuard /\ guard.run = r

\* While a guard stands or an episode is partial, no training approval of the
\* previous dataset is left: begin withdraws it before anything is written.
NoApprovalDuringTransaction == guard # NoGuard => ~approved

\* What is left on disk tells the truth: an unguarded dataset is whole, and a
\* result file claims no more than the dataset holds.
DatasetIsTruthful == UnguardedIsClean /\ ResultIsTruthful

\* One process writes at a time, and none trains on what it writes: an open
\* transaction has the lock and the guard, and no approval stands beside it.
TransactionIsExclusive == OneOpenTransaction /\ NoApprovalDuringTransaction

\* A guard is released only when its run's outcome is settled on disk: saved
\* whole with result COMMITTED, or untouched, without staging, with result ABORTED.
GuardReleaseIsJustified ==
    [][guard # NoGuard /\ guard' = NoGuard =>
         \/ data[guard.run] = "complete" /\ result[guard.run] = "COMMITTED"
         \/ data[guard.run] = "none" /\ result[guard.run] = "ABORTED" /\ Staging(guard.run) = {}]_vars

\* A standing guard is never taken over by another run, and a quarantined one
\* is released only by its live owner after a full diagnostic copy.
QuarantineIsSticky ==
    [][guard # NoGuard /\ guard' # guard =>
         \/ guard' # NoGuard /\ guard'.run = guard.run
         \/ guard' = NoGuard /\ guard.state # "QUARANTINED_COMMIT"
         \/ guard' = NoGuard /\ holder = guard.run /\ receipt[guard.run] = "full"]_vars

\* The guard does its work: it goes only with a settled outcome, never to another
\* run, and not before the copy when it is quarantined.
GuardIsHonoured == GuardReleaseIsJustified /\ QuarantineIsSticky

\* Once the command stream has ended, or the process is dead, the recorder
\* eventually lets go of the dataset lock; a recovery that got it does too.
LockIsGivenBack ==
    /\ \A r \in Runs : eof[r] ~> holder # r
    /\ \A q \in Recoverers : (holder = q) ~> (holder # q)

\* An orphan whose journal is what the recorder writes for a RECORDING or
\* FROZEN transaction, and whose staging it still owns, is recovered.
OrphansRecover ==
    [][\A q \in Recoverers :
         At(q, "read") /\ guard # NoGuard /\ RecoverRead(q) =>
            (/\ guard.state \in {"RECORDING", "FROZEN"}
             /\ events[guard.run] # <<>>
             /\ (guard.state = "FROZEN") = (events[guard.run][Len(events[guard.run])] = "FROZEN")
             /\ Claimed(guard.run) /\ SnapshotUnchanged(guard.run)
             => rpc'[q] = "remove")]_vars

-----------------------------------------------------------------------------
(* The abstract dataset *)

Dataset == INSTANCE AtomicDataset WITH
    Nobody <- NoGuard, content <- data,
    open <- IF guard = NoGuard THEN NoGuard ELSE guard.run

\* Locks, guards, failing writes, crashes and recoveries together give readers
\* a dataset with one writer at a time and no half-written episode on release.
ImplementsAtomicDataset == Dataset!Spec

=============================================================================
