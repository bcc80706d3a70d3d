----------------------- MODULE RecorderTransactionInv -----------------------
(***************************************************************************)
(* The inductive invariant of RecorderTransaction: who holds the lock,     *)
(* whose guard stands, what may be on disk at each step.  TLC checks it on *)
(* small instances; RecorderTransactionProofs proves it.                   *)
(***************************************************************************)
EXTENDS RecorderTransaction

Outside      == {"off", "open", "ready", "closed", "dead"}
Beginning    == {"begin.approval", "begin.guard"}
Quarantining == {"quar.approval", "quar.guard", "quar.result", "quar.event"}
Discarding   == {"clear", "verify", "abort.result", "abort.event", "retain.receipt", "release"}
Saving       == {"commit.guard", "save", "saving", "publish", "commit.event", "commit.result"}
Retaining    == {"retain.guard", "retain.publish", "retain.recheck", "retain.result",
                 "retain.event"}
Claiming     == {"claim", "claim.event"}
Freezing     == {"freeze", "freeze.guard", "freeze.event"}

\* An operation in progress, and a transaction waiting for the next command.
Busy(r)    == pc[r] \notin Outside
Waiting(r) == pc[r] = "ready" /\ ep[r] \in {"RECORDING", "FROZEN"}

\* The steps at which the guard is on disk and is this run's.
Guarded(r) ==
    \/ Waiting(r)
    \/ Busy(r) /\ pc[r] \notin Beginning \cup Quarantining
    \/ pc[r] \in Quarantining /\ op[r] = "retain"
Holding(r) == Busy(r) \/ Waiting(r)

-----------------------------------------------------------------------------
(* Shared state: everything unfinished belongs to the run of the guard *)

SharedInv ==
    /\ guard = NoGuard =>
         /\ staging = {}
         /\ \A r \in Runs : data[r] # "partial"
    /\ guard # NoGuard =>
         /\ ~approved
         /\ manifest[guard.run] # NoManifest
         /\ pc[guard.run] \notin {"off", "open"}
         /\ \A d \in staging : d.episode = manifest[guard.run].episode
         /\ \A r \in Runs : data[r] = "partial" => r = guard.run
         /\ guard.state \in {"RECORDING", "FROZEN"} => data[guard.run] = "none"
    /\ \A r \in Runs : result[r] = "COMMITTED" => data[r] = "complete"
    /\ \A r \in Runs : result[r] = "ABORTED" => data[r] = "none"

-----------------------------------------------------------------------------
(* One recorder process *)

LockInv(r)  == Holding(r) => holder = r /\ manifest[r] # NoManifest

GuardInv(r) ==
    /\ Guarded(r) => guard # NoGuard /\ guard.run = r
    /\ pc[r] \in Beginning => guard = NoGuard
    /\ pc[r] \in Quarantining /\ guard # NoGuard => guard.run = r
    /\ pc[r] \in {"save", "saving"} => guard.state = "COMMITTING"
    /\ Holding(r) /\ pc[r] # "begin.approval" => ~approved

\* Nothing of the episode is in the dataset yet, or none of it ever will be.
Unsaved(r) ==
    \/ pc[r] \in {"off", "open", "retain.check", "commit.guard", "save"}
         \cup Beginning \cup Claiming \cup Freezing \cup Retaining
    \/ Waiting(r)
    \/ pc[r] \in Quarantining /\ op[r] = "retain"
    \/ pc[r] \in Discarding /\ op[r] # "commit"

DataInv(r) ==
    /\ Unsaved(r) => data[r] = "none"
    /\ pc[r] \in {"saving", "publish"} => data[r] = "partial"
    /\ pc[r] \in {"commit.event", "commit.result"} => data[r] = "complete"
    /\ pc[r] \in {"abort.result", "abort.event", "retain.receipt", "release",
                  "publish", "commit.event", "commit.result"} => Staging(r) = {}

Undecided(r) ==
    \/ pc[r] \in {"off", "open", "retain.check", "clear", "verify", "abort.result"}
         \cup Beginning \cup Claiming \cup Freezing \cup Saving
         \cup (Retaining \ {"retain.event"})
    \/ Waiting(r)
    \/ pc[r] \in Quarantining /\ op[r] = "retain"

ResultInv(r) ==
    /\ pc[r] \in {"abort.event", "retain.receipt"} => result[r] = "ABORTED"
    /\ pc[r] = "release" => result[r] = IF op[r] = "commit" THEN "COMMITTED" ELSE "ABORTED"
    /\ Undecided(r) => result[r] \notin {"ABORTED", "COMMITTED"}

\* The operation and the episode_state that go with a step.
ProgressInv(r) ==
    /\ pc[r] \in Beginning \cup {"off", "open"} => ep[r] = "IDLE"
    /\ pc[r] \in Beginning => op[r] = "begin"
    /\ pc[r] \in Claiming => op[r] \in {"begin", "trim"} /\ ep[r] = "RECORDING"
    /\ pc[r] \in Freezing => op[r] \in {"freeze", "abort", "retain"}
    /\ pc[r] = "freeze" => ep[r] = "RECORDING"
    /\ pc[r] \in {"freeze.guard", "freeze.event"} => ep[r] = "FROZEN"
    /\ pc[r] = "clear" /\ op[r] = "trim" => ep[r] = "RECORDING"
    /\ pc[r] \in Discarding \ {"clear"} => op[r] # "trim"
    /\ pc[r] \in Discarding => op[r] # "retain"
    /\ pc[r] \in Discarding \ {"release"} => op[r] # "commit"
    /\ pc[r] = "release" => ep[r] \in Terminal
    /\ pc[r] \in {"abort.result", "abort.event", "retain.receipt", "commit.event",
                  "commit.result"} => ep[r] \in Terminal
    /\ pc[r] \in Saving => op[r] = "commit"
    /\ pc[r] = "retain.check" => op[r] = "retain" /\ ep[r] # "COMMITTING"
    /\ pc[r] \in Retaining => op[r] = "retaining" /\ ep[r] = "QUARANTINED_COMMIT"
    /\ pc[r] \in Quarantining => ep[r] = "QUARANTINED_COMMIT"
    /\ pc[r] = "ready" => ep[r] # "COMMITTING"

\* A quarantined guard is released only by a retention with a full copy.
RetentionInv(r) ==
    /\ pc[r] = "retain.recheck" => receipt[r] = "full"
    /\ pc[r] \in Discarding /\ op[r] = "retaining" => receipt[r] = "full"
    /\ pc[r] \in Discarding \cup Claiming \cup Freezing \cup Saving /\ op[r] # "retaining"
         => ep[r] # "QUARANTINED_COMMIT"
    /\ Waiting(r) => op[r] # "retaining"
    /\ Guarded(r) /\ ep[r] # "QUARANTINED_COMMIT" /\ op[r] # "retaining"
         => guard.state # "QUARANTINED_COMMIT"

RunInv(r) == /\ LockInv(r) /\ GuardInv(r) /\ DataInv(r) /\ ResultInv(r)
             /\ ProgressInv(r) /\ RetentionInv(r)

-----------------------------------------------------------------------------
(* One recovery process *)

RecoveryInv(q) ==
    /\ rpc[q] # "idle" => holder = q
    /\ rpc[q] \in {"remove", "result", "event", "unlink"} =>
         /\ guard # NoGuard /\ guard = rguard[q]
         /\ guard.state \in {"RECORDING", "FROZEN"}
    /\ rpc[q] \in {"result", "event", "unlink"} => Staging(guard.run) = {}
    /\ rpc[q] \in {"event", "unlink"} => result[guard.run] = "ABORTED"
    /\ rpc[q] = "quarantine" =>
         /\ ~approved /\ rguard[q] # NoGuard
         /\ manifest[rguard[q].run] # NoManifest
         /\ pc[rguard[q].run] \notin {"off", "open"}
         /\ guard # NoGuard => guard.run = rguard[q].run

Inv == /\ TypeOK /\ SharedInv
       /\ \A r \in Runs : RunInv(r)
       /\ \A q \in Recoverers : RecoveryInv(q)
=============================================================================
