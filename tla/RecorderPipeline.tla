--------------------------- MODULE RecorderPipeline ---------------------------
(***************************************************************************)
(* The threads inside one recorder process (fr5_lerobot_recorder.py): a    *)
(* sampler computes the targets of the rows alignment_delay behind the     *)
(* clock and puts the aligned samples in a bounded queue, a writer adds    *)
(* them to LeRobot's episode buffer, whose images LeRobot writes in        *)
(* threads of its own, and the control thread trims, freezes, commits,     *)
(* retains or aborts around them.  They share self.lock; the sampling, the *)
(* adding of a row and the waiting happen outside it.                      *)
(*                                                                         *)
(* A row is the stamp of its target, in periods of the recorder (1 / fps)  *)
(* since begin.  The durable files of the transaction are those of         *)
(* RecorderTransaction and are left out, with their failures; what the     *)
(* quality gate says beyond the counters kept here is a free choice.  The  *)
(* episode is one the coordinator runs: a refused trim is followed by an   *)
(* abort or a retention.  The sources have delivered (begin waits for      *)
(* them) and the rings that hold their samples survive a trim.             *)
(***************************************************************************)
EXTENDS Integers, Sequences, FiniteSets, Functions

CONSTANTS
    Delay,        \* alignment_delay, in periods
    Patience,     \* the deadline of a freeze beyond it, in periods
    Fps,          \* targets the sampler takes in one pass
    QueueSize,    \* writer_queue_size, and the images the image writer may owe
    LastCommand,  \* bound: no trim and no freeze starts later
    MaxTrims,     \* bound on the trims
    MaxFaults     \* bound on what fails: samples, rows, calls, threads, a signal

ASSUME PipelineAssumption ==
    /\ {Delay, LastCommand, MaxTrims, MaxFaults} \subseteq Nat
    /\ {Fps, QueueSize} \subseteq Nat \ {0}
    /\ Patience \in Nat \ {0, 1}

VARIABLES
    now,      \* the ROS clock, taken to run with the monotonic one
    rec,      \* episode_state, recording, sampler_epoch, next_target_stamp,
              \* alignment_tail_target; first: the first stamp of the epoch
    book,     \* frame_stamps and enqueue_attempts; drops, alignment failures, writer_error
    sampler,  \* the targets of this pass, the epoch they belong to, the step
    queue,    \* writer_queue
    writer,   \* the row in the writer's hands and the step
    data,     \* LeRobot's buffer, the rows whose images it owes and whose images are
              \* on disk; the rows of the diagnostic episode
    control,  \* the step of the control thread, and what it froze for
    shutdown,     \* a signal has shut the ROS context down
    interrupted,  \* history: a freeze was left by a raise
    faults

threads == <<sampler, queue, writer>>
world == <<now, shutdown, interrupted>>
vars == <<rec, book, threads, data, control, world, faults>>

Phases == {"RECORDING", "FREEZING", "FROZEN", "COMMITTED", "ABORTED", "QUARANTINED_COMMIT"}
Steps == {"idle", "refused", "over", "died", "trimJoin", "trimDrain", "trim",
          "tail", "late", "join", "drain", "seal", "clear", "closeJoin", "close",
          "retain", "retainDrain", "copy", "release"}
Purposes == {"freeze", "abort", "retain", "close", "keep", "release"}
LastStamp == LastCommand + Delay + Patience
Stamps == 0..LastStamp

Fails == faults < MaxFaults /\ faults' = faults + 1
NoRows == [rows |-> <<>>, attempts |-> 0, dropped |-> FALSE, misaligned |-> FALSE, error |-> FALSE]

\* an episode that begin_episode has just begun
Init ==
    /\ now = 0
    /\ rec = [phase |-> "RECORDING", recording |-> TRUE, epoch |-> 1, cursor |-> 0,
              tail |-> 0, first |-> 0]
    /\ book = NoRows
    /\ sampler = [batch |-> <<>>, epoch |-> 1, step |-> "look"]
    /\ queue = <<>>
    /\ writer = [step |-> "idle", row |-> 0]
    /\ data = [buffer |-> <<>>, owed |-> {}, staged |-> {}, retained |-> <<>>]
    /\ control = [step |-> "idle", purpose |-> "freeze"]
    /\ shutdown = FALSE /\ interrupted = FALSE /\ faults = 0

-----------------------------------------------------------------------------
(* The sampler.                                                            *)

SamplerKeeps == UNCHANGED <<writer, data, control, world>>
Live == rec.recording /\ sampler.epoch = rec.epoch
NextTarget == [sampler EXCEPT !.batch = Tail(@), !.step = "look"]

\* under the lock: the targets due, at most a second's worth
SampleTargets ==
    LET due == now - Delay - rec.cursor + 1
        n == IF due > Fps THEN Fps ELSE due
    IN  /\ sampler.step = "look" /\ sampler.batch = <<>>
        /\ rec.recording /\ due > 0
        /\ sampler' = [batch |-> [i \in 1..n |-> rec.cursor + i - 1],
                       epoch |-> rec.epoch, step |-> "look"]
        /\ rec' = [rec EXCEPT !.cursor = @ + n]
        /\ SamplerKeeps /\ UNCHANGED <<book, queue, faults>>

\* the first look and _aligned_sample: a source may have no sample near the target,
\* or an old one.  The two sections of the lock are one step here: what changes
\* between them the second look sees.
AlignTarget ==
    /\ sampler.step = "look" /\ sampler.batch # <<>>
    /\ \/ /\ sampler' = IF Live THEN [sampler EXCEPT !.step = "put"] ELSE NextTarget
          /\ UNCHANGED faults
       \/ /\ sampler' = [sampler EXCEPT !.step = "missed"]
          /\ Live /\ Fails
    /\ SamplerKeeps /\ UNCHANGED <<rec, book, queue>>

\* _record_alignment_failure, under the lock again
CountMissed ==
    /\ sampler.step = "missed"
    /\ book' = [book EXCEPT !.misaligned = (@ \/ sampler.epoch = rec.epoch)]
    /\ sampler' = NextTarget
    /\ SamplerKeeps /\ UNCHANGED <<rec, queue, faults>>

\* put_nowait or a drop, if it counts at all
Puts(counts, room) ==
    /\ sampler.step = "put"
    /\ sampler' = NextTarget
    /\ book' = IF counts THEN [book EXCEPT !.attempts = @ + 1, !.dropped = (@ \/ ~room)] ELSE book
    /\ queue' = IF counts /\ room THEN Append(queue, Head(sampler.batch)) ELSE queue
    /\ SamplerKeeps /\ UNCHANGED <<rec, faults>>

\* (mutants: however long the queue is; without the second look)
PutUnbounded == Puts(Live, TRUE)
PutUnlooked == Puts(TRUE, Len(queue) < QueueSize)

\* the second look
PutRow == Puts(Live, Len(queue) < QueueSize)

\* nothing in the loop catches an exception
SamplerDies ==
    /\ sampler.step # "dead" /\ Fails
    /\ sampler' = [sampler EXCEPT !.batch = <<>>, !.step = "dead"]
    /\ SamplerKeeps /\ UNCHANGED <<rec, book, queue>>

SamplerStep == SampleTargets \/ AlignTarget \/ CountMissed \/ PutRow

-----------------------------------------------------------------------------
(* The writer, and LeRobot's image writer.                                 *)

WriterKeeps == UNCHANGED <<rec, sampler, control, world>>

TakeRow ==
    /\ writer.step = "idle" /\ queue # <<>>
    /\ writer' = [step |-> "check", row |-> Head(queue)]
    /\ queue' = Tail(queue)
    /\ WriterKeeps /\ UNCHANGED <<book, data, faults>>

\* under the lock: a row of an episode that is over is let go
CheckRow ==
    /\ writer.step = "check"
    /\ writer' = [writer EXCEPT
            !.step = IF rec.phase \in {"RECORDING", "FREEZING"} THEN "add" ELSE "idle"]
    /\ WriterKeeps /\ UNCHANGED <<queue, book, data, faults>>

\* outside the lock: the images are converted and the row is added, which waits
\* for room in the image queue; what raises is taken to raise before the row counts
\* in the buffer
AddRow ==
    /\ writer.step = "add" /\ Cardinality(data.owed) < QueueSize
    /\ \/ /\ data' = [data EXCEPT !.buffer = Append(@, writer.row),
                                  !.owed = @ \union {writer.row}]
          /\ writer' = [writer EXCEPT !.step = "count"] /\ UNCHANGED faults
       \/ /\ writer' = [writer EXCEPT !.step = "failed"]
          /\ Fails /\ UNCHANGED data
    /\ WriterKeeps /\ UNCHANGED <<queue, book>>

\* under the lock: the row counts; then task_done, which only a join sees
CountRow ==
    /\ writer.step = "count"
    /\ book' = [book EXCEPT !.rows = Append(@, writer.row)]
    /\ writer' = [writer EXCEPT !.step = "idle"]
    /\ WriterKeeps /\ UNCHANGED <<queue, data, faults>>

\* (mutant: task_done is not called for a row that raised)
RowFailsUndone ==
    /\ writer.step = "failed" /\ ~book.error
    /\ book' = [book EXCEPT !.error = TRUE]
    /\ WriterKeeps /\ UNCHANGED <<writer, queue, data, faults>>

RowFails ==
    /\ writer.step = "failed"
    /\ book' = [book EXCEPT !.error = TRUE]
    /\ writer' = [writer EXCEPT !.step = "idle"]
    /\ WriterKeeps /\ UNCHANGED <<queue, data, faults>>

WriterStep == TakeRow \/ CheckRow \/ AddRow \/ CountRow \/ RowFails

WriteImages ==
    /\ \E row \in data.owed :
           data' = [data EXCEPT !.owed = @ \ {row}, !.staged = @ \union {row}]
    /\ UNCHANGED <<rec, book, threads, control, world, faults>>

-----------------------------------------------------------------------------
(* The control thread.  A command in hand is its step; the loop returns,   *)
(* and close ends the threads, once the episode is over.                   *)

Settled == queue = <<>> /\ writer.step = "idle"
Drained == book.rows # <<>> /\ book.rows[Len(book.rows)] >= rec.tail - 1
Goes(step) == control' = [control EXCEPT !.step = step]
Becomes(phase) == rec' = [rec EXCEPT !.phase = phase]
Stops(phase) == rec' = [rec EXCEPT !.phase = phase, !.recording = FALSE]
ControlKeeps == UNCHANGED <<book, threads, data, world, faults>>
Ready(phase) == control.step = "idle" /\ rec.phase = phase

\* a call raises, or a look finds the episode unfit
Quarantines ==
    /\ Stops("QUARANTINED_COMMIT")
    /\ Goes(IF control.purpose = "retain" THEN "retain" ELSE "over")
Raises == Fails /\ Quarantines /\ UNCHANGED <<book, threads, data, world>>

\* (mutant: nobody waits for the rows in the queue)
JoinNothing(from, to) ==
    /\ control.step = from /\ Goes(to)
    /\ ControlKeeps /\ UNCHANGED rec

\* writer_queue.join: every row was taken and its task is done
Join(from, to) ==
    /\ control.step = from /\ Goes(to)
    /\ Settled
    /\ ControlKeeps /\ UNCHANGED rec

\* _drain_image_writer
Drain(from, to) ==
    /\ control.step = from
    /\ \/ data.owed = {} /\ Goes(to) /\ ControlKeeps /\ UNCHANGED rec
       \/ Raises

\* trim_readiness_prefix closes the buffer to new rows and waits for the old
StartTrim ==
    /\ Ready("RECORDING") /\ rec.recording
    /\ rec.epoch <= MaxTrims /\ now <= LastCommand
    /\ Stops("RECORDING") /\ Goes("trimJoin")
    /\ ControlKeeps

\* the counters for which the quality gate rejects an episode
MayPass ==
    /\ ~book.error /\ ~book.dropped /\ ~book.misaligned
    /\ book.attempts = Len(book.rows)

\* (mutant: the epoch is not bumped)
ResetKeepsEpoch(recording) ==
    /\ rec' = [rec EXCEPT !.recording = recording, !.cursor = now, !.first = now, !.tail = 0,
                          !.phase = IF recording THEN @ ELSE "QUARANTINED_COMMIT"]
    /\ book' = NoRows

\* _reset_episode, and the target the sampler starts from
Reset(recording) ==
    /\ rec' = [rec EXCEPT !.recording = recording, !.cursor = now, !.first = now, !.tail = 0,
                          !.epoch = @ + 1, !.phase = IF recording THEN @ ELSE "QUARANTINED_COMMIT"]
    /\ book' = NoRows

\* under the lock: the prefix is accepted and thrown away; the journal may fail
TrimAccepted ==
    /\ control.step = "trim" /\ MayPass
    /\ data' = [data EXCEPT !.buffer = <<>>, !.staged = {}]
    /\ \/ Reset(TRUE) /\ Goes("idle") /\ UNCHANGED faults
       \/ Reset(FALSE) /\ Goes("over") /\ Fails
    /\ UNCHANGED <<threads, world>>

\* the gate refuses the prefix or the buffer cannot be cleared: recording goes on
TrimRefused ==
    /\ control.step = "trim" /\ Goes("refused")
    /\ rec' = [rec EXCEPT !.recording = TRUE]
    /\ ControlKeeps

\* freeze_episode on its own, or first thing of an abort, a retention or a close
StartFreeze(purpose) ==
    /\ rec.phase = "RECORDING" /\ now <= LastCommand
    /\ control.step \in IF purpose = "freeze" THEN {"idle"} ELSE {"idle", "refused"}
    /\ purpose = "close" => shutdown
    /\ rec' = [rec EXCEPT
            !.tail = now, !.recording = (@ /\ sampler.step # "dead"),
            !.phase = IF sampler.step = "dead" THEN "QUARANTINED_COMMIT" ELSE "FREEZING"]
    /\ control' = [purpose |-> purpose,
                   step |-> CASE sampler.step # "dead" -> "tail"
                              [] sampler.step = "dead" /\ purpose = "retain" -> "retain"
                              [] OTHER -> "over"]
    /\ ControlKeeps

TailReached ==
    /\ control.step = "tail" /\ Drained
    /\ Stops("FREEZING") /\ Goes("join")
    /\ ControlKeeps

\* the look at the rows and the look at the deadline are two
TailLate ==
    /\ control.step = "tail" /\ ~Drained
    /\ now >= rec.tail + Delay + Patience
    /\ Goes("late")
    /\ ControlKeeps /\ UNCHANGED rec

TailTimesOut ==
    /\ control.step = "late"
    /\ Quarantines
    /\ ControlKeeps

\* spin_once raises once the context is shut down: out of a command to the loop,
\* whose own spin raises again, and out of close to the end of the process
TailInterrupted ==
    /\ control.step = "tail" /\ ~Drained /\ shutdown
    /\ interrupted' = TRUE
    /\ Goes(IF control.purpose = "close" THEN "died" ELSE "refused")
    /\ UNCHANGED <<rec, book, threads, data, now, shutdown, faults>>

\* the second look at the tail, the guard and the journal
SealFreeze ==
    /\ control.step = "seal"
    /\ \/ /\ Drained /\ Becomes("FROZEN")
          /\ Goes(CASE control.purpose = "freeze" -> "idle"
                    [] control.purpose = "retain" -> "retain"
                    [] OTHER -> "clear")
          /\ ControlKeeps
       \/ Raises

\* commit_episode: the gate, the save and its failure
Commit ==
    /\ Ready("FROZEN") /\ book.rows # <<>> /\ MayPass
    /\ Goes("over")
    /\ \/ Becomes("COMMITTED") /\ UNCHANGED faults
       \/ Becomes("QUARANTINED_COMMIT") /\ Fails
    /\ UNCHANGED <<book, threads, data, world>>

\* abort_episode or retain_episode of an episode that is frozen
StartEnd ==
    /\ Ready("FROZEN")
    /\ \/ control' = [step |-> "clear", purpose |-> "abort"]
       \/ control' = [step |-> "retain", purpose |-> "retain"]
    /\ ControlKeeps /\ UNCHANGED rec

\* under the lock: the buffer and its images are removed, and nothing is left
ClearBuffer ==
    /\ control.step = "clear"
    /\ \/ /\ data' = [data EXCEPT !.buffer = <<>>, !.staged = {}]
          /\ Becomes("ABORTED") /\ Goes("over")
          /\ UNCHANGED <<book, threads, world, faults>>
       \/ Raises

\* (mutant: a row in the writer's hands is not looked at)
RetainUnsettled ==
    /\ control.step = "retain"
    /\ Becomes("QUARANTINED_COMMIT")
    /\ control' = [step |-> "retainDrain",
                   purpose |-> IF rec.phase = "FROZEN" THEN "release" ELSE "keep"]
    /\ ControlKeeps

\* under the lock: only rows that are settled are retained, and the source is
\* released only if it was not quarantined before
BeginRetain ==
    /\ control.step = "retain"
    /\ IF Settled /\ ~rec.recording
       THEN /\ Becomes("QUARANTINED_COMMIT")
            /\ control' = [step |-> "retainDrain",
                           purpose |-> IF rec.phase = "FROZEN" THEN "release" ELSE "keep"]
       ELSE UNCHANGED rec /\ Goes("over")
    /\ ControlKeeps

\* the rows counted and in the buffer are published; less than all is partial
CopyRows ==
    LET n == IF Len(book.rows) < Len(data.buffer) THEN Len(book.rows) ELSE Len(data.buffer)
        whole == n > 0 /\ n = Len(book.rows) /\ n = Len(data.buffer)
    IN  /\ control.step = "copy"
        /\ \/ /\ data' = [data EXCEPT !.retained = SubSeq(data.buffer, 1, n)]
              /\ Goes(IF control.purpose = "release" /\ whole THEN "release" ELSE "over")
              /\ UNCHANGED faults
           \/ Fails /\ Goes("over") /\ UNCHANGED data
        /\ UNCHANGED <<rec, book, threads, world>>

\* the source is compared with what was published before it is cleared
ReleaseRows ==
    /\ control.step = "release" /\ Goes("over")
    /\ \/ /\ data.buffer = data.retained /\ data.staged = Range(data.buffer)
          /\ data' = [data EXCEPT !.buffer = <<>>, !.staged = {}]
          /\ Becomes("ABORTED") /\ UNCHANGED faults
       \/ Fails /\ UNCHANGED <<rec, data>>
    /\ UNCHANGED <<book, threads, world>>

\* close, once the loop's spin has raised: it ends a freeze that was interrupted
StartClose ==
    /\ shutdown /\ control.step \in {"idle", "refused"}
    /\ rec.phase \in {"FREEZING", "FROZEN"}
    /\ control' = [step |-> IF rec.phase = "FREEZING" THEN "closeJoin" ELSE "clear",
                   purpose |-> "close"]
    /\ ControlKeeps /\ UNCHANGED rec

SealClose ==
    /\ control.step = "close"
    /\ Becomes("FROZEN") /\ Goes("clear")
    /\ ControlKeeps

\* episode_status finds the disk reserve low
FindDiskLow ==
    /\ control.step = "idle" /\ ~book.error /\ Fails
    /\ book' = [book EXCEPT !.error = TRUE]
    /\ UNCHANGED <<rec, threads, data, control, world>>

-----------------------------------------------------------------------------
\* the clock is read while rows are recorded and by the trim that restarts them
Tick ==
    /\ now < LastStamp
    /\ rec.recording \/ control.step \in {"trimJoin", "trimDrain", "trim"}
    /\ now' = now + 1
    /\ UNCHANGED <<rec, book, threads, data, control, shutdown, interrupted, faults>>

\* external: a signal shuts the ROS context down, seen where the thread spins
Shutdown ==
    /\ ~shutdown /\ control.step \in {"idle", "refused", "tail"} /\ Fails
    /\ shutdown' = TRUE
    /\ UNCHANGED <<rec, book, threads, data, control, now, interrupted>>

\* what the control thread does on its own, once it is in a command or in close
ControlStep ==
    \/ Join("trimJoin", "trimDrain") \/ Join("join", "drain") \/ Join("closeJoin", "close")
    \/ Drain("trimDrain", "trim") \/ Drain("drain", "seal") \/ Drain("retainDrain", "copy")
    \/ TrimAccepted \/ TrimRefused
    \/ TailReached \/ TailLate \/ TailTimesOut \/ TailInterrupted \/ SealFreeze
    \/ ClearBuffer \/ BeginRetain \/ CopyRows \/ ReleaseRows
    \/ SealClose \/ StartClose

Command ==
    \/ StartTrim \/ Commit \/ StartEnd \/ FindDiskLow
    \/ \E purpose \in {"freeze", "abort", "retain", "close"} : StartFreeze(purpose)

Next ==
    \/ Tick \/ SamplerStep \/ SamplerDies \/ WriterStep \/ WriteImages
    \/ ControlStep \/ Command \/ Shutdown

Spec == Init /\ [][Next]_vars

\* the threads and the clock go on; the coordinator need not ask anything
FairSpec ==
    /\ Spec
    /\ WF_vars(Tick) /\ WF_vars(SamplerStep) /\ WF_vars(WriterStep) /\ WF_vars(WriteImages)
    /\ WF_vars(ControlStep)

-----------------------------------------------------------------------------
(* Properties.                                                             *)

\* Types, and the bounds the code puts on its queue, its batches and its images.
TypeOK ==
    /\ now \in Stamps
    /\ rec \in [phase : Phases, recording : BOOLEAN, epoch : 1..MaxTrims + 1,
                cursor : 0..LastStamp + 1, tail : Stamps, first : Stamps]
    /\ book \in [rows : Seq(Stamps), attempts : Nat, dropped : BOOLEAN,
                 misaligned : BOOLEAN, error : BOOLEAN]
    /\ sampler \in [batch : Seq(Stamps), epoch : 1..rec.epoch,
                    step : {"look", "missed", "put", "dead"}]
    /\ Len(sampler.batch) <= Fps
    /\ queue \in Seq(Stamps) /\ Len(queue) <= QueueSize
    /\ writer \in [step : {"idle", "check", "add", "count", "failed"}, row : Stamps]
    /\ data \in [buffer : Seq(Stamps), owed : SUBSET Stamps, staged : SUBSET Stamps,
                 retained : Seq(Stamps)]
    /\ Cardinality(data.owed) <= QueueSize
    /\ control \in [step : Steps, purpose : Purposes]
    /\ shutdown \in BOOLEAN /\ interrupted \in BOOLEAN /\ faults \in 0..MaxFaults

\* No row of a prefix that was thrown away is in the buffer or counted, however
\* late the sampler looked (test_recorder_transaction.py:1635 tries one order).
PrefixStaysOut == \A row \in Range(book.rows) \union Range(data.buffer) : row >= rec.first

\* An episode that is frozen holds still: nothing is in the queue, in the
\* writer's hands or owed to the disk, and the tail of the motion is in it.
FrozenIsSettled ==
    rec.phase \in {"FROZEN", "COMMITTED"} =>
        ~rec.recording /\ Settled /\ data.owed = {} /\ Drained

\* What is committed is every period from the first target to the freeze, each
\* once, in order, counted, in the buffer and with its images on disk.
CommittedIsWhole ==
    rec.phase = "COMMITTED" =>
        /\ book.rows = [i \in 1..Len(book.rows) |-> rec.first + i - 1]
        /\ data.buffer = book.rows /\ data.staged = Range(book.rows)

\* What was aborted or released leaves nothing behind, then or later; what is
\* retained are the rows counted, and all of them if the source was released.
EndedIsEmpty ==
    /\ rec.phase = "ABORTED" =>
           data.buffer = <<>> /\ data.staged = {} /\ data.owed = {} /\ Settled
    /\ data.retained # <<>> =>
           data.retained = SubSeq(book.rows, 1, Len(data.retained)) /\ Settled
    /\ data.retained # <<>> /\ rec.phase = "ABORTED" => data.retained = book.rows

\* The rows of an episode, from the sampler to the dataset: prefix, tail, commit,
\* abort and retention.  A freeze that a signal interrupts is left out: it leaves
\* recording on (close, 1886), and the sampler and the writer go on behind it.
EpisodeIsWhole ==
    /\ PrefixStaysOut
    /\ ~interrupted => FrozenIsSettled /\ CommittedIsWhole /\ EndedIsEmpty

\* A freeze ends, frozen or quarantined, whatever the sampler, the sources and
\* the writer's exceptions do (freeze_episode waits in a join with no timeout).
FreezeEnds == rec.phase = "FREEZING" ~> (rec.phase # "FREEZING" \/ control.step = "died")
=============================================================================
