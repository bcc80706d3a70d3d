------------------------- MODULE RecorderPipelineInv -------------------------
(***************************************************************************)
(* The inductive invariant of RecorderPipeline: what the control thread    *)
(* has waited for at each of its steps (ControlInv), where the rows of the *)
(* episode are between the sampler and the disk (PrefixInv, BufferInv),    *)
(* that they follow each other without a gap while nothing was counted     *)
(* against them (GaplessInv), and what became of them in the end (EndInv). *)
(* TLC checks it on a small instance, RecorderPipelineProofs proves it.    *)
(***************************************************************************)
EXTENDS RecorderPipeline

TrimSteps == {"trimJoin", "trimDrain", "trim"}
TailSteps == {"tail", "late"}
SealSteps == {"join", "drain", "seal"}
KeepSteps == {"retainDrain", "copy", "release"}

\* The stamps of seq start at or after the first, or one after the other from it.
NoneBefore(seq, stamp) == \A row \in Range(seq) : row >= stamp
Follow(seq, stamp) == \A i \in 1..Len(seq) : seq[i] = stamp + i - 1

\* A row the writer has taken and not yet counted.
InHand == writer.step \in {"check", "add", "count"}
\* The stamp after those counted and in hand, and the one after those queued.
NextQueued == rec.first + Len(book.rows) + (IF InHand THEN 1 ELSE 0)
NextSampled == NextQueued + Len(queue)
\* The sampler's targets are of the epoch that is recorded.
Current == sampler.epoch = rec.epoch

\* A trim waits with the recording off; nothing is left in the threads after
\* its join, nothing is owed after its drain.
TrimInv ==
    /\ rec.phase = "RECORDING" => ~interrupted
    /\ control.step \in TrimSteps => rec.phase = "RECORDING" /\ ~rec.recording /\ rec.epoch <= MaxTrims
    /\ control.step \in {"trimDrain", "trim"} => Settled
    /\ control.step = "trim" => data.owed = {}

\* The same of a freeze, unless a signal interrupted it, and of what follows.
ControlInv ==
    /\ control.step = "idle" => control.purpose = "freeze" /\ rec.phase \in {"RECORDING", "FROZEN"}
    /\ control.step \in TrimSteps \cup {"refused"} => control.purpose = "freeze" /\ rec.phase = "RECORDING"
    /\ control.step \in TailSteps \cup SealSteps => rec.phase = "FREEZING"
    /\ control.step \in SealSteps => ~rec.recording
    /\ control.step \in {"drain", "seal"} => Settled
    /\ control.step = "seal" => data.owed = {}
    /\ control.step = "clear" => rec.phase = "FROZEN"
    /\ control.step = "retain" => rec.phase \in {"FROZEN", "QUARANTINED_COMMIT"}
    /\ control.step \in KeepSteps => rec.phase = "QUARANTINED_COMMIT" /\ Settled
    /\ control.step \in {"copy", "release"} => data.owed = {}
    /\ control.step \notin {"closeJoin", "close", "died"}
    /\ control.step = "over" <=> rec.phase \in {"COMMITTED", "ABORTED"}
                                 \/ (rec.phase = "QUARANTINED_COMMIT" /\ control.step \notin KeepSteps \cup {"retain"})
    /\ rec.phase \notin {"RECORDING", "FREEZING"} => ~rec.recording
    /\ rec.phase \in {"COMMITTED", "ABORTED"} => Settled /\ data.owed = {}

\* Whatever was recorded belongs to the epoch that is recorded.
PrefixInv ==
    /\ rec.first <= rec.cursor
    /\ NoneBefore(book.rows, rec.first) /\ NoneBefore(data.buffer, rec.first)
    /\ NoneBefore(queue, rec.first)
    /\ InHand => writer.row >= rec.first
    /\ Current => NoneBefore(sampler.batch, rec.first)
    /\ sampler.step \in {"put", "missed"} => sampler.batch # <<>>

\* The buffer has the rows that were counted and the one about to be; the
\* images of those rows are on the disk or owed to it.
BufferInv ==
    /\ rec.phase # "ABORTED" =>
          data.buffer = IF writer.step = "count" THEN Append(book.rows, writer.row) ELSE book.rows
    /\ data.staged \cup data.owed = Range(data.buffer)

\* Every period from the first on is counted, in hand, queued, or still before
\* the sampler, as long as no row was lost that the quality gate does not see.
Clean ==
    /\ control.purpose = "freeze" /\ control.step # "refused"
    /\ rec.phase \in {"RECORDING", "FREEZING", "FROZEN"}
    /\ ~book.dropped /\ ~book.misaligned /\ ~book.error /\ writer.step # "failed"
GaplessInv ==
    Clean =>
        /\ Follow(book.rows, rec.first)
        /\ InHand => writer.row = rec.first + Len(book.rows)
        /\ Follow(queue, NextQueued)
        /\ rec.recording /\ sampler.step # "dead" =>
              /\ rec.cursor = NextSampled + (IF Current THEN Len(sampler.batch) ELSE 0)
              /\ Current => Follow(sampler.batch, NextSampled)

\* What a frozen, a committed, a retained and a released episode is.
EndInv ==
    /\ rec.phase \in {"FROZEN", "COMMITTED"} => Settled /\ data.owed = {} /\ Drained
    /\ rec.phase = "COMMITTED" => Follow(book.rows, rec.first)
    /\ rec.phase = "ABORTED" => data.buffer = <<>>
    /\ data.retained # <<>> =>
          /\ control.step \in {"release", "over"} /\ rec.phase \in {"QUARANTINED_COMMIT", "ABORTED"}
          /\ Settled /\ data.retained = book.rows
    /\ control.step = "release" => data.retained = book.rows

Inv ==
    /\ TypeOK /\ TrimInv /\ PrefixInv
    /\ ~interrupted => ControlInv /\ BufferInv /\ GaplessInv /\ EndInv
=============================================================================
