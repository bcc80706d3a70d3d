----------------------- MODULE RecorderPipelineProofs -----------------------
(***************************************************************************)
(* Inv (RecorderPipelineInv) is inductive, and what follows from it: an    *)
(* episode is whole (EpisodeIsWhole), for every delay, patience, size of   *)
(* the queues and number of trims and faults.                              *)
(*                                                                         *)
(* The argument: the rows of the epoch form one chain, from those counted  *)
(* through the writer's hands and the queue to the sampler's targets.  The *)
(* sampler and the writer pass a row along it (Sampler, Writer lemmas) or  *)
(* lose it and leave a trace the quality gate sees; a step of the control  *)
(* thread leaves the rows where they are (Quiet), but for the trim, the    *)
(* clearing and the release, which come after the threads have settled.    *)
(***************************************************************************)
EXTENDS RecorderPipelineInv, FiniteSetTheorems, SequenceTheorems, TLAPS

Recs == [phase : Phases, recording : BOOLEAN, epoch : 1..MaxTrims + 1,
         cursor : 0..LastStamp + 1, tail : Stamps, first : Stamps]
Books == [rows : Seq(Stamps), attempts : Nat, dropped : BOOLEAN,
          misaligned : BOOLEAN, error : BOOLEAN]
Writers == [step : {"idle", "check", "add", "count", "failed"}, row : Stamps]
Datas == [buffer : Seq(Stamps), owed : SUBSET Stamps, staged : SUBSET Stamps,
          retained : Seq(Stamps)]
Controls == [step : Steps, purpose : Purposes]

USE DEF threads, world

-----------------------------------------------------------------------------
(* Sequences of stamps *)

\* A stamp at the end of a sequence.
LEMMA AppendFacts ==
  ASSUME NEW S, S \subseteq Int, NEW s \in Seq(S), NEW e \in S
  PROVE  /\ Append(s, e) \in Seq(S) /\ Len(Append(s, e)) = Len(s) + 1
         /\ Range(Append(s, e)) = Range(s) \cup {e}
         /\ \A f \in Int : NoneBefore(s, f) /\ e >= f => NoneBefore(Append(s, e), f)
         /\ \A f \in Int : Follow(s, f) /\ e = f + Len(s) => Follow(Append(s, e), f)
<1>1. Append(s, e) \in Seq(S) /\ Len(Append(s, e)) = Len(s) + 1 /\ Len(s) \in Nat
      /\ (\A i \in 1..Len(s) : Append(s, e)[i] = s[i]) /\ Append(s, e)[Len(s) + 1] = e
  BY AppendProperties
<1>2. Range(s) = {s[i] : i \in 1..Len(s)}
      /\ Range(Append(s, e)) = {Append(s, e)[i] : i \in 1..Len(s) + 1}
  BY <1>1, RangeEquality
<1>3. Range(Append(s, e)) = Range(s) \cup {e}
  BY <1>1, <1>2
<1>4. \A f \in Int : NoneBefore(s, f) /\ e >= f => NoneBefore(Append(s, e), f)
  BY <1>3 DEF NoneBefore
<1>5. ASSUME NEW f \in Int, Follow(s, f), e = f + Len(s), NEW i \in 1..Len(s) + 1
      PROVE  Append(s, e)[i] = f + i - 1
  <2>1. CASE i = Len(s) + 1 BY <1>1, <1>5, <2>1
  <2>2. CASE i # Len(s) + 1
    <3>1. i \in 1..Len(s) BY <1>1, <2>2
    <3> QED BY <1>1, <1>5, <3>1 DEF Follow
  <2> QED BY <2>1, <2>2
<1> QED BY <1>1, <1>3, <1>4, <1>5 DEF Follow

\* The first stamp of a sequence and the rest.
LEMMA TailFacts ==
  ASSUME NEW S, S \subseteq Int, NEW s \in Seq(S), s # <<>>
  PROVE  /\ Head(s) \in S /\ Tail(s) \in Seq(S) /\ Len(Tail(s)) = Len(s) - 1
         /\ Len(s) >= 1
         /\ \A f \in Int : NoneBefore(s, f) => Head(s) >= f /\ NoneBefore(Tail(s), f)
         /\ \A f \in Int : Follow(s, f) => Head(s) = f /\ Follow(Tail(s), f + 1)
<1>1. Len(s) \in Nat \ {0} BY EmptySeq
<1>2. Head(s) \in S /\ Tail(s) \in Seq(S) /\ Len(Tail(s)) = Len(s) - 1
      /\ (\A i \in 1..Len(Tail(s)) : Tail(s)[i] = s[i + 1]) /\ Head(s) = s[1]
  BY HeadTailProperties
<1>3. Range(s) = {s[i] : i \in 1..Len(s)} /\ Range(Tail(s)) = {Tail(s)[i] : i \in 1..Len(s) - 1}
  <2>1. Range(s) = {s[i] : i \in 1..Len(s)}
        /\ Range(Tail(s)) = {Tail(s)[i] : i \in 1..Len(Tail(s))}
    BY <1>2, RangeEquality
  <2> QED BY <1>2, <2>1
<1>4. \A i \in 1..Len(s) - 1 : i + 1 \in 1..Len(s) BY <1>1
<1>5. Head(s) \in Range(s) BY <1>1, <1>2, <1>3
<1>6. Range(Tail(s)) \subseteq Range(s) BY <1>2, <1>3, <1>4
<1>7. \A f \in Int : NoneBefore(s, f) => Head(s) >= f /\ NoneBefore(Tail(s), f)
  BY <1>5, <1>6 DEF NoneBefore
<1>8. ASSUME NEW f \in Int, Follow(s, f)
      PROVE  Head(s) = f /\ Follow(Tail(s), f + 1)
  <2>1. Head(s) = f BY <1>1, <1>2, <1>8 DEF Follow
  <2>2. ASSUME NEW i \in 1..Len(Tail(s)) PROVE Tail(s)[i] = f + 1 + i - 1
    <3>1. Tail(s)[i] = s[i + 1] /\ i + 1 \in 1..Len(s) BY <1>2, <1>4, <2>2
    <3>2. s[i + 1] = f + (i + 1) - 1 BY <1>8, <3>1 DEF Follow
    <3> QED BY <1>1, <1>2, <3>1, <3>2
  <2> QED BY <2>1, <2>2 DEF Follow
<1> QED BY <1>1, <1>2, <1>7, <1>8

\* The empty sequence.
LEMMA EmptyFacts ==
  /\ \A S : <<>> \in Seq(S)
  /\ Len(<<>>) = 0 /\ Range(<<>>) = {}
  /\ \A f \in Int : NoneBefore(<<>>, f) /\ Follow(<<>>, f)
<1>1. Len(<<>>) = 0 /\ Range(<<>>) = {} BY DEF Range
<1> QED BY <1>1, EmptySeq DEF NoneBefore, Follow

-----------------------------------------------------------------------------
(* Types *)

\* The types one by one, and the numbers among them.
LEMMA Types ==
  ASSUME TypeOK
  PROVE  /\ now \in Stamps /\ now \in Int /\ Stamps \subseteq Int /\ Stamps \subseteq Nat
         /\ LastStamp \in Nat /\ MaxTrims \in Nat /\ MaxFaults \in Nat
         /\ rec \in Recs /\ book \in Books /\ writer \in Writers /\ data \in Datas
         /\ control \in Controls /\ control.step \in Steps /\ control.purpose \in Purposes
         /\ rec.phase \in Phases /\ rec.recording \in BOOLEAN
         /\ rec.epoch \in 1..MaxTrims + 1 /\ rec.cursor \in 0..LastStamp + 1
         /\ rec.tail \in Stamps /\ rec.first \in Stamps
         /\ rec.epoch \in Int /\ rec.cursor \in Int /\ rec.tail \in Int /\ rec.first \in Int
         /\ book.rows \in Seq(Stamps) /\ Len(book.rows) \in Nat /\ book.attempts \in Nat
         /\ sampler \in [batch : Seq(Stamps), epoch : 1..rec.epoch,
                         step : {"look", "missed", "put", "dead"}]
         /\ sampler.batch \in Seq(Stamps) /\ Len(sampler.batch) \in Nat
         /\ Len(sampler.batch) <= Fps /\ sampler.epoch \in Int /\ sampler.epoch <= rec.epoch
         /\ queue \in Seq(Stamps) /\ Len(queue) \in Nat /\ Len(queue) <= QueueSize
         /\ writer.step \in {"idle", "check", "add", "count", "failed"}
         /\ writer.row \in Stamps /\ writer.row \in Int
         /\ data.buffer \in Seq(Stamps) /\ data.retained \in Seq(Stamps)
         /\ data.owed \subseteq Stamps /\ data.staged \subseteq Stamps
         /\ Cardinality(data.owed) <= QueueSize
         /\ faults \in 0..MaxFaults
         /\ NextQueued \in Int /\ NextSampled \in Int
<1>1. LastStamp \in Nat /\ MaxTrims \in Nat /\ MaxFaults \in Nat
  BY PipelineAssumption DEF LastStamp
<1>2. Stamps \subseteq Int /\ Stamps \subseteq Nat BY <1>1 DEF Stamps
<1>3. now \in Stamps /\ rec \in Recs /\ book \in Books /\ writer \in Writers /\ data \in Datas
      /\ control \in Controls /\ faults \in 0..MaxFaults
      /\ sampler \in [batch : Seq(Stamps), epoch : 1..rec.epoch,
                         step : {"look", "missed", "put", "dead"}]
      /\ Len(sampler.batch) <= Fps /\ queue \in Seq(Stamps) /\ Len(queue) <= QueueSize
      /\ Cardinality(data.owed) <= QueueSize
  BY DEF TypeOK, Recs, Books, Writers, Datas, Controls
<1>4. /\ rec.phase \in Phases /\ rec.recording \in BOOLEAN
      /\ rec.epoch \in 1..MaxTrims + 1 /\ rec.cursor \in 0..LastStamp + 1
      /\ rec.tail \in Stamps /\ rec.first \in Stamps
  BY <1>3 DEF Recs
<1>5. rec.epoch \in Int /\ rec.cursor \in Int /\ rec.tail \in Int /\ rec.first \in Int
  <2>1. rec.epoch \in Int BY <1>1, <1>4
  <2>2. rec.cursor \in Int BY <1>1, <1>4
  <2> QED BY <1>2, <1>4, <2>1, <2>2
<1>6. book.rows \in Seq(Stamps) /\ book.attempts \in Nat BY <1>3 DEF Books
<1>7. sampler.batch \in Seq(Stamps) /\ sampler.epoch \in Int /\ sampler.epoch <= rec.epoch
  BY <1>3, <1>5
<1>8. writer.step \in {"idle", "check", "add", "count", "failed"} /\ writer.row \in Stamps
  BY <1>3 DEF Writers
<1>9. /\ data.buffer \in Seq(Stamps) /\ data.retained \in Seq(Stamps)
      /\ data.owed \subseteq Stamps /\ data.staged \subseteq Stamps
  BY <1>3 DEF Datas
<1>10. control.step \in Steps /\ control.purpose \in Purposes BY <1>3 DEF Controls
<1>11. Len(book.rows) \in Nat /\ Len(sampler.batch) \in Nat /\ Len(queue) \in Nat
  BY <1>3, <1>6, <1>7, LenProperties
<1>12. NextQueued \in Int BY <1>5, <1>11 DEF NextQueued
<1>13. NextSampled \in Int BY <1>11, <1>12 DEF NextSampled
<1> QED BY <1>1, <1>2, <1>3, <1>4, <1>5, <1>6, <1>7, <1>8, <1>9, <1>10, <1>11, <1>12, <1>13

\* A failure is counted.
LEMMA FailsFacts ==
  ASSUME TypeOK, faults' = faults \/ Fails
  PROVE  faults' \in 0..MaxFaults
<1>1. faults \in 0..MaxFaults /\ MaxFaults \in Nat BY Types
<1>2. faults' = faults \/ (faults < MaxFaults /\ faults' = faults + 1) BY DEF Fails
<1> QED BY <1>1, <1>2

-----------------------------------------------------------------------------
(* The sampler *)

\* A step of the sampler that adds to the queue only while rows are recorded
\* touches nothing the control thread has waited for.
LEMMA Sampled ==
  ASSUME Inv, UNCHANGED <<writer, data, control, world>>,
         rec'.phase = rec.phase, rec'.recording = rec.recording, rec'.tail = rec.tail,
         rec'.first = rec.first, rec'.epoch = rec.epoch, book'.rows = book.rows,
         queue' = queue \/ rec.recording
  PROVE  TrimInv' /\ (~interrupted => ControlInv' /\ BufferInv' /\ EndInv')
<1> USE DEF Inv
<1>1. writer' = writer /\ data' = data /\ control' = control /\ interrupted' = interrupted
  OBVIOUS
<1>2. Drained' <=> Drained BY DEF Drained
<1>3. ~rec.recording => (Settled' <=> Settled) BY <1>1 DEF Settled
<1>4. TrimInv' BY <1>1, <1>3 DEF TrimInv, TrimSteps
<1>5. ASSUME ~interrupted PROVE ControlInv'
  BY <1>1, <1>3, <1>5 DEF ControlInv, SealSteps, KeepSteps
<1>6. ASSUME ~interrupted PROVE BufferInv'
  BY <1>1, <1>6 DEF BufferInv
<1>7. ASSUME ~interrupted PROVE EndInv'
  BY <1>1, <1>2, <1>3, <1>7 DEF ControlInv, EndInv
<1> QED BY <1>4, <1>5, <1>6, <1>7

LEMMA SampleTargetsStep ==
  ASSUME Inv, SampleTargets
  PROVE  Inv'
<1> DEFINE due == now - Delay - rec.cursor + 1
           n == IF due > Fps THEN Fps ELSE due
           targets == [i \in 1..n |-> rec.cursor + i - 1]
<1>0. /\ TypeOK /\ TrimInv /\ PrefixInv
      /\ ~interrupted => ControlInv /\ BufferInv /\ GaplessInv /\ EndInv
  BY DEF Inv
<1>1. /\ sampler.batch = <<>> /\ sampler.step = "look" /\ rec.recording /\ due > 0
      /\ sampler' = [batch |-> targets, epoch |-> rec.epoch, step |-> "look"]
      /\ rec' = [rec EXCEPT !.cursor = @ + n]
      /\ writer' = writer /\ data' = data /\ control' = control /\ queue' = queue /\ book' = book
      /\ now' = now /\ shutdown' = shutdown /\ interrupted' = interrupted /\ faults' = faults
  BY DEF SampleTargets, SamplerKeeps
<1>2. Delay \in Nat /\ Fps \in Nat \ {0} /\ now \in 0..LastStamp /\ LastStamp \in Nat
      /\ rec.cursor \in Nat /\ rec.first \in Int
  BY <1>0, Types, PipelineAssumption DEF Stamps
<1>3. n \in Nat /\ n >= 1 /\ n <= Fps /\ rec.cursor + n <= LastStamp + 1
  <2>1. due \in Int /\ rec.cursor + due <= LastStamp + 1 BY <1>2
  <2>2. n = IF due > Fps THEN Fps ELSE due OBVIOUS
  <2>3. due > 0 BY <1>1
  <2> HIDE DEF due, n
  <2> QED BY <1>2, <2>1, <2>2, <2>3
<1> HIDE DEF n, due
<1>4. rec'.phase = rec.phase /\ rec'.recording = rec.recording /\ rec'.epoch = rec.epoch
      /\ rec'.tail = rec.tail /\ rec'.first = rec.first /\ rec'.cursor = rec.cursor + n
  BY <1>0, <1>1, Types DEF Recs
<1>5. targets \in Seq(Stamps) /\ Len(targets) = n
  <2>1. \A i \in 1..n : rec.cursor + i - 1 \in Stamps
    BY <1>2, <1>3 DEF Stamps
  <2> QED BY <1>3, <2>1
<1>6. Range(targets) = {rec.cursor + i - 1 : i \in 1..n} BY DEF Range
<1>7. sampler'.batch = targets /\ sampler'.epoch = rec.epoch /\ sampler'.step = "look"
  BY <1>1
<1> HIDE DEF targets
<1>8. TypeOK'
  <2>1. rec' \in Recs
    <3>1. rec.cursor + n \in 0..LastStamp + 1 BY <1>2, <1>3
    <3>2. rec \in Recs BY <1>0, Types
    <3>3. rec' = [rec EXCEPT !.cursor = rec.cursor + n] BY <1>1
    <3> HIDE <1>1
    <3> QED BY <3>1, <3>2, <3>3 DEF Recs
  <2>2. sampler' \in [batch : Seq(Stamps), epoch : 1..rec'.epoch,
                      step : {"look", "missed", "put", "dead"}]
    BY <1>0, <1>1, <1>2, <1>4, <1>5, Types
  <2> QED BY <1>0, <1>1, <1>3, <1>5, <1>7, <2>1, <2>2 DEF TypeOK, Recs
<1>9. PrefixInv'
  <2>1. NoneBefore(targets, rec.first)
    BY <1>0, <1>2, <1>6 DEF NoneBefore, PrefixInv
  <2>2. rec'.first <= rec'.cursor BY <1>0, <1>2, <1>3, <1>4 DEF PrefixInv
  <2> QED BY <1>0, <1>1, <1>4, <1>7, <2>1, <2>2 DEF PrefixInv, InHand
<1>10. ASSUME ~interrupted PROVE GaplessInv'
  <2>1. NextQueued' = NextQueued /\ NextSampled' = NextSampled /\ InHand' = InHand
    BY <1>1, <1>4 DEF NextQueued, NextSampled, InHand
  <2>2. Clean' = Clean BY <1>1, <1>4 DEF Clean
  <2>3. Clean => rec.cursor = NextSampled
    BY <1>0, <1>1, <1>10, Types, EmptyFacts DEF GaplessInv
  <2>4. Clean => Follow(targets, NextSampled)
    <3>1. \A i \in 1..n : targets[i] = rec.cursor + i - 1 BY DEF targets
    <3> QED BY <1>5, <2>3, <3>1 DEF Follow
  <2>5. Clean => rec'.cursor = NextSampled' + Len(sampler'.batch)
    BY <1>4, <1>5, <1>7, <2>1, <2>3
  <2> QED BY <1>0, <1>1, <1>4, <1>7, <1>10, <2>1, <2>2, <2>4, <2>5 DEF GaplessInv, Current
<1>11. TrimInv' /\ (~interrupted => ControlInv' /\ BufferInv' /\ EndInv')
  BY <1>1, <1>4, Sampled
<1> QED BY <1>1, <1>8, <1>9, <1>10, <1>11 DEF Inv

\* A target that is done with; the rest of the pass follows it.
LEMMA NextTargetFacts ==
  ASSUME TypeOK, sampler.batch # <<>>
  PROVE  /\ NextTarget.batch = Tail(sampler.batch) /\ NextTarget.epoch = sampler.epoch
         /\ NextTarget.step = "look"
         /\ NextTarget \in [batch : Seq(Stamps), epoch : 1..rec.epoch,
                            step : {"look", "missed", "put", "dead"}]
         /\ Len(NextTarget.batch) <= Fps
<1>1. Tail(sampler.batch) \in Seq(Stamps) /\ Len(Tail(sampler.batch)) = Len(sampler.batch) - 1
  BY Types, TailFacts
<1>2. sampler \in [batch : Seq(Stamps), epoch : 1..rec.epoch,
                   step : {"look", "missed", "put", "dead"}]
  BY Types
<1>3. NextTarget.batch = Tail(sampler.batch) /\ NextTarget.epoch = sampler.epoch
      /\ NextTarget.step = "look"
  BY <1>2 DEF NextTarget
<1>4. Len(sampler.batch) <= Fps /\ Fps \in Nat /\ Len(sampler.batch) \in Nat
  BY Types, PipelineAssumption
<1>5. NextTarget \in [batch : Seq(Stamps), epoch : 1..rec.epoch,
                      step : {"look", "missed", "put", "dead"}]
  BY <1>1, <1>2 DEF NextTarget
<1> QED BY <1>1, <1>3, <1>4, <1>5

\* The sampler leaves a target that is not of the epoch, or stops: nothing queued.
LEMMA Unqueued ==
  ASSUME Inv, UNCHANGED <<rec, queue, writer, data, control, world>>, book' \in Books,
         book'.rows = book.rows,
         book.dropped => book'.dropped, book.error => book'.error,
         book.misaligned => book'.misaligned,
         faults' \in 0..MaxFaults,
         sampler' \in [batch : Seq(Stamps), epoch : 1..rec.epoch,
                       step : {"look", "missed", "put", "dead"}],
         Len(sampler'.batch) <= Fps, sampler'.epoch = sampler.epoch,
         sampler'.step \in {"put", "missed"} => sampler'.batch # <<>>,
         \/ sampler'.batch = sampler.batch
         \/ sampler'.batch = <<>> /\ sampler'.step = "dead"
         \/ /\ sampler.batch # <<>> /\ sampler'.batch = Tail(sampler.batch)
            /\ rec.recording /\ Current => book'.misaligned \/ book'.dropped,
         sampler.step = "dead" => sampler'.step = "dead"
  PROVE  Inv'
<1>0. /\ TypeOK /\ TrimInv /\ PrefixInv
      /\ ~interrupted => ControlInv /\ BufferInv /\ GaplessInv /\ EndInv
  BY DEF Inv
<1>1. /\ writer' = writer /\ data' = data /\ control' = control /\ queue' = queue /\ rec' = rec
      /\ now' = now /\ shutdown' = shutdown /\ interrupted' = interrupted
  OBVIOUS
<1>2. TypeOK'
  BY <1>0, <1>1 DEF TypeOK, Books
<1>3. Current' = Current /\ InHand' = InHand /\ NextQueued' = NextQueued
      /\ NextSampled' = NextSampled
  BY <1>1 DEF Current, InHand, NextQueued, NextSampled
<1>4. Current => NoneBefore(sampler'.batch, rec.first)
  <2>1. CASE sampler'.batch = sampler.batch BY <1>0, <2>1 DEF PrefixInv
  <2>2. CASE sampler'.batch = <<>> BY <1>0, <2>2, Types, EmptyFacts
  <2>3. CASE sampler.batch # <<>> /\ sampler'.batch = Tail(sampler.batch)
    <3>1. sampler.batch \in Seq(Stamps) /\ Stamps \subseteq Int /\ rec.first \in Int
      BY <1>0, Types
    <3>2. NoneBefore(sampler.batch, rec.first) => NoneBefore(Tail(sampler.batch), rec.first)
      BY <2>3, <3>1, TailFacts
    <3> QED BY <1>0, <2>3, <3>2 DEF PrefixInv
  <2> QED BY <2>1, <2>2, <2>3
<1>5. PrefixInv' BY <1>0, <1>1, <1>3, <1>4 DEF PrefixInv
<1>6. ASSUME ~interrupted PROVE GaplessInv'
  <2>1. Clean' => Clean BY <1>1 DEF Clean
  <2>2. Clean' /\ rec'.recording /\ sampler'.step # "dead" /\ Current'
           => sampler'.batch = sampler.batch
    BY <1>1, <1>3 DEF Clean
  <2> QED BY <1>0, <1>1, <1>3, <1>6, <2>1, <2>2 DEF GaplessInv
<1>7. TrimInv' /\ (~interrupted => ControlInv' /\ BufferInv' /\ EndInv')
  BY <1>1, Sampled
<1> QED BY <1>1, <1>2, <1>5, <1>6, <1>7 DEF Inv

LEMMA AlignTargetStep ==
  ASSUME Inv, AlignTarget
  PROVE  Inv'
<1>0. TypeOK BY DEF Inv
<1>1. /\ UNCHANGED <<rec, book, queue, writer, data, control, world>>
      /\ sampler.step = "look" /\ sampler.batch # <<>>
      /\ \/ sampler' = (IF Live THEN [sampler EXCEPT !.step = "put"] ELSE NextTarget)
            /\ faults' = faults
         \/ sampler' = [sampler EXCEPT !.step = "missed"] /\ Fails
  BY DEF AlignTarget, SamplerKeeps
<1>2. faults' \in 0..MaxFaults
  <2>1. faults' = faults \/ Fails BY <1>1
  <2> QED BY <1>0, <2>1, FailsFacts
<1>3. sampler \in [batch : Seq(Stamps), epoch : 1..rec.epoch,
                   step : {"look", "missed", "put", "dead"}]
      /\ Len(sampler.batch) <= Fps /\ book \in Books
  BY <1>0, Types
<1>4. CASE \E step \in {"put", "missed"} : sampler' = [sampler EXCEPT !.step = step]
  <2>1. PICK step \in {"put", "missed"} : sampler' = [sampler EXCEPT !.step = step]
    BY <1>4
  <2>2. sampler'.batch = sampler.batch /\ sampler'.epoch = sampler.epoch /\ sampler'.step = step
    BY <1>3, <2>1
  <2>3. sampler' \in [batch : Seq(Stamps), epoch : 1..rec.epoch,
                      step : {"look", "missed", "put", "dead"}]
    BY <1>3, <2>1
  <2> QED BY <1>1, <1>2, <1>3, <2>2, <2>3, Unqueued
<1>5. CASE sampler' = NextTarget /\ ~Live
  <2>1. ~(rec.recording /\ Current) BY <1>5 DEF Live, Current
  <2> QED BY <1>0, <1>1, <1>2, <1>3, <1>5, <2>1, NextTargetFacts, Unqueued
<1> QED BY <1>1, <1>4, <1>5

LEMMA CountMissedStep ==
  ASSUME Inv, CountMissed
  PROVE  Inv'
<1>0. TypeOK /\ PrefixInv BY DEF Inv
<1>1. /\ UNCHANGED <<rec, queue, writer, data, control, world, faults>>
      /\ sampler.step = "missed" /\ sampler' = NextTarget
      /\ book' = [book EXCEPT !.misaligned = (@ \/ sampler.epoch = rec.epoch)]
  BY DEF CountMissed, SamplerKeeps
<1>2. sampler.batch # <<>> BY <1>0, <1>1 DEF PrefixInv
<1>3. book \in Books /\ faults \in 0..MaxFaults BY <1>0, Types
<1>4. /\ book' \in Books /\ book'.rows = book.rows /\ book'.dropped = book.dropped
      /\ book'.error = book.error
      /\ book'.misaligned <=> (book.misaligned \/ sampler.epoch = rec.epoch)
  BY <1>1, <1>3 DEF Books
<1>5. /\ sampler'.batch = Tail(sampler.batch) /\ sampler'.epoch = sampler.epoch
      /\ sampler'.step = "look"
      /\ sampler' \in [batch : Seq(Stamps), epoch : 1..rec.epoch,
                       step : {"look", "missed", "put", "dead"}]
      /\ Len(sampler'.batch) <= Fps
  BY <1>0, <1>1, <1>2, NextTargetFacts
<1>6. Current => book'.misaligned BY <1>4 DEF Current
<1> HIDE <1>0
<1> QED BY <1>1, <1>2, <1>3, <1>4, <1>5, <1>6, Unqueued

LEMMA SamplerDiesStep ==
  ASSUME Inv, SamplerDies
  PROVE  Inv'
<1>0. TypeOK BY DEF Inv
<1>1. /\ UNCHANGED <<rec, book, queue, writer, data, control, world>>
      /\ sampler' = [sampler EXCEPT !.batch = <<>>, !.step = "dead"] /\ Fails
  BY DEF SamplerDies, SamplerKeeps
<1>2. faults' \in 0..MaxFaults BY <1>0, <1>1, FailsFacts
<1>3. sampler \in [batch : Seq(Stamps), epoch : 1..rec.epoch,
                   step : {"look", "missed", "put", "dead"}]
      /\ book \in Books /\ Fps \in Nat
  BY <1>0, Types, PipelineAssumption
<1>4. sampler'.batch = <<>> /\ sampler'.epoch = sampler.epoch /\ sampler'.step = "dead"
  BY <1>1, <1>3
<1>5. sampler' \in [batch : Seq(Stamps), epoch : 1..rec.epoch,
                    step : {"look", "missed", "put", "dead"}]
  BY <1>1, <1>3, EmptyFacts
<1>6. Len(sampler'.batch) <= Fps BY <1>3, <1>4, EmptyFacts
<1> QED BY <1>1, <1>2, <1>3, <1>4, <1>5, <1>6, Unqueued

\* The second look: a row of the epoch goes to the end of the queue, or is dropped.
LEMMA PutRowStep ==
  ASSUME Inv, PutRow
  PROVE  Inv'
<1> DEFINE row == Head(sampler.batch)
           room == Len(queue) < QueueSize
<1>0. /\ TypeOK /\ TrimInv /\ PrefixInv
      /\ ~interrupted => ControlInv /\ BufferInv /\ GaplessInv /\ EndInv
  BY DEF Inv
<1>1. /\ UNCHANGED <<rec, writer, data, control, world, faults>>
      /\ sampler.step = "put" /\ sampler' = NextTarget
      /\ book' = IF Live
                 THEN [book EXCEPT !.attempts = @ + 1, !.dropped = (@ \/ ~room)] ELSE book
      /\ queue' = IF Live /\ room THEN Append(queue, row) ELSE queue
  BY DEF PutRow, Puts, SamplerKeeps
<1>2. sampler.batch # <<>> BY <1>0, <1>1 DEF PrefixInv
<1>3. book \in Books /\ faults \in 0..MaxFaults BY <1>0, Types
<1>4. /\ book' \in Books /\ book'.rows = book.rows /\ book'.error = book.error
      /\ book'.misaligned = book.misaligned
      /\ book'.dropped <=> (book.dropped \/ (Live /\ ~room))
  <2> DEFINE drops == book.dropped \/ ~room
             next == [book EXCEPT !.attempts = book.attempts + 1, !.dropped = drops]
  <2>1. book' = IF Live THEN next ELSE book BY <1>1
  <2>2. drops \in BOOLEAN /\ (drops <=> book.dropped \/ ~room) BY <1>3 DEF Books
  <2> HIDE DEF drops, room
  <2>3. next \in Books
    <3>1. ASSUME NEW a \in Nat, NEW d \in BOOLEAN
          PROVE  [book EXCEPT !.attempts = a, !.dropped = d] \in Books
      BY <1>3 DEF Books
    <3>2. book.attempts + 1 \in Nat BY <1>3 DEF Books
    <3> HIDE <1>3
    <3> QED BY <2>2, <3>1, <3>2, Zenon
  <2>4. next.rows = book.rows /\ next.error = book.error /\ next.misaligned = book.misaligned
        /\ next.dropped = drops
    BY <1>3 DEF Books
  <2> HIDE DEF next
  <2>5. CASE Live BY <2>1, <2>2, <2>3, <2>4, <2>5
  <2>6. CASE ~Live BY <1>3, <2>1, <2>6
  <2> QED BY <2>5, <2>6
<1>5. /\ sampler'.batch = Tail(sampler.batch) /\ sampler'.epoch = sampler.epoch
      /\ sampler'.step = "look"
      /\ sampler' \in [batch : Seq(Stamps), epoch : 1..rec.epoch,
                       step : {"look", "missed", "put", "dead"}]
      /\ Len(sampler'.batch) <= Fps
  BY <1>0, <1>1, <1>2, NextTargetFacts
<1>6. CASE ~(Live /\ room)
  <2>1. queue' = queue BY <1>1, <1>6
  <2>2. rec.recording /\ Current => book'.dropped BY <1>4, <1>6 DEF Live, Current
  <2> HIDE <1>0
  <2> QED BY <1>1, <1>2, <1>3, <1>4, <1>5, <2>1, <2>2, Unqueued
<1>7. CASE Live /\ room
  <2>1. rec.recording /\ Current BY <1>7 DEF Live, Current
  <2>2. /\ rec' = rec /\ writer' = writer /\ data' = data /\ control' = control
        /\ now' = now /\ shutdown' = shutdown /\ interrupted' = interrupted /\ faults' = faults
    BY <1>1
  <2>3. queue' = Append(queue, row) BY <1>1, <1>7
  <2>4. Stamps \subseteq Int /\ queue \in Seq(Stamps) /\ sampler.batch \in Seq(Stamps)
        /\ rec.first \in Int /\ Len(queue) \in Nat /\ QueueSize \in Nat /\ NextQueued \in Int
        /\ Len(sampler.batch) \in Nat
    BY <1>0, Types, PipelineAssumption
  <2>5. /\ row \in Stamps /\ Len(Tail(sampler.batch)) = Len(sampler.batch) - 1
        /\ Len(sampler.batch) >= 1
        /\ \A f \in Int : NoneBefore(sampler.batch, f)
              => row >= f /\ NoneBefore(Tail(sampler.batch), f)
        /\ \A f \in Int : Follow(sampler.batch, f)
              => row = f /\ Follow(Tail(sampler.batch), f + 1)
    BY <1>2, <2>4, TailFacts
  <2>6. /\ queue' \in Seq(Stamps) /\ Len(queue') = Len(queue) + 1
        /\ \A f \in Int : NoneBefore(queue, f) /\ row >= f => NoneBefore(queue', f)
        /\ \A f \in Int : Follow(queue, f) /\ row = f + Len(queue) => Follow(queue', f)
    BY <2>3, <2>4, <2>5, AppendFacts
  <2> HIDE DEF row
  <2>7. TypeOK'
    <3>1. Len(queue') <= QueueSize BY <1>7, <2>4, <2>6
    <3> QED BY <1>0, <1>4, <1>5, <2>2, <2>6, <3>1 DEF TypeOK, Books
  <2>8. PrefixInv'
    <3>1. NoneBefore(sampler.batch, rec.first) /\ NoneBefore(queue, rec.first)
      BY <1>0, <2>1 DEF PrefixInv
    <3>2. NoneBefore(sampler'.batch, rec.first) /\ NoneBefore(queue', rec.first)
      BY <1>5, <2>4, <2>5, <2>6, <3>1
    <3> QED BY <1>0, <1>4, <1>5, <2>2, <3>2 DEF PrefixInv, InHand
  <2>9. ASSUME ~interrupted PROVE GaplessInv'
    <3>1. NextQueued' = NextQueued /\ InHand' = InHand /\ Current'
      BY <1>4, <1>5, <2>1, <2>2 DEF NextQueued, InHand, Current
    <3>2. NextSampled = NextQueued + Len(queue) /\ NextSampled' = NextSampled + 1
          /\ NextSampled \in Int
      BY <2>4, <2>6, <3>1 DEF NextSampled
    <3>3. Clean' => Clean BY <1>4, <2>2 DEF Clean
    <3>4. ASSUME Clean PROVE Follow(queue, NextQueued) /\ Follow(sampler.batch, NextSampled)
                             /\ rec.cursor = NextSampled + Len(sampler.batch)
      <4>1. GaplessInv /\ sampler.step # "dead" BY <1>0, <1>1, <2>9
      <4> QED BY <2>1, <3>4, <4>1 DEF GaplessInv
    <3>5. ASSUME Clean PROVE Follow(queue', NextQueued) /\ Follow(sampler'.batch, NextSampled + 1)
                             /\ rec.cursor = NextSampled + 1 + Len(sampler'.batch)
      <4>1. row = NextSampled /\ Follow(Tail(sampler.batch), NextSampled + 1)
        BY <2>5, <3>2, <3>4, <3>5
      <4>2. Follow(queue', NextQueued) BY <2>4, <2>6, <3>2, <3>4, <3>5, <4>1
      <4>3. rec.cursor = NextSampled + 1 + Len(Tail(sampler.batch))
        <5> DEFINE length == Len(sampler.batch)
                   rest == Len(Tail(sampler.batch))
        <5>1. rec.cursor = NextSampled + length BY <3>4, <3>5
        <5>2. NextSampled \in Int /\ length \in Nat BY <2>4, <3>2
        <5>3. rest = length - 1 BY <2>5
        <5>4. SUFFICES rec.cursor = NextSampled + 1 + rest OBVIOUS
        <5> HIDE DEF length, rest
        <5> QED BY <5>1, <5>2, <5>3
      <4> QED BY <1>5, <4>1, <4>2, <4>3
    <3> QED BY <1>0, <1>4, <2>2, <2>9, <3>1, <3>2, <3>3, <3>5 DEF GaplessInv
  <2>10. TrimInv' /\ (~interrupted => ControlInv' /\ BufferInv' /\ EndInv')
    BY <1>1, <1>4, <2>1, <2>2, Sampled
  <2> QED BY <2>2, <2>7, <2>8, <2>9, <2>10 DEF Inv
<1> QED BY <1>6, <1>7

-----------------------------------------------------------------------------
(* The writer and the image writer *)

\* A step of the writer is one of threads that have not settled: the control
\* thread has waited for nothing yet.
LEMMA Written ==
  ASSUME Inv, ~Settled, UNCHANGED <<rec, sampler, control, world>>,
         data'.retained = data.retained
  PROVE  /\ TrimInv'
         /\ ~interrupted => /\ ControlInv' /\ EndInv'
                            /\ rec.phase \in {"RECORDING", "FREEZING", "QUARANTINED_COMMIT"}
<1> USE DEF Inv
<1>1. control' = control /\ rec' = rec /\ interrupted' = interrupted OBVIOUS
<1>2. TrimInv' BY <1>1 DEF TrimInv, TrimSteps
<1>3. ASSUME ~interrupted
      PROVE  ControlInv' /\ rec.phase \in {"RECORDING", "FREEZING", "QUARANTINED_COMMIT"}
  <2>1. ControlInv /\ EndInv /\ rec.phase \in Phases BY <1>3, Types
  <2>2. rec.phase \in {"RECORDING", "FREEZING", "QUARANTINED_COMMIT"}
    BY <2>1 DEF ControlInv, EndInv, Phases
  <2>3. control.step \notin {"drain", "seal"} \cup KeepSteps BY <2>1 DEF ControlInv
  <2> HIDE DEF Inv
  <2>4. ControlInv' BY <1>1, <2>1, <2>2, <2>3 DEF ControlInv, KeepSteps
  <2> QED BY <2>2, <2>4
<1>4. ASSUME ~interrupted PROVE EndInv'
  <2>1. ControlInv /\ EndInv BY <1>4
  <2>2. control.step # "release" BY <2>1 DEF ControlInv, KeepSteps
  <2> HIDE DEF Inv
  <2> QED BY <1>1, <1>3, <1>4, <2>1, <2>2 DEF EndInv
<1> QED BY <1>2, <1>3, <1>4

\* The head of the queue passes into the writer's hands.
LEMMA TakeRowStep ==
  ASSUME Inv, TakeRow
  PROVE  Inv'
<1>0. /\ TypeOK /\ TrimInv /\ PrefixInv
      /\ ~interrupted => ControlInv /\ BufferInv /\ GaplessInv /\ EndInv
  BY DEF Inv
<1> DEFINE head == Head(queue)
           rest == Tail(queue)
<1>1. /\ writer.step = "idle" /\ queue # <<>>
      /\ writer' = [step |-> "check", row |-> head] /\ queue' = rest
      /\ rec' = rec /\ sampler' = sampler /\ control' = control /\ book' = book /\ data' = data
      /\ now' = now /\ shutdown' = shutdown /\ interrupted' = interrupted /\ faults' = faults
  BY DEF TakeRow, WriterKeeps
<1>2. /\ Stamps \subseteq Int /\ queue \in Seq(Stamps) /\ rec.first \in Int
      /\ Len(book.rows) \in Nat /\ Len(queue) \in Nat /\ Len(queue) <= QueueSize
      /\ QueueSize \in Nat /\ NextQueued \in Int
  BY <1>0, Types, PipelineAssumption
<1>3. /\ head \in Stamps /\ rest \in Seq(Stamps) /\ Len(rest) = Len(queue) - 1
      /\ \A f \in Int : NoneBefore(queue, f) => head >= f /\ NoneBefore(rest, f)
      /\ \A f \in Int : Follow(queue, f) => head = f /\ Follow(rest, f + 1)
  BY <1>1, <1>2, TailFacts
<1> HIDE DEF head, rest
<1>4. writer'.step = "check" /\ writer'.row = head /\ ~InHand /\ InHand'
  BY <1>1 DEF InHand
<1>5. TypeOK'
  <2>1. Len(rest) <= QueueSize BY <1>2, <1>3
  <2> QED BY <1>0, <1>1, <1>3, <2>1 DEF TypeOK
<1>6. PrefixInv'
  <2>1. head >= rec.first /\ NoneBefore(rest, rec.first) BY <1>0, <1>2, <1>3 DEF PrefixInv
  <2> QED BY <1>0, <1>1, <1>4, <2>1 DEF PrefixInv, Current
<1>7. ASSUME ~interrupted PROVE BufferInv' /\ GaplessInv'
  <2>1. BufferInv' BY <1>0, <1>1, <1>4, <1>7 DEF BufferInv
  <2>2. NextQueued = rec.first + Len(book.rows) /\ NextQueued' = NextQueued + 1
    BY <1>1, <1>2, <1>4 DEF NextQueued
  <2>3. NextSampled' = NextSampled
    <3>1. Len(queue') = Len(queue) - 1 BY <1>1, <1>3
    <3> QED BY <1>2, <2>2, <3>1 DEF NextSampled
  <2>4. Clean' => Clean BY <1>1, <1>4 DEF Clean
  <2>5. Clean => head = NextQueued /\ Follow(rest, NextQueued + 1)
    BY <1>0, <1>2, <1>3, <1>7 DEF GaplessInv
  <2>6. Current' = Current BY <1>1 DEF Current
  <2>7. GaplessInv BY <1>0, <1>7
  <2> HIDE <1>0
  <2> QED BY <1>1, <1>4, <2>1, <2>2, <2>3, <2>4, <2>5, <2>6, <2>7 DEF GaplessInv
<1>8. ~Settled BY <1>1 DEF Settled
<1> QED BY <1>1, <1>5, <1>6, <1>7, <1>8, Written DEF Inv

\* The writer keeps its row or lets one go that the quality gate will not miss.
LEMMA Handled ==
  ASSUME Inv, writer.step # "idle",
         UNCHANGED <<rec, sampler, control, world, queue, data>>,
         faults' \in 0..MaxFaults, book' \in Books, book'.rows = book.rows,
         book'.dropped = book.dropped, book'.misaligned = book.misaligned,
         book.error => book'.error,
         writer' \in Writers, writer'.row = writer.row, writer.step # "count",
         \/ InHand /\ InHand' /\ writer'.step # "count"
         \/ writer'.step = "failed"
         \/ writer'.step = "idle" /\ (book'.error \/ rec.phase \notin {"RECORDING", "FREEZING"})
  PROVE  Inv'
<1>0. /\ TypeOK /\ TrimInv /\ PrefixInv
      /\ ~interrupted => ControlInv /\ BufferInv /\ GaplessInv /\ EndInv
  BY DEF Inv
<1>1. rec' = rec /\ sampler' = sampler /\ control' = control /\ queue' = queue /\ data' = data
      /\ now' = now /\ shutdown' = shutdown /\ interrupted' = interrupted
  OBVIOUS
<1>2. ~Settled BY DEF Settled
<1>3. TrimInv' /\ (~interrupted => /\ ControlInv' /\ EndInv'
                                   /\ rec.phase \in {"RECORDING", "FREEZING", "QUARANTINED_COMMIT"})
  BY <1>1, <1>2, Written
<1>4. TypeOK' BY <1>0, <1>1 DEF TypeOK, Books, Writers
<1>5. InHand' => InHand
  <2>1. CASE writer'.step = "failed" BY <2>1 DEF InHand
  <2>2. CASE writer'.step = "idle" BY <2>2 DEF InHand
  <2> QED BY <2>1, <2>2
<1>6. PrefixInv' BY <1>0, <1>1, <1>5 DEF PrefixInv, Current
<1>7. ASSUME ~interrupted PROVE BufferInv'
  <2>1. writer'.step # "count" OBVIOUS
  <2> QED BY <1>0, <1>1, <1>7, <2>1 DEF BufferInv
<1>8. ASSUME ~interrupted PROVE GaplessInv'
  <2>1. Clean' => InHand' /\ InHand /\ Clean BY <1>1, <1>3, <1>8 DEF Clean, InHand
  <2>2. InHand' /\ InHand => NextQueued' = NextQueued /\ NextSampled' = NextSampled
    BY <1>1 DEF NextQueued, NextSampled
  <2>3. Current' = Current /\ GaplessInv BY <1>0, <1>1, <1>8 DEF Current
  <2> HIDE <1>0
  <2> QED BY <1>1, <2>1, <2>2, <2>3 DEF GaplessInv
<1> QED BY <1>1, <1>3, <1>4, <1>6, <1>7, <1>8 DEF Inv

LEMMA CheckRowStep ==
  ASSUME Inv, CheckRow
  PROVE  Inv'
<1>1. /\ UNCHANGED <<rec, sampler, control, world, queue, book, data, faults>>
      /\ writer.step = "check"
      /\ writer' = [writer EXCEPT
            !.step = IF rec.phase \in {"RECORDING", "FREEZING"} THEN "add" ELSE "idle"]
  BY DEF CheckRow, WriterKeeps
<1>2. writer \in Writers /\ book \in Books /\ faults \in 0..MaxFaults BY Types DEF Inv
<1>3. /\ writer' \in Writers /\ writer'.row = writer.row
      /\ writer'.step = IF rec.phase \in {"RECORDING", "FREEZING"} THEN "add" ELSE "idle"
  BY <1>1, <1>2 DEF Writers
<1>4. \/ InHand /\ InHand' /\ writer'.step # "count"
      \/ writer'.step = "idle" /\ rec.phase \notin {"RECORDING", "FREEZING"}
  BY <1>1, <1>3 DEF InHand
<1> QED BY <1>1, <1>2, <1>3, <1>4, Handled

LEMMA RowFailsStep ==
  ASSUME Inv, RowFails
  PROVE  Inv'
<1>1. /\ UNCHANGED <<rec, sampler, control, world, queue, data, faults>>
      /\ writer.step = "failed"
      /\ book' = [book EXCEPT !.error = TRUE] /\ writer' = [writer EXCEPT !.step = "idle"]
  BY DEF RowFails, WriterKeeps
<1>2. writer \in Writers /\ book \in Books /\ faults \in 0..MaxFaults BY Types DEF Inv
<1>3. writer' \in Writers /\ writer'.row = writer.row /\ writer'.step = "idle"
  BY <1>1, <1>2 DEF Writers
<1>4. book' \in Books /\ book'.rows = book.rows /\ book'.dropped = book.dropped
      /\ book'.misaligned = book.misaligned /\ book'.error
  BY <1>1, <1>2 DEF Books
<1> QED BY <1>1, <1>2, <1>3, <1>4, Handled

\* An image more or an image less that is owed.
LEMMA OwedFacts ==
  ASSUME TypeOK
  PROVE  /\ \A row \in Stamps : Cardinality(data.owed) < QueueSize
               => Cardinality(data.owed \cup {row}) <= QueueSize
         /\ \A row \in data.owed : Cardinality(data.owed \ {row}) <= QueueSize
         /\ Cardinality({}) <= QueueSize
<1>1. data.owed \subseteq Stamps /\ Cardinality(data.owed) <= QueueSize /\ QueueSize \in Nat
      /\ LastStamp \in Nat
  BY Types, PipelineAssumption
<1>2. IsFiniteSet(Stamps) BY <1>1, FS_Interval DEF Stamps
<1>3. IsFiniteSet(data.owed) BY <1>1, <1>2, FS_Subset
<1>4. Cardinality(data.owed) \in Nat BY <1>3, FS_CardinalityType
<1>5. \A row : Cardinality(data.owed \cup {row})
                 = IF row \in data.owed THEN Cardinality(data.owed) ELSE Cardinality(data.owed) + 1
  BY <1>3, FS_AddElement
<1>6. \A row : Cardinality(data.owed \ {row})
                 = IF row \in data.owed THEN Cardinality(data.owed) - 1 ELSE Cardinality(data.owed)
  BY <1>3, FS_RemoveElement
<1>7. Cardinality({}) = 0 BY FS_EmptySet
<1> QED BY <1>1, <1>4, <1>5, <1>6, <1>7

\* A row is added to the buffer with its images owed, or raises.
LEMMA AddRowStep ==
  ASSUME Inv, AddRow
  PROVE  Inv'
<1>0. /\ TypeOK /\ TrimInv /\ PrefixInv
      /\ ~interrupted => ControlInv /\ BufferInv /\ GaplessInv /\ EndInv
  BY DEF Inv
<1>1. /\ writer.step = "add" /\ Cardinality(data.owed) < QueueSize
      /\ rec' = rec /\ sampler' = sampler /\ control' = control /\ book' = book /\ queue' = queue
      /\ now' = now /\ shutdown' = shutdown /\ interrupted' = interrupted
  BY DEF AddRow, WriterKeeps
<1>2. /\ Stamps \subseteq Int /\ rec.first \in Int /\ faults \in 0..MaxFaults
      /\ writer \in Writers /\ writer.row \in Stamps /\ book \in Books
      /\ data \in Datas /\ data.buffer \in Seq(Stamps) /\ data.owed \subseteq Stamps
  BY <1>0, Types
<1>3. InHand BY <1>1 DEF InHand
<1>4. CASE /\ data' = [data EXCEPT !.buffer = Append(@, writer.row),
                                   !.owed = @ \union {writer.row}]
           /\ writer' = [writer EXCEPT !.step = "count"] /\ faults' = faults
  <2> DEFINE longer == Append(data.buffer, writer.row)
             owing == data.owed \cup {writer.row}
  <2>1. /\ longer \in Seq(Stamps) /\ Range(longer) = Range(data.buffer) \cup {writer.row}
        /\ \A f \in Int : NoneBefore(data.buffer, f) /\ writer.row >= f => NoneBefore(longer, f)
    <3>1. Stamps \subseteq Int /\ writer.row \in Stamps /\ data.buffer \in Seq(Stamps) BY <1>2
    <3> QED BY <3>1, AppendFacts, Zenon
  <2>2. owing \subseteq Stamps /\ Cardinality(owing) <= QueueSize
    BY <1>0, <1>1, <1>2, OwedFacts
  <2>3. data' = [data EXCEPT !.buffer = longer, !.owed = owing] BY <1>2, <1>4
  <2> HIDE DEF longer, owing
  <2>4. /\ data' \in Datas /\ data'.buffer = longer /\ data'.owed = owing
        /\ data'.staged = data.staged /\ data'.retained = data.retained
    BY <1>2, <2>1, <2>2, <2>3 DEF Datas
  <2>5. writer' \in Writers /\ writer'.step = "count" /\ writer'.row = writer.row
    BY <1>2, <1>4 DEF Writers
  <2>6. TypeOK' BY <1>0, <1>1, <1>4, <2>2, <2>4, <2>5 DEF TypeOK, Datas, Writers
  <2>7. InHand' /\ NextQueued' = NextQueued /\ NextSampled' = NextSampled /\ Current' = Current
    BY <1>1, <1>3, <2>5 DEF InHand, NextQueued, NextSampled, Current
  <2>8. PrefixInv'
    <3>1. NoneBefore(longer, rec.first) BY <1>0, <1>2, <1>3, <2>1 DEF PrefixInv
    <3> QED BY <1>0, <1>1, <1>3, <2>4, <2>5, <2>7, <3>1 DEF PrefixInv
  <2>9. ~Settled BY <1>1 DEF Settled
  <2>10. TrimInv' /\ (~interrupted => ControlInv' /\ EndInv')
    BY <1>1, <2>4, <2>9, Written
  <2>11. ASSUME ~interrupted PROVE BufferInv'
    <3>1. rec.phase # "ABORTED" => data.buffer = book.rows
      BY <1>0, <1>1, <2>11 DEF BufferInv
    <3>2. data.staged \cup data.owed = Range(data.buffer) BY <1>0, <2>11 DEF BufferInv
    <3>3. data'.staged \cup data'.owed = Range(data'.buffer)
      BY <2>1, <2>4, <3>2 DEF owing
    <3>4. rec'.phase # "ABORTED" => data'.buffer = Append(book'.rows, writer'.row)
      BY <1>1, <2>4, <2>5, <3>1 DEF longer
    <3> QED BY <2>5, <3>3, <3>4 DEF BufferInv
  <2>12. ASSUME ~interrupted PROVE GaplessInv'
    <3>1. (Clean' => Clean) /\ GaplessInv BY <1>0, <1>1, <2>5, <2>12 DEF Clean
    <3> QED BY <1>1, <1>3, <2>5, <2>7, <3>1 DEF GaplessInv
  <2> QED BY <1>1, <2>6, <2>8, <2>10, <2>11, <2>12 DEF Inv
<1>5. CASE writer' = [writer EXCEPT !.step = "failed"] /\ Fails /\ data' = data
  <2>1. faults' \in 0..MaxFaults BY <1>0, <1>5, FailsFacts
  <2>2. writer' \in Writers /\ writer'.step = "failed" /\ writer'.row = writer.row
    BY <1>2, <1>5 DEF Writers
  <2> QED BY <1>1, <1>2, <1>5, <2>1, <2>2, Handled
<1>6. \/ /\ data' = [data EXCEPT !.buffer = Append(@, writer.row),
                                 !.owed = @ \union {writer.row}]
         /\ writer' = [writer EXCEPT !.step = "count"] /\ faults' = faults
      \/ writer' = [writer EXCEPT !.step = "failed"] /\ Fails /\ data' = data
  BY DEF AddRow
<1> QED BY <1>4, <1>5, <1>6

\* The row in hand becomes the last that was counted.
LEMMA CountRowStep ==
  ASSUME Inv, CountRow
  PROVE  Inv'
<1>0. /\ TypeOK /\ TrimInv /\ PrefixInv
      /\ ~interrupted => ControlInv /\ BufferInv /\ GaplessInv /\ EndInv
  BY DEF Inv
<1> DEFINE longer == Append(book.rows, writer.row)
<1>1. /\ writer.step = "count"
      /\ book' = [book EXCEPT !.rows = longer] /\ writer' = [writer EXCEPT !.step = "idle"]
      /\ rec' = rec /\ sampler' = sampler /\ control' = control /\ data' = data /\ queue' = queue
      /\ now' = now /\ shutdown' = shutdown /\ interrupted' = interrupted /\ faults' = faults
  BY DEF CountRow, WriterKeeps
<1>2. /\ Stamps \subseteq Int /\ rec.first \in Int /\ writer \in Writers /\ writer.row \in Stamps
      /\ book \in Books /\ book.rows \in Seq(Stamps) /\ Len(book.rows) \in Nat
  BY <1>0, Types
<1>3. /\ longer \in Seq(Stamps) /\ Len(longer) = Len(book.rows) + 1
      /\ \A f \in Int : NoneBefore(book.rows, f) /\ writer.row >= f => NoneBefore(longer, f)
      /\ \A f \in Int : Follow(book.rows, f) /\ writer.row = f + Len(book.rows)
            => Follow(longer, f)
  BY <1>2, AppendFacts
<1> HIDE DEF longer
<1>4. /\ book' \in Books /\ book'.rows = longer /\ book'.dropped = book.dropped
      /\ book'.misaligned = book.misaligned /\ book'.error = book.error
  BY <1>1, <1>2, <1>3 DEF Books
<1>5. writer' \in Writers /\ writer'.step = "idle" /\ writer'.row = writer.row
  BY <1>1, <1>2 DEF Writers
<1>6. TypeOK' BY <1>0, <1>1, <1>4, <1>5 DEF TypeOK, Books, Writers
<1>7. InHand /\ ~InHand' /\ Current' = Current BY <1>1, <1>5 DEF InHand, Current
<1>8. PrefixInv'
  <2>1. NoneBefore(longer, rec.first) BY <1>0, <1>2, <1>3, <1>7 DEF PrefixInv
  <2> QED BY <1>0, <1>1, <1>4, <1>7, <2>1 DEF PrefixInv
<1>9. ~Settled BY <1>1 DEF Settled
<1>10. TrimInv' /\ (~interrupted => ControlInv' /\ EndInv')
  BY <1>1, <1>9, Written
<1>11. ASSUME ~interrupted PROVE BufferInv'
  <2>1. rec.phase # "ABORTED" => data.buffer = longer
    BY <1>0, <1>1, <1>11 DEF BufferInv, longer
  <2>2. data.staged \cup data.owed = Range(data.buffer) BY <1>0, <1>11 DEF BufferInv
  <2> QED BY <1>1, <1>4, <1>5, <2>1, <2>2 DEF BufferInv
<1>12. ASSUME ~interrupted PROVE GaplessInv'
  <2>1. (Clean' => Clean) /\ GaplessInv BY <1>0, <1>1, <1>4, <1>5, <1>12 DEF Clean
  <2>2. NextQueued' = NextQueued
    <3>1. NextQueued = rec.first + Len(book.rows) + 1 BY <1>7 DEF NextQueued
    <3>2. NextQueued' = rec.first + Len(longer) + 0 BY <1>1, <1>4, <1>7 DEF NextQueued
    <3>3. Len(longer) = Len(book.rows) + 1 BY <1>3
    <3> QED BY <1>2, <3>1, <3>2, <3>3
  <2>3. NextSampled' = NextSampled BY <1>1, <2>2 DEF NextSampled
  <2>4. Clean => Follow(longer, rec.first) BY <1>2, <1>3, <1>7, <2>1 DEF GaplessInv
  <2> QED BY <1>1, <1>4, <1>7, <2>1, <2>2, <2>3, <2>4 DEF GaplessInv
<1> QED BY <1>1, <1>6, <1>8, <1>10, <1>11, <1>12 DEF Inv

LEMMA WriteImagesStep ==
  ASSUME Inv, WriteImages
  PROVE  Inv'
<1>0. /\ TypeOK /\ TrimInv /\ PrefixInv
      /\ ~interrupted => ControlInv /\ BufferInv /\ GaplessInv /\ EndInv
  BY DEF Inv
<1>1. PICK row \in data.owed : data' = [data EXCEPT !.owed = @ \ {row}, !.staged = @ \union {row}]
  BY Zenon DEF WriteImages
<1>2. /\ rec' = rec /\ book' = book /\ sampler' = sampler /\ queue' = queue /\ writer' = writer
      /\ control' = control /\ now' = now /\ shutdown' = shutdown
      /\ interrupted' = interrupted /\ faults' = faults
  BY DEF WriteImages
<1>3. data \in Datas /\ data.owed \subseteq Stamps /\ data.staged \subseteq Stamps
  BY <1>0, Types
<1>4. /\ data' \in Datas /\ data'.owed = data.owed \ {row}
      /\ data'.staged = data.staged \cup {row}
      /\ data'.buffer = data.buffer /\ data'.retained = data.retained
  BY <1>1, <1>3 DEF Datas
<1>5. Cardinality(data'.owed) <= QueueSize BY <1>0, <1>4, OwedFacts
<1>6. TypeOK' BY <1>0, <1>2, <1>4, <1>5 DEF TypeOK, Datas
<1>7. Settled' = Settled /\ Drained' = Drained BY <1>2 DEF Settled, Drained
<1>8. data.owed # {} /\ data'.staged \cup data'.owed = data.staged \cup data.owed BY <1>4
<1>9. TrimInv' BY <1>0, <1>2, <1>7, <1>8 DEF TrimInv
<1>10. PrefixInv' BY <1>0, <1>2, <1>4 DEF PrefixInv, InHand, Current
<1>11. ASSUME ~interrupted PROVE ControlInv' BY <1>0, <1>2, <1>7, <1>8, <1>11 DEF ControlInv
<1>12. ASSUME ~interrupted PROVE BufferInv' BY <1>0, <1>2, <1>4, <1>8, <1>12 DEF BufferInv
<1>13. ASSUME ~interrupted PROVE GaplessInv'
  <2>1. InHand' = InHand /\ Current' = Current /\ NextQueued' = NextQueued
        /\ NextSampled' = NextSampled /\ Clean' = Clean
    BY <1>2 DEF InHand, Current, NextQueued, NextSampled, Clean
  <2> QED BY <1>0, <1>2, <1>13, <2>1 DEF GaplessInv
<1>14. ASSUME ~interrupted PROVE EndInv'
  <2>1. ControlInv /\ EndInv BY <1>0, <1>14
  <2> QED BY <1>2, <1>4, <1>7, <1>8, <2>1 DEF EndInv
<1> QED BY <1>2, <1>6, <1>9, <1>10, <1>11, <1>12, <1>13, <1>14 DEF Inv

-----------------------------------------------------------------------------
(* The control thread *)

\* The names of the steps are steps: cited instead of expanding the set.
LEMMA StepNames ==
  /\ {"idle", "refused", "over", "died", "clear", "retain", "copy", "release"} \subseteq Steps
  /\ TrimSteps \subseteq Steps /\ TailSteps \subseteq Steps /\ SealSteps \subseteq Steps
  /\ KeepSteps \subseteq Steps /\ {"closeJoin", "close"} \subseteq Steps
  /\ {"RECORDING", "FREEZING", "FROZEN", "COMMITTED", "ABORTED", "QUARANTINED_COMMIT"} = Phases
BY DEF Steps, Phases, TrimSteps, TailSteps, SealSteps, KeepSteps

LEMMA GoesFacts ==
  ASSUME TypeOK, NEW step \in Steps, Goes(step)
  PROVE  control' \in Controls /\ control'.step = step /\ control'.purpose = control.purpose
BY Types DEF Goes, Controls

LEMMA BecomesFacts ==
  ASSUME TypeOK, NEW phase \in Phases, Becomes(phase)
  PROVE  /\ rec' \in Recs /\ rec'.phase = phase /\ rec'.recording = rec.recording
         /\ rec'.epoch = rec.epoch /\ rec'.cursor = rec.cursor
         /\ rec'.first = rec.first /\ rec'.tail = rec.tail
BY Types DEF Becomes, Recs

LEMMA StopsFacts ==
  ASSUME TypeOK, NEW phase \in Phases, Stops(phase)
  PROVE  /\ rec' \in Recs /\ rec'.phase = phase /\ rec'.recording = FALSE
         /\ rec'.epoch = rec.epoch /\ rec'.cursor = rec.cursor
         /\ rec'.first = rec.first /\ rec'.tail = rec.tail
BY Types DEF Stops, Recs

\* A step of the control thread that leaves the rows where they are: it remains
\* to see what the thread has waited for.
LEMMA Quiet ==
  ASSUME Inv, UNCHANGED <<book, threads, data>>,
         rec' \in Recs, rec'.epoch = rec.epoch, rec'.cursor = rec.cursor, rec'.first = rec.first,
         control' \in Controls, now' \in Stamps, shutdown' \in BOOLEAN, interrupted' \in BOOLEAN,
         faults' \in 0..MaxFaults,
         TrimInv',
         ~interrupted' => /\ ~interrupted
                          /\ ControlInv' /\ EndInv'
                          /\ rec'.phase = "ABORTED" <=> rec.phase = "ABORTED"
                          /\ Clean' => Clean /\ (rec'.recording => rec.recording)
  PROVE  Inv'
<1>0. /\ TypeOK /\ TrimInv /\ PrefixInv
      /\ ~interrupted => ControlInv /\ BufferInv /\ GaplessInv /\ EndInv
  BY DEF Inv
<1>1. book' = book /\ sampler' = sampler /\ queue' = queue /\ writer' = writer /\ data' = data
  OBVIOUS
<1>2. TypeOK' BY <1>0, <1>1 DEF TypeOK, Recs, Controls
<1>3. InHand' = InHand /\ Current' = Current /\ NextQueued' = NextQueued
      /\ NextSampled' = NextSampled
  BY <1>1 DEF InHand, Current, NextQueued, NextSampled
<1>4. PrefixInv' BY <1>0, <1>1, <1>3 DEF PrefixInv
<1>5. ASSUME ~interrupted' PROVE BufferInv' BY <1>0, <1>1, <1>5 DEF BufferInv
<1>6. ASSUME ~interrupted' PROVE GaplessInv'
  <2>1. GaplessInv BY <1>0, <1>6
  <2>2. Clean' => Clean /\ (rec'.recording => rec.recording) BY <1>6
  <2> HIDE <1>0
  <2> QED BY <1>1, <1>3, <2>1, <2>2 DEF GaplessInv
<1> QED BY <1>2, <1>4, <1>5, <1>6 DEF Inv

\* A call raises or a look finds the episode unfit: it is quarantined.
LEMMA Quarantined ==
  ASSUME Inv, Quarantines, UNCHANGED <<book, threads, data, world>>, faults' \in 0..MaxFaults,
         control.step \notin {"idle", "refused", "over", "retain", "release"}
  PROVE  Inv'
<1>0. TypeOK /\ (~interrupted => ControlInv /\ EndInv) BY DEF Inv
<1>1. /\ rec' \in Recs /\ rec'.phase = "QUARANTINED_COMMIT" /\ rec'.recording = FALSE
      /\ rec'.epoch = rec.epoch /\ rec'.cursor = rec.cursor
      /\ rec'.first = rec.first /\ rec'.tail = rec.tail
  BY <1>0, StepNames, StopsFacts DEF Quarantines
<1>2. control' \in Controls /\ control'.purpose = control.purpose
      /\ control'.step = IF control.purpose = "retain" THEN "retain" ELSE "over"
  BY <1>0, StepNames, GoesFacts DEF Quarantines
<1>3. /\ book' = book /\ writer' = writer /\ queue' = queue /\ data' = data /\ now' = now
      /\ shutdown' = shutdown /\ interrupted' = interrupted
      /\ now \in Stamps /\ shutdown \in BOOLEAN /\ interrupted \in BOOLEAN
  BY <1>0 DEF TypeOK
<1>4. TrimInv' BY <1>1, <1>2 DEF TrimInv, TrimSteps
<1>5. ~Clean' BY <1>1 DEF Clean
<1>6. ASSUME ~interrupted PROVE ControlInv'
  BY <1>1, <1>2 DEF ControlInv, TrimSteps, TailSteps, SealSteps, KeepSteps
<1>7. ASSUME ~interrupted PROVE EndInv' /\ rec.phase # "ABORTED"
  <2>1. ControlInv /\ EndInv BY <1>0, <1>7
  <2>2. data.retained = <<>> BY <2>1 DEF EndInv
  <2>3. rec.phase # "ABORTED" BY <2>1 DEF ControlInv
  <2> QED BY <1>1, <1>2, <1>3, <2>2, <2>3 DEF EndInv
<1> QED BY <1>1, <1>2, <1>3, <1>4, <1>5, <1>6, <1>7, Quiet

\* What a step leaves alone that changes the record and the step at most.
LEMMA Still ==
  ASSUME Inv, UNCHANGED <<book, threads, data, world>>
  PROVE  /\ now' \in Stamps /\ shutdown' \in BOOLEAN /\ interrupted' \in BOOLEAN
         /\ book' = book /\ sampler' = sampler /\ queue' = queue /\ writer' = writer
         /\ data' = data /\ interrupted' = interrupted
         /\ Settled' = Settled /\ (rec'.tail = rec.tail => Drained' = Drained)
BY DEF Inv, TypeOK, Settled, Drained

\* A step of the control thread that only goes to another.
LEMMA Onward ==
  ASSUME Inv, ControlKeeps, rec' = rec, NEW step \in Steps, Goes(step),
         TrimInv',
         ~interrupted => ControlInv' /\ EndInv' /\ (Clean' => Clean)
  PROVE  Inv'
<1>1. TypeOK /\ faults \in 0..MaxFaults /\ rec \in Recs BY Types DEF Inv
<1>2. control' \in Controls BY <1>1, GoesFacts
<1>3. UNCHANGED <<book, threads, data, world>> /\ faults' = faults BY DEF ControlKeeps
<1> QED BY <1>1, <1>2, <1>3, Still, Quiet

\* A join or a drain that ends: what it waited for stays so.
LEMMA Waited ==
  ASSUME Inv, ControlKeeps, rec' = rec, NEW from, NEW to, control.step = from, Goes(to),
         \/ from = "trimJoin" /\ to = "trimDrain" /\ Settled
         \/ from = "join" /\ to = "drain" /\ Settled
         \/ from = "trimDrain" /\ to = "trim" /\ data.owed = {}
         \/ from = "drain" /\ to = "seal" /\ data.owed = {}
         \/ from = "retainDrain" /\ to = "copy" /\ data.owed = {}
  PROVE  Inv'
<1>0. TypeOK /\ TrimInv /\ (~interrupted => ControlInv /\ EndInv) BY DEF Inv
<1>1. to \in Steps BY DEF Steps
<1>2. control'.step = to /\ control'.purpose = control.purpose BY <1>0, <1>1, GoesFacts
<1>3. Settled' = Settled /\ data' = data /\ interrupted' = interrupted /\ writer' = writer
      /\ book' = book /\ Drained' = Drained
  BY Still DEF ControlKeeps
<1>4. TrimInv' BY <1>0, <1>2, <1>3 DEF TrimInv, TrimSteps
<1>5. ASSUME ~interrupted PROVE ControlInv' /\ EndInv' /\ (Clean' => Clean)
  <2>1. ControlInv /\ EndInv BY <1>0, <1>5
  <2>2. ControlInv'
    BY <1>2, <1>3, <2>1 DEF ControlInv, TrimSteps, TailSteps, SealSteps, KeepSteps
  <2>3. EndInv' BY <1>2, <1>3, <2>1 DEF EndInv
  <2>4. Clean' => Clean BY <1>2, <1>3 DEF Clean
  <2> QED BY <2>2, <2>3, <2>4
<1> QED BY <1>1, <1>4, <1>5, Onward

LEMMA JoinStep ==
  ASSUME Inv, Join("trimJoin", "trimDrain") \/ Join("join", "drain")
  PROVE  Inv'
BY Waited DEF Join

LEMMA DrainStep ==
  ASSUME Inv, \/ Drain("trimDrain", "trim") \/ Drain("drain", "seal")
              \/ Drain("retainDrain", "copy")
  PROVE  Inv'
<1>1. control.step \in {"trimDrain", "drain", "retainDrain"} BY DEF Drain
<1>2. CASE Raises
  <2>1. faults' \in 0..MaxFaults BY <1>2, FailsFacts DEF Raises, Inv
  <2> QED BY <1>1, <1>2, <2>1, Quarantined DEF Raises
<1>3. CASE ~Raises BY <1>3, Waited DEF Drain
<1> QED BY <1>2, <1>3

\* A freeze that close takes up again was interrupted.
LEMMA JoinCloseStep ==
  ASSUME Inv, Join("closeJoin", "close")
  PROVE  Inv'
<1>0. TypeOK /\ TrimInv /\ (~interrupted => ControlInv) BY DEF Inv
<1>1. control.step = "closeJoin" /\ Goes("close") /\ ControlKeeps /\ rec' = rec
  BY DEF Join
<1>2. "close" \in Steps BY StepNames
<1>3. control'.step = "close" /\ interrupted' = interrupted
  BY <1>0, <1>1, <1>2, GoesFacts DEF ControlKeeps
<1>4. interrupted BY <1>0, <1>1 DEF ControlInv
<1>5. TrimInv' BY <1>0, <1>1, <1>3 DEF TrimInv, TrimSteps
<1> QED BY <1>1, <1>2, <1>4, <1>5, Onward

\* A trim closes the buffer to new rows.
LEMMA StartTrimStep ==
  ASSUME Inv, StartTrim
  PROVE  Inv'
<1>0. TypeOK /\ TrimInv /\ (~interrupted => ControlInv /\ EndInv) BY DEF Inv
<1>1. /\ control.step = "idle" /\ rec.phase = "RECORDING" /\ rec.epoch <= MaxTrims
      /\ Stops("RECORDING") /\ Goes("trimJoin") /\ ControlKeeps
  BY DEF StartTrim, Ready
<1>2. "trimJoin" \in Steps /\ "RECORDING" \in Phases BY DEF Steps, Phases
<1>3. control' \in Controls /\ control'.step = "trimJoin" /\ control'.purpose = control.purpose
  BY <1>0, <1>1, <1>2, GoesFacts
<1>4. /\ rec' \in Recs /\ rec'.phase = "RECORDING" /\ ~rec'.recording
      /\ rec'.epoch = rec.epoch /\ rec'.cursor = rec.cursor
      /\ rec'.first = rec.first /\ rec'.tail = rec.tail
  BY <1>0, <1>1, <1>2, StopsFacts
<1>5. UNCHANGED <<book, threads, data, world>> /\ faults' = faults /\ faults \in 0..MaxFaults
  BY <1>0, <1>1, Types DEF ControlKeeps
<1>6. /\ now' \in Stamps /\ shutdown' \in BOOLEAN /\ interrupted' \in BOOLEAN
      /\ book' = book /\ writer' = writer /\ data' = data /\ interrupted' = interrupted
      /\ Settled' = Settled /\ Drained' = Drained
  BY <1>4, <1>5, Still
<1>7. TrimInv' BY <1>0, <1>1, <1>3, <1>4, <1>6 DEF TrimInv, TrimSteps
<1>8. ASSUME ~interrupted PROVE ControlInv' /\ EndInv' /\ (Clean' => Clean)
  <2>1. ControlInv /\ EndInv BY <1>0, <1>8
  <2>2. ControlInv'
    BY <1>1, <1>3, <1>4, <1>6, <2>1 DEF ControlInv, TrimSteps, TailSteps, SealSteps, KeepSteps
  <2>3. EndInv' BY <1>1, <1>3, <1>4, <1>6, <2>1 DEF EndInv
  <2>4. Clean' => Clean BY <1>1, <1>3, <1>4, <1>6 DEF Clean
  <2> QED BY <2>2, <2>3, <2>4
<1> QED BY <1>1, <1>3, <1>4, <1>5, <1>6, <1>7, <1>8, Quiet

LEMMA TrimRefusedStep ==
  ASSUME Inv, TrimRefused
  PROVE  Inv'
<1>0. TypeOK /\ TrimInv /\ (~interrupted => ControlInv /\ EndInv) BY DEF Inv
<1>1. /\ control.step = "trim" /\ Goes("refused") /\ ControlKeeps
      /\ rec' = [rec EXCEPT !.recording = TRUE]
  BY DEF TrimRefused
<1>2. "refused" \in Steps BY DEF Steps
<1>3. control' \in Controls /\ control'.step = "refused" /\ control'.purpose = control.purpose
  BY <1>0, <1>1, <1>2, GoesFacts
<1>4. /\ rec' \in Recs /\ rec'.phase = rec.phase /\ rec'.recording
      /\ rec'.epoch = rec.epoch /\ rec'.cursor = rec.cursor
      /\ rec'.first = rec.first /\ rec'.tail = rec.tail
  BY <1>0, <1>1, Types DEF Recs
<1>5. UNCHANGED <<book, threads, data, world>> /\ faults' = faults /\ faults \in 0..MaxFaults
  BY <1>0, <1>1, Types DEF ControlKeeps
<1>6. /\ now' \in Stamps /\ shutdown' \in BOOLEAN /\ interrupted' \in BOOLEAN
      /\ book' = book /\ writer' = writer /\ data' = data /\ interrupted' = interrupted
      /\ Settled' = Settled /\ Drained' = Drained
  BY <1>4, <1>5, Still
<1>7. TrimInv' BY <1>0, <1>1, <1>3, <1>4, <1>6 DEF TrimInv, TrimSteps
<1>8. ~Clean' BY <1>3 DEF Clean
<1>9. ASSUME ~interrupted PROVE ControlInv' /\ EndInv'
  <2>1. ControlInv /\ EndInv BY <1>0, <1>9
  <2>2. ControlInv'
    BY <1>1, <1>3, <1>4, <1>6, <2>1 DEF ControlInv, TrimSteps, TailSteps, SealSteps, KeepSteps
  <2>3. rec.phase = "RECORDING" BY <1>1, <2>1 DEF ControlInv, TrimSteps
  <2>4. EndInv' BY <1>1, <1>3, <1>4, <1>6, <2>1, <2>3 DEF EndInv
  <2> QED BY <2>2, <2>4
<1> QED BY <1>1, <1>3, <1>4, <1>5, <1>6, <1>7, <1>8, <1>9, Quiet

\* A freeze, on its own or first thing of another command.
LEMMA StartFreezeStep ==
  ASSUME Inv, NEW purpose \in {"freeze", "abort", "retain", "close"}, StartFreeze(purpose)
  PROVE  Inv'
<1>0. TypeOK /\ TrimInv /\ (~interrupted => ControlInv /\ EndInv) BY DEF Inv
<1>1. /\ rec.phase = "RECORDING" /\ ControlKeeps
      /\ control.step \in {"idle", "refused"} /\ (purpose = "freeze" => control.step = "idle")
      /\ rec' = [rec EXCEPT
            !.tail = now, !.recording = (@ /\ sampler.step # "dead"),
            !.phase = IF sampler.step = "dead" THEN "QUARANTINED_COMMIT" ELSE "FREEZING"]
      /\ control' = [purpose |-> purpose,
                     step |-> CASE sampler.step # "dead" -> "tail"
                              [] sampler.step = "dead" /\ purpose = "retain" -> "retain"
                              [] OTHER -> "over"]
  BY DEF StartFreeze
<1>2. /\ control'.purpose = purpose
      /\ control'.step = IF sampler.step # "dead" THEN "tail"
                         ELSE IF purpose = "retain" THEN "retain" ELSE "over"
      /\ control' \in Controls
  <2>1. purpose \in Purposes /\ {"tail", "retain", "over"} \subseteq Steps
    BY DEF Purposes, Steps
  <2> DEFINE step == CASE sampler.step # "dead" -> "tail"
                       [] sampler.step = "dead" /\ purpose = "retain" -> "retain"
                       [] OTHER -> "over"
  <2>2. step = IF sampler.step # "dead" THEN "tail"
               ELSE IF purpose = "retain" THEN "retain" ELSE "over"
    OBVIOUS
  <2>3. control' = [purpose |-> purpose, step |-> step] BY <1>1
  <2> HIDE DEF step
  <2> QED BY <2>1, <2>2, <2>3 DEF Controls
<1>3. rec \in Recs /\ now \in Stamps /\ faults \in 0..MaxFaults BY <1>0, Types
<1>4. /\ rec' \in Recs
      /\ rec'.phase = IF sampler.step = "dead" THEN "QUARANTINED_COMMIT" ELSE "FREEZING"
      /\ rec'.recording <=> (rec.recording /\ sampler.step # "dead")
      /\ rec'.epoch = rec.epoch /\ rec'.cursor = rec.cursor /\ rec'.first = rec.first
  BY <1>1, <1>3 DEF Recs, Phases
<1>5. UNCHANGED <<book, threads, data, world>> /\ faults' = faults BY <1>1 DEF ControlKeeps
<1>6. /\ now' \in Stamps /\ shutdown' \in BOOLEAN /\ interrupted' \in BOOLEAN
      /\ book' = book /\ writer' = writer /\ data' = data /\ interrupted' = interrupted
      /\ Settled' = Settled
  BY <1>5, Still
<1>7. TrimInv' BY <1>0, <1>1, <1>2, <1>4, <1>6 DEF TrimInv, TrimSteps
<1>8. ASSUME ~interrupted PROVE ControlInv' /\ EndInv' /\ (Clean' => Clean)
  <2>1. ControlInv /\ EndInv BY <1>0, <1>8
  <2>2. ControlInv'
    BY <1>1, <1>2, <1>4, <1>6, <2>1 DEF ControlInv, TrimSteps, TailSteps, SealSteps, KeepSteps
  <2>3. EndInv' BY <1>1, <1>2, <1>4, <1>6, <2>1 DEF EndInv
  <2>4. Clean' => Clean BY <1>1, <1>2, <1>4, <1>6, <2>1 DEF Clean, ControlInv
  <2> QED BY <2>2, <2>3, <2>4
<1> QED BY <1>1, <1>2, <1>3, <1>4, <1>5, <1>6, <1>7, <1>8, Quiet

\* The tail of the motion is there: the sampler stops.
LEMMA TailReachedStep ==
  ASSUME Inv, TailReached
  PROVE  Inv'
<1>0. TypeOK /\ TrimInv /\ (~interrupted => ControlInv /\ EndInv) BY DEF Inv
<1>1. control.step = "tail" /\ Stops("FREEZING") /\ Goes("join") /\ ControlKeeps
  BY DEF TailReached
<1>2. "join" \in Steps /\ "FREEZING" \in Phases BY DEF Steps, Phases
<1>3. control' \in Controls /\ control'.step = "join" /\ control'.purpose = control.purpose
  BY <1>0, <1>1, <1>2, GoesFacts
<1>4. /\ rec' \in Recs /\ rec'.phase = "FREEZING" /\ ~rec'.recording
      /\ rec'.epoch = rec.epoch /\ rec'.cursor = rec.cursor
      /\ rec'.first = rec.first /\ rec'.tail = rec.tail
  BY <1>0, <1>1, <1>2, StopsFacts
<1>5. UNCHANGED <<book, threads, data, world>> /\ faults' = faults /\ faults \in 0..MaxFaults
  BY <1>0, <1>1, Types DEF ControlKeeps
<1>6. /\ now' \in Stamps /\ shutdown' \in BOOLEAN /\ interrupted' \in BOOLEAN
      /\ book' = book /\ writer' = writer /\ data' = data /\ interrupted' = interrupted
      /\ Settled' = Settled /\ Drained' = Drained
  BY <1>4, <1>5, Still
<1>7. TrimInv' BY <1>0, <1>1, <1>3, <1>4, <1>6 DEF TrimInv, TrimSteps
<1>8. ASSUME ~interrupted
      PROVE  ControlInv' /\ EndInv' /\ (Clean' => Clean) /\ rec.phase # "ABORTED"
  <2>1. ControlInv /\ EndInv /\ rec.phase = "FREEZING"
    BY <1>0, <1>1, <1>8 DEF ControlInv, TailSteps
  <2>2. ControlInv'
    BY <1>1, <1>3, <1>4, <1>6, <2>1 DEF ControlInv, TrimSteps, TailSteps, SealSteps, KeepSteps
  <2>3. EndInv' BY <1>1, <1>3, <1>4, <1>6, <2>1 DEF EndInv
  <2>4. Clean' => Clean BY <1>1, <1>3, <1>4, <1>6, <2>1 DEF Clean
  <2> QED BY <2>1, <2>2, <2>3, <2>4
<1> QED BY <1>1, <1>3, <1>4, <1>5, <1>6, <1>7, <1>8, Quiet

LEMMA TailLateStep ==
  ASSUME Inv, TailLate
  PROVE  Inv'
<1>0. TypeOK /\ TrimInv /\ (~interrupted => ControlInv /\ EndInv) BY DEF Inv
<1>1. control.step = "tail" /\ Goes("late") /\ ControlKeeps /\ rec' = rec
  BY DEF TailLate
<1>2. "late" \in Steps BY DEF Steps
<1>3. control'.step = "late" /\ control'.purpose = control.purpose
  BY <1>0, <1>1, <1>2, GoesFacts
<1>4. Settled' = Settled /\ data' = data /\ interrupted' = interrupted /\ writer' = writer
      /\ book' = book /\ Drained' = Drained
  BY <1>1, Still DEF ControlKeeps
<1>5. TrimInv' BY <1>0, <1>1, <1>3, <1>4 DEF TrimInv, TrimSteps
<1>6. ASSUME ~interrupted PROVE ControlInv' /\ EndInv' /\ (Clean' => Clean)
  <2>1. ControlInv /\ EndInv BY <1>0, <1>6
  <2>2. ControlInv'
    BY <1>1, <1>3, <1>4, <2>1 DEF ControlInv, TrimSteps, TailSteps, SealSteps, KeepSteps
  <2>3. EndInv' BY <1>1, <1>3, <1>4, <2>1 DEF EndInv
  <2>4. Clean' => Clean BY <1>1, <1>3, <1>4 DEF Clean
  <2> QED BY <2>2, <2>3, <2>4
<1> QED BY <1>1, <1>2, <1>5, <1>6, Onward

LEMMA TailTimesOutStep ==
  ASSUME Inv, TailTimesOut
  PROVE  Inv'
<1>1. faults \in 0..MaxFaults BY Types DEF Inv
<1> QED BY <1>1, Quarantined DEF TailTimesOut, ControlKeeps

\* A freeze that was interrupted: nothing is claimed of it but the prefix.
LEMMA TailInterruptedStep ==
  ASSUME Inv, TailInterrupted
  PROVE  Inv'
<1>0. TypeOK /\ TrimInv /\ (~interrupted => ControlInv /\ EndInv) BY DEF Inv
<1>1. /\ control.step = "tail" /\ interrupted' = TRUE /\ rec' = rec
      /\ UNCHANGED <<book, threads, data, now, shutdown, faults>>
      /\ Goes(IF control.purpose = "close" THEN "died" ELSE "refused")
  BY DEF TailInterrupted
<1>2. control' \in Controls /\ control'.step \in {"died", "refused"}
  <2>1. {"died", "refused"} \subseteq Steps BY DEF Steps
  <2> QED BY <1>0, <1>1, <2>1, GoesFacts
<1>3. rec.phase # "RECORDING"
  <2>1. CASE interrupted BY <1>0, <2>1 DEF TrimInv
  <2>2. CASE ~interrupted BY <1>0, <1>1, <2>2 DEF ControlInv, TailSteps
  <2> QED BY <2>1, <2>2
<1>4. TrimInv' BY <1>1, <1>2, <1>3 DEF TrimInv, TrimSteps
<1>5. rec \in Recs /\ now \in Stamps /\ shutdown \in BOOLEAN /\ faults \in 0..MaxFaults
  BY <1>0 DEF TypeOK, Recs
<1> QED BY <1>1, <1>2, <1>4, <1>5, Quiet

\* The second look at the tail: what was waited for is sealed.
LEMMA SealFreezeStep ==
  ASSUME Inv, SealFreeze
  PROVE  Inv'
<1>0. TypeOK /\ TrimInv /\ (~interrupted => ControlInv /\ EndInv) BY DEF Inv
<1>1. control.step = "seal" BY DEF SealFreeze
<1>2. CASE Raises
  <2>1. faults' \in 0..MaxFaults BY <1>0, <1>2, FailsFacts DEF Raises
  <2> QED BY <1>1, <1>2, <2>1, Quarantined DEF Raises
<1>3. CASE ~Raises
  <2> DEFINE step == CASE control.purpose = "freeze" -> "idle"
                       [] control.purpose = "retain" -> "retain"
                       [] OTHER -> "clear"
  <2>1. Drained /\ Becomes("FROZEN") /\ Goes(step) /\ ControlKeeps BY <1>3 DEF SealFreeze
  <2>2. step = IF control.purpose = "freeze" THEN "idle"
               ELSE IF control.purpose = "retain" THEN "retain" ELSE "clear"
    OBVIOUS
  <2> HIDE DEF step
  <2>3. step \in Steps /\ "FROZEN" \in Phases BY <2>2 DEF Steps, Phases
  <2>4. control' \in Controls /\ control'.step = step /\ control'.purpose = control.purpose
    BY <1>0, <2>1, <2>3, GoesFacts
  <2>5. /\ rec' \in Recs /\ rec'.phase = "FROZEN" /\ rec'.recording = rec.recording
        /\ rec'.epoch = rec.epoch /\ rec'.cursor = rec.cursor
        /\ rec'.first = rec.first /\ rec'.tail = rec.tail
    BY <1>0, <2>1, <2>3, BecomesFacts
  <2>6. UNCHANGED <<book, threads, data, world>> /\ faults' = faults /\ faults \in 0..MaxFaults
    BY <1>0, <2>1, Types DEF ControlKeeps
  <2>7. /\ now' \in Stamps /\ shutdown' \in BOOLEAN /\ interrupted' \in BOOLEAN
        /\ book' = book /\ writer' = writer /\ data' = data /\ interrupted' = interrupted
        /\ Settled' = Settled /\ Drained' = Drained
    BY <2>5, <2>6, Still
  <2>8. TrimInv' BY <2>2, <2>4, <2>5 DEF TrimInv, TrimSteps
  <2>9. ASSUME ~interrupted
        PROVE  ControlInv' /\ EndInv' /\ (Clean' => Clean) /\ rec.phase # "ABORTED"
    <3>1. ControlInv /\ EndInv /\ rec.phase = "FREEZING" /\ ~rec.recording
          /\ Settled /\ data.owed = {} /\ data.retained = <<>>
      BY <1>0, <1>1, <2>9 DEF ControlInv, EndInv, SealSteps
    <3>2. ControlInv'
      BY <2>2, <2>4, <2>5, <2>7, <3>1 DEF ControlInv, TrimSteps, TailSteps, SealSteps, KeepSteps
    <3>3. EndInv' BY <2>1, <2>2, <2>4, <2>5, <2>7, <3>1 DEF EndInv
    <3>4. Clean' => Clean BY <1>1, <2>4, <2>5, <2>7, <3>1 DEF Clean
    <3> QED BY <3>1, <3>2, <3>3, <3>4
  <2> QED BY <2>4, <2>5, <2>6, <2>7, <2>8, <2>9, Quiet
<1> QED BY <1>2, <1>3

\* Only an episode without a gap, a drop or a failure is committed.
LEMMA CommitStep ==
  ASSUME Inv, Commit
  PROVE  Inv'
<1>0. /\ TypeOK /\ TrimInv
      /\ ~interrupted => ControlInv /\ EndInv /\ GaplessInv
  BY DEF Inv
<1>1. /\ control.step = "idle" /\ rec.phase = "FROZEN" /\ MayPass /\ Goes("over")
      /\ UNCHANGED <<book, threads, data, world>>
  BY DEF Commit, Ready
<1>2. PICK phase \in {"COMMITTED", "QUARANTINED_COMMIT"} : Becomes(phase) BY DEF Commit
<1>3. faults' \in 0..MaxFaults
  <2>1. faults' = faults \/ Fails BY DEF Commit
  <2> QED BY <1>0, <2>1, FailsFacts
<1>4. "over" \in Steps /\ phase \in Phases BY DEF Steps, Phases
<1>5. control' \in Controls /\ control'.step = "over" /\ control'.purpose = control.purpose
  BY <1>0, <1>1, <1>4, GoesFacts
<1>6. /\ rec' \in Recs /\ rec'.phase = phase /\ rec'.recording = rec.recording
      /\ rec'.epoch = rec.epoch /\ rec'.cursor = rec.cursor
      /\ rec'.first = rec.first /\ rec'.tail = rec.tail
  BY <1>0, <1>2, <1>4, BecomesFacts
<1>7. /\ now' \in Stamps /\ shutdown' \in BOOLEAN /\ interrupted' \in BOOLEAN
      /\ book' = book /\ writer' = writer /\ data' = data /\ interrupted' = interrupted
      /\ Settled' = Settled /\ Drained' = Drained
  BY <1>1, <1>6, Still
<1>8. TrimInv' BY <1>2, <1>5, <1>6 DEF TrimInv, TrimSteps
<1>9. ~Clean' BY <1>2, <1>6 DEF Clean
<1>10. ASSUME ~interrupted PROVE ControlInv' /\ EndInv'
  <2>1. ControlInv /\ EndInv /\ ~rec.recording /\ Settled /\ data.owed = {} /\ Drained
        /\ data.retained = <<>>
    BY <1>0, <1>1, <1>10 DEF ControlInv, EndInv
  <2>2. Clean
    BY <1>1, <2>1 DEF Clean, MayPass, Settled, ControlInv
  <2>3. Follow(book.rows, rec.first) BY <1>0, <1>10, <2>2 DEF GaplessInv
  <2>4. ControlInv'
    BY <1>2, <1>5, <1>6, <1>7, <2>1 DEF ControlInv, TrimSteps, TailSteps, SealSteps, KeepSteps
  <2>5. EndInv' BY <1>2, <1>5, <1>6, <1>7, <2>1, <2>3 DEF EndInv
  <2> QED BY <2>4, <2>5
<1> QED BY <1>1, <1>2, <1>3, <1>5, <1>6, <1>7, <1>8, <1>9, <1>10, Quiet

\* An abort or a retention of an episode that is frozen.
LEMMA StartEndStep ==
  ASSUME Inv, StartEnd
  PROVE  Inv'
<1>0. TypeOK /\ TrimInv /\ (~interrupted => ControlInv /\ EndInv) BY DEF Inv
<1>1. control.step = "idle" /\ rec.phase = "FROZEN" /\ ControlKeeps /\ rec' = rec
  BY DEF StartEnd, Ready
<1>2. /\ control' \in Controls
      /\ \/ control'.step = "clear" /\ control'.purpose = "abort"
         \/ control'.step = "retain" /\ control'.purpose = "retain"
  BY DEF StartEnd, Controls, Steps, Purposes
<1>3. UNCHANGED <<book, threads, data, world>> /\ faults' = faults /\ faults \in 0..MaxFaults
      /\ rec \in Recs
  BY <1>0, <1>1, Types DEF ControlKeeps
<1>4. /\ now' \in Stamps /\ shutdown' \in BOOLEAN /\ interrupted' \in BOOLEAN
      /\ book' = book /\ writer' = writer /\ data' = data /\ interrupted' = interrupted
      /\ Settled' = Settled /\ Drained' = Drained
  BY <1>1, <1>3, Still
<1>5. TrimInv' BY <1>1, <1>2 DEF TrimInv, TrimSteps
<1>6. ~Clean' BY <1>2 DEF Clean
<1>7. ASSUME ~interrupted PROVE ControlInv' /\ EndInv'
  <2>1. ControlInv /\ EndInv BY <1>0, <1>7
  <2>2. ControlInv'
    BY <1>1, <1>2, <1>4, <2>1 DEF ControlInv, TrimSteps, TailSteps, SealSteps, KeepSteps
  <2>3. EndInv' BY <1>1, <1>2, <1>4, <2>1 DEF EndInv
  <2> QED BY <2>2, <2>3
<1> QED BY <1>1, <1>2, <1>3, <1>4, <1>5, <1>6, <1>7, Quiet

\* Only what has settled is retained.
LEMMA BeginRetainStep ==
  ASSUME Inv, BeginRetain
  PROVE  Inv'
<1>0. TypeOK /\ TrimInv /\ (~interrupted => ControlInv /\ EndInv) BY DEF Inv
<1>1. control.step = "retain" /\ ControlKeeps BY DEF BeginRetain
<1>2. UNCHANGED <<book, threads, data, world>> /\ faults' = faults /\ faults \in 0..MaxFaults
      /\ rec \in Recs
  BY <1>0, <1>1, Types DEF ControlKeeps
<1>3. CASE Settled /\ ~rec.recording
  <2>1. Becomes("QUARANTINED_COMMIT")
        /\ control' = [step |-> "retainDrain",
                       purpose |-> IF rec.phase = "FROZEN" THEN "release" ELSE "keep"]
    BY <1>3 DEF BeginRetain
  <2>2. control' \in Controls /\ control'.step = "retainDrain"
        /\ control'.purpose \in {"release", "keep"}
    BY <2>1 DEF Controls, Steps, Purposes
  <2>3. /\ rec' \in Recs /\ rec'.phase = "QUARANTINED_COMMIT" /\ rec'.recording = rec.recording
        /\ rec'.epoch = rec.epoch /\ rec'.cursor = rec.cursor
        /\ rec'.first = rec.first /\ rec'.tail = rec.tail
    BY <1>0, <2>1, StepNames, BecomesFacts
  <2>4. /\ now' \in Stamps /\ shutdown' \in BOOLEAN /\ interrupted' \in BOOLEAN
        /\ book' = book /\ writer' = writer /\ data' = data /\ interrupted' = interrupted
        /\ Settled' = Settled /\ Drained' = Drained
    BY <1>2, <2>3, Still
  <2>5. TrimInv' BY <2>2, <2>3 DEF TrimInv, TrimSteps
  <2>6. ~Clean' BY <2>3 DEF Clean
  <2>7. ASSUME ~interrupted PROVE ControlInv' /\ EndInv' /\ rec.phase # "ABORTED"
    <3>1. ControlInv /\ EndInv BY <1>0, <2>7
    <3>2. data.retained = <<>> /\ rec.phase # "ABORTED" BY <1>1, <3>1 DEF EndInv, ControlInv
    <3>3. ControlInv'
      BY <1>3, <2>2, <2>3, <2>4, <3>1 DEF ControlInv, TrimSteps, TailSteps, SealSteps, KeepSteps
    <3>4. EndInv' BY <2>2, <2>3, <2>4, <3>2 DEF EndInv
    <3> QED BY <3>2, <3>3, <3>4
  <2> QED BY <1>2, <2>2, <2>3, <2>4, <2>5, <2>6, <2>7, Quiet
<1>4. CASE ~(Settled /\ ~rec.recording)
  <2>1. rec' = rec /\ Goes("over") BY <1>4 DEF BeginRetain
  <2>2. "over" \in Steps BY DEF Steps
  <2>3. control'.step = "over" /\ control'.purpose = control.purpose
    BY <1>0, <2>1, <2>2, GoesFacts
  <2>4. Settled' = Settled /\ data' = data /\ interrupted' = interrupted /\ writer' = writer
        /\ book' = book /\ Drained' = Drained
    BY <1>1, <2>1, Still DEF ControlKeeps
  <2>5. TrimInv' BY <1>0, <1>1, <2>1, <2>3, <2>4 DEF TrimInv, TrimSteps
  <2>6. ASSUME ~interrupted PROVE ControlInv' /\ EndInv' /\ (Clean' => Clean)
    <3>1. ControlInv /\ EndInv BY <1>0, <2>6
    <3>2. rec.phase = "QUARANTINED_COMMIT" BY <1>1, <1>4, <3>1 DEF ControlInv, EndInv
    <3>3. ControlInv'
      BY <1>1, <2>1, <2>3, <2>4, <3>1, <3>2 DEF ControlInv, TrimSteps, TailSteps, SealSteps, KeepSteps
    <3>4. EndInv' BY <1>1, <2>1, <2>3, <2>4, <3>1, <3>2 DEF EndInv
    <3>5. ~Clean' BY <2>1, <3>2 DEF Clean
    <3> QED BY <3>3, <3>4, <3>5
  <2> QED BY <1>1, <2>1, <2>2, <2>5, <2>6, Onward
<1> QED BY <1>3, <1>4

\* close takes up an episode that is frozen, or a freeze that was interrupted.
LEMMA StartCloseStep ==
  ASSUME Inv, StartClose
  PROVE  Inv'
<1>0. TypeOK /\ TrimInv /\ (~interrupted => ControlInv /\ EndInv) BY DEF Inv
<1>1. /\ control.step \in {"idle", "refused"} /\ rec.phase \in {"FREEZING", "FROZEN"}
      /\ ControlKeeps /\ rec' = rec
  BY DEF StartClose
<1>2. /\ control' \in Controls /\ control'.purpose = "close"
      /\ control'.step = IF rec.phase = "FREEZING" THEN "closeJoin" ELSE "clear"
  BY DEF StartClose, Controls, Steps, Purposes
<1>3. UNCHANGED <<book, threads, data, world>> /\ faults' = faults /\ faults \in 0..MaxFaults
      /\ rec \in Recs
  BY <1>0, <1>1, Types DEF ControlKeeps
<1>4. /\ now' \in Stamps /\ shutdown' \in BOOLEAN /\ interrupted' \in BOOLEAN
      /\ book' = book /\ writer' = writer /\ data' = data /\ interrupted' = interrupted
      /\ Settled' = Settled /\ Drained' = Drained
  BY <1>1, <1>3, Still
<1>5. TrimInv' BY <1>0, <1>1, <1>2, <1>4 DEF TrimInv, TrimSteps
<1>6. ~Clean' BY <1>2 DEF Clean
<1>7. ASSUME ~interrupted PROVE ControlInv' /\ EndInv'
  <2>1. ControlInv /\ EndInv BY <1>0, <1>7
  <2>2. ControlInv'
    BY <1>1, <1>2, <1>4, <2>1 DEF ControlInv, TrimSteps, TailSteps, SealSteps, KeepSteps
  <2>3. EndInv' BY <1>1, <1>2, <1>4, <2>1 DEF EndInv
  <2> QED BY <2>2, <2>3
<1> QED BY <1>1, <1>2, <1>3, <1>4, <1>5, <1>6, <1>7, Quiet

LEMMA SealCloseStep ==
  ASSUME Inv, SealClose
  PROVE  Inv'
<1>0. TypeOK /\ TrimInv /\ (~interrupted => ControlInv) BY DEF Inv
<1>1. control.step = "close" /\ Becomes("FROZEN") /\ Goes("clear") /\ ControlKeeps
  BY DEF SealClose
<1>2. interrupted BY <1>0, <1>1 DEF ControlInv
<1>3. control' \in Controls /\ control'.step = "clear" BY <1>0, <1>1, StepNames, GoesFacts
<1>4. /\ rec' \in Recs /\ rec'.phase = "FROZEN"
      /\ rec'.epoch = rec.epoch /\ rec'.cursor = rec.cursor /\ rec'.first = rec.first
  BY <1>0, <1>1, StepNames, BecomesFacts
<1>5. UNCHANGED <<book, threads, data, world>> /\ faults' = faults /\ faults \in 0..MaxFaults
  BY <1>0, <1>1, Types DEF ControlKeeps
<1>6. TrimInv' BY <1>3, <1>4 DEF TrimInv, TrimSteps
<1> QED BY <1>2, <1>3, <1>4, <1>5, <1>6, Still, Quiet

LEMMA FindDiskLowStep ==
  ASSUME Inv, FindDiskLow
  PROVE  Inv'
<1>0. /\ TypeOK /\ TrimInv /\ PrefixInv
      /\ ~interrupted => ControlInv /\ BufferInv /\ GaplessInv /\ EndInv
  BY DEF Inv
<1>1. /\ control.step = "idle" /\ book' = [book EXCEPT !.error = TRUE] /\ Fails
      /\ rec' = rec /\ sampler' = sampler /\ queue' = queue /\ writer' = writer /\ data' = data
      /\ control' = control /\ now' = now /\ shutdown' = shutdown /\ interrupted' = interrupted
  BY DEF FindDiskLow
<1>2. book \in Books /\ faults' \in 0..MaxFaults BY <1>0, <1>1, Types, FailsFacts
<1>3. book' \in Books /\ book'.rows = book.rows /\ book'.error BY <1>1, <1>2 DEF Books
<1>4. TypeOK' BY <1>0, <1>1, <1>2, <1>3 DEF TypeOK, Books
<1>5. Settled' = Settled /\ Drained' = Drained /\ InHand' = InHand /\ Current' = Current
  BY <1>1, <1>3 DEF Settled, Drained, InHand, Current
<1>6. ~Clean' BY <1>3 DEF Clean
<1>7. TrimInv' BY <1>0, <1>1, <1>5 DEF TrimInv
<1>8. PrefixInv' BY <1>0, <1>1, <1>3, <1>5 DEF PrefixInv
<1>9. ASSUME ~interrupted PROVE ControlInv' BY <1>0, <1>1, <1>5, <1>9 DEF ControlInv
<1>10. ASSUME ~interrupted PROVE BufferInv' BY <1>0, <1>1, <1>3, <1>10 DEF BufferInv
<1>11. ASSUME ~interrupted PROVE EndInv' BY <1>0, <1>1, <1>3, <1>5, <1>11 DEF EndInv
<1> QED BY <1>1, <1>4, <1>6, <1>7, <1>8, <1>9, <1>10, <1>11 DEF Inv, GaplessInv

\* The clock and the signal touch no row and no step.
LEMMA TickStep ==
  ASSUME Inv, Tick \/ Shutdown
  PROVE  Inv'
<1>0. /\ TypeOK /\ TrimInv /\ PrefixInv
      /\ ~interrupted => ControlInv /\ BufferInv /\ GaplessInv /\ EndInv
  BY DEF Inv
<1>1. /\ rec' = rec /\ book' = book /\ sampler' = sampler /\ queue' = queue /\ writer' = writer
      /\ data' = data /\ control' = control /\ interrupted' = interrupted
  BY DEF Tick, Shutdown
<1>2. now \in Stamps /\ LastStamp \in Nat /\ faults' \in 0..MaxFaults
  <2>1. faults' = faults \/ Fails BY DEF Tick, Shutdown
  <2> QED BY <1>0, <2>1, Types, FailsFacts
<1>3. now' \in Stamps
  <2>1. now' = now \/ (now' = now + 1 /\ now < LastStamp) BY DEF Tick, Shutdown
  <2> QED BY <1>2, <2>1 DEF Stamps
<1>4. shutdown' \in BOOLEAN BY <1>0 DEF Tick, Shutdown, TypeOK
<1>5. TypeOK' BY <1>0, <1>1, <1>2, <1>3, <1>4 DEF TypeOK
<1>6. Settled' = Settled /\ Drained' = Drained /\ InHand' = InHand /\ Current' = Current
      /\ NextQueued' = NextQueued /\ NextSampled' = NextSampled /\ Clean' = Clean
  BY <1>1 DEF Settled, Drained, InHand, Current, NextQueued, NextSampled, Clean
<1>7. TrimInv' BY <1>0, <1>1, <1>6 DEF TrimInv
<1>8. PrefixInv' BY <1>0, <1>1, <1>6 DEF PrefixInv
<1>9. ASSUME ~interrupted PROVE ControlInv' /\ BufferInv'
  BY <1>0, <1>1, <1>6, <1>9 DEF ControlInv, BufferInv
<1>10. ASSUME ~interrupted PROVE GaplessInv' BY <1>0, <1>1, <1>6, <1>10 DEF GaplessInv
<1>11. ASSUME ~interrupted PROVE EndInv' BY <1>0, <1>1, <1>6, <1>11 DEF EndInv
<1> QED BY <1>1, <1>5, <1>7, <1>8, <1>9, <1>10, <1>11 DEF Inv

\* The buffer and its images go, once nothing will come after them.
LEMMA Emptied ==
  ASSUME Inv, data' = [data EXCEPT !.buffer = <<>>, !.staged = {}],
         Becomes("ABORTED"), Goes("over"), UNCHANGED <<book, threads, world, faults>>,
         ~interrupted => /\ Settled /\ data.owed = {} /\ ~rec.recording
                         /\ data.retained # <<>> => data.retained = book.rows
  PROVE  Inv'
<1>0. /\ TypeOK /\ TrimInv /\ PrefixInv
      /\ ~interrupted => ControlInv /\ BufferInv /\ GaplessInv /\ EndInv
  BY DEF Inv
<1>1. data \in Datas /\ rec.first \in Int BY <1>0, Types
<1>2. /\ data' \in Datas /\ data'.buffer = <<>> /\ data'.staged = {} /\ data'.owed = data.owed
      /\ data'.retained = data.retained
  BY <1>1, EmptyFacts DEF Datas
<1>3. control' \in Controls /\ control'.step = "over" BY <1>0, StepNames, GoesFacts
<1>4. /\ rec' \in Recs /\ rec'.phase = "ABORTED" /\ rec'.recording = rec.recording
      /\ rec'.epoch = rec.epoch /\ rec'.cursor = rec.cursor
      /\ rec'.first = rec.first /\ rec'.tail = rec.tail
  BY <1>0, StepNames, BecomesFacts
<1>5. /\ book' = book /\ sampler' = sampler /\ queue' = queue /\ writer' = writer
      /\ now' = now /\ shutdown' = shutdown /\ interrupted' = interrupted /\ faults' = faults
  OBVIOUS
<1>6. TypeOK' BY <1>0, <1>2, <1>3, <1>4, <1>5 DEF TypeOK, Recs, Datas, Controls
<1>7. TrimInv' BY <1>3, <1>4 DEF TrimInv, TrimSteps
<1>8. NoneBefore(<<>>, rec.first) BY <1>1, EmptyFacts
<1>9. PrefixInv' BY <1>0, <1>2, <1>4, <1>5, <1>8 DEF PrefixInv, InHand, Current
<1>10. Settled' = Settled BY <1>5 DEF Settled
<1>11. ASSUME ~interrupted PROVE ControlInv'
  BY <1>2, <1>3, <1>4, <1>10, <1>11 DEF ControlInv, TrimSteps, TailSteps, SealSteps, KeepSteps
<1>12. ASSUME ~interrupted PROVE BufferInv'
  BY <1>2, <1>4, <1>12, EmptyFacts DEF BufferInv
<1>13. ASSUME ~interrupted PROVE EndInv' BY <1>2, <1>3, <1>4, <1>5, <1>10, <1>13 DEF EndInv
<1>14. ~Clean' BY <1>4 DEF Clean
<1> QED BY <1>5, <1>6, <1>7, <1>9, <1>11, <1>12, <1>13, <1>14 DEF Inv, GaplessInv

LEMMA ClearBufferStep ==
  ASSUME Inv, ClearBuffer
  PROVE  Inv'
<1>0. TypeOK /\ (~interrupted => ControlInv /\ EndInv) BY DEF Inv
<1>1. control.step = "clear" BY DEF ClearBuffer
<1>2. CASE Raises
  <2>1. faults' \in 0..MaxFaults BY <1>0, <1>2, FailsFacts DEF Raises
  <2> QED BY <1>1, <1>2, <2>1, Quarantined DEF Raises
<1>3. CASE ~Raises
  <2>1. ASSUME ~interrupted
        PROVE  Settled /\ data.owed = {} /\ ~rec.recording /\ data.retained = <<>>
    <3>1. ControlInv /\ EndInv BY <1>0, <2>1
    <3> QED BY <1>1, <3>1 DEF ControlInv, EndInv
  <2> QED BY <1>3, <2>1, Emptied DEF ClearBuffer
<1> QED BY <1>2, <1>3

\* What is copied are the rows counted, all of them.
LEMMA CopyRowsStep ==
  ASSUME Inv, CopyRows
  PROVE  Inv'
<1> DEFINE n == IF Len(book.rows) < Len(data.buffer) THEN Len(book.rows) ELSE Len(data.buffer)
           whole == n > 0 /\ n = Len(book.rows) /\ n = Len(data.buffer)
<1>0. /\ TypeOK /\ TrimInv /\ PrefixInv
      /\ ~interrupted => ControlInv /\ BufferInv /\ GaplessInv /\ EndInv
  BY DEF Inv
<1>1. /\ control.step = "copy"
      /\ rec' = rec /\ book' = book /\ sampler' = sampler /\ queue' = queue /\ writer' = writer
      /\ now' = now /\ shutdown' = shutdown /\ interrupted' = interrupted
      /\ \/ /\ data' = [data EXCEPT !.retained = SubSeq(data.buffer, 1, n)]
            /\ Goes(IF control.purpose = "release" /\ whole THEN "release" ELSE "over")
            /\ faults' = faults
         \/ Fails /\ Goes("over") /\ data' = data
  BY DEF CopyRows
<1>2. /\ data \in Datas /\ data.buffer \in Seq(Stamps) /\ Len(book.rows) \in Nat
      /\ book.rows \in Seq(Stamps)
  BY <1>0, Types
<1>3. Len(data.buffer) \in Nat BY <1>2, LenProperties
<1>4. faults' \in 0..MaxFaults
  <2>1. faults' = faults \/ Fails BY <1>1
  <2> QED BY <1>0, <2>1, FailsFacts
<1>5. control' \in Controls /\ control'.step \in {"release", "over"}
      /\ (control'.step = "release" => data' = [data EXCEPT !.retained = SubSeq(data.buffer, 1, n)])
  <2>1. {"release", "over"} \subseteq Steps BY StepNames
  <2>2. ASSUME Goes("over") PROVE control' \in Controls /\ control'.step = "over"
    BY <1>0, <2>1, <2>2, GoesFacts
  <2>3. ASSUME Goes("release") PROVE control' \in Controls /\ control'.step = "release"
    BY <1>0, <2>1, <2>3, GoesFacts
  <2> HIDE DEF n, whole
  <2> QED BY <1>1, <2>2, <2>3
<1>6. SubSeq(data.buffer, 1, n) \in Seq(Stamps)
  <2>1. n \in 0..Len(data.buffer) BY <1>2, <1>3
  <2> HIDE DEF n
  <2>2. \A i \in 1..n : i \in 1..Len(data.buffer) BY <1>3, <2>1
  <2>3. \A i \in 1..n : data.buffer[i] \in Stamps BY <1>2, <2>2, ElementOfSeq
  <2> QED BY <1>2, <1>3, <2>1, <2>3, SubSeqProperties
<1>7. /\ data' \in Datas /\ data'.buffer = data.buffer /\ data'.owed = data.owed
      /\ data'.staged = data.staged
      /\ data'.retained \in {data.retained, SubSeq(data.buffer, 1, n)}
      /\ control'.step = "release" => data'.retained = SubSeq(data.buffer, 1, n)
  <2> DEFINE copy == SubSeq(data.buffer, 1, n)
  <2>1. copy \in Seq(Stamps) BY <1>6
  <2>2. data' = [data EXCEPT !.retained = copy] \/ data' = data BY <1>1
  <2>3. control'.step = "release" => data' = [data EXCEPT !.retained = copy] BY <1>5
  <2> HIDE DEF copy
  <2>4. /\ data' \in Datas /\ data'.buffer = data.buffer /\ data'.owed = data.owed
        /\ data'.staged = data.staged /\ data'.retained \in {data.retained, copy}
        /\ control'.step = "release" => data'.retained = copy
    BY <1>2, <2>1, <2>2, <2>3 DEF Datas
  <2> QED BY <2>4 DEF copy
<1> HIDE DEF n, whole
<1>8. TypeOK' BY <1>0, <1>1, <1>4, <1>5, <1>7 DEF TypeOK, Datas, Controls
<1>9. TrimInv' BY <1>0, <1>1, <1>5 DEF TrimInv, TrimSteps
<1>10. PrefixInv' BY <1>0, <1>1, <1>7 DEF PrefixInv, InHand, Current
<1>11. Settled' = Settled BY <1>1 DEF Settled
<1>12. ASSUME ~interrupted
       PROVE  /\ rec.phase = "QUARANTINED_COMMIT" /\ Settled /\ data.owed = {}
              /\ data.retained = <<>> /\ SubSeq(data.buffer, 1, n) = book.rows
  <2>1. ControlInv /\ EndInv /\ BufferInv BY <1>0, <1>12
  <2>2. rec.phase = "QUARANTINED_COMMIT" /\ Settled /\ data.owed = {}
    BY <1>1, <2>1 DEF ControlInv, KeepSteps
  <2>3. data.retained = <<>> BY <1>1, <2>1 DEF EndInv
  <2>4. data.buffer = book.rows BY <2>1, <2>2 DEF BufferInv, Settled
  <2>5. n = Len(book.rows) BY <1>2, <2>4 DEF n
  <2>6. SubSeq(book.rows, 1, Len(book.rows)) = book.rows BY <1>2, SubSeqFull
  <2> QED BY <2>2, <2>3, <2>4, <2>5, <2>6
<1>13. ASSUME ~interrupted PROVE ControlInv'
  BY <1>1, <1>5, <1>7, <1>11, <1>12, <1>13, <1>0
  DEF ControlInv, TrimSteps, TailSteps, SealSteps, KeepSteps
<1>14. ASSUME ~interrupted PROVE BufferInv' BY <1>0, <1>1, <1>7, <1>14 DEF BufferInv
<1>15. ASSUME ~interrupted PROVE EndInv'
  BY <1>1, <1>5, <1>7, <1>11, <1>12, <1>15 DEF EndInv
<1>16. ASSUME ~interrupted PROVE ~Clean' BY <1>1, <1>12, <1>16 DEF Clean
<1> QED BY <1>1, <1>8, <1>9, <1>10, <1>13, <1>14, <1>15, <1>16 DEF Inv, GaplessInv

LEMMA ReleaseRowsStep ==
  ASSUME Inv, ReleaseRows
  PROVE  Inv'
<1>0. TypeOK /\ TrimInv /\ (~interrupted => ControlInv /\ EndInv) BY DEF Inv
<1>1. control.step = "release" /\ Goes("over") /\ UNCHANGED <<book, threads, world>>
  BY DEF ReleaseRows
<1>2. ASSUME ~interrupted
      PROVE  /\ ControlInv /\ EndInv /\ rec.phase = "QUARANTINED_COMMIT" /\ Settled
             /\ data.owed = {} /\ ~rec.recording /\ data.retained = book.rows
  <2>1. ControlInv /\ EndInv BY <1>0, <1>2
  <2> QED BY <1>1, <2>1 DEF ControlInv, EndInv, KeepSteps
<1>3. CASE data' = [data EXCEPT !.buffer = <<>>, !.staged = {}] /\ Becomes("ABORTED")
           /\ faults' = faults
  BY <1>1, <1>2, <1>3, Emptied
<1>4. CASE Fails /\ rec' = rec /\ data' = data
  <2>1. faults' \in 0..MaxFaults /\ rec \in Recs BY <1>0, <1>4, FailsFacts, Types
  <2>2. control' \in Controls /\ control'.step = "over" BY <1>0, <1>1, StepNames, GoesFacts
  <2>3. /\ now' \in Stamps /\ shutdown' \in BOOLEAN /\ interrupted' \in BOOLEAN
        /\ book' = book /\ writer' = writer /\ data' = data /\ interrupted' = interrupted
        /\ Settled' = Settled /\ Drained' = Drained
    BY <1>1, <1>4, Still
  <2>4. TrimInv' BY <1>0, <1>4, <2>2, <2>3 DEF TrimInv, TrimSteps
  <2>5. ASSUME ~interrupted PROVE ControlInv' /\ EndInv' /\ ~Clean'
    <3>1. ControlInv'
      BY <1>1, <1>2, <1>4, <2>2, <2>3, <2>5
      DEF ControlInv, TrimSteps, TailSteps, SealSteps, KeepSteps
    <3>2. EndInv' BY <1>2, <1>4, <2>2, <2>3, <2>5 DEF EndInv
    <3>3. ~Clean' BY <1>2, <1>4, <2>5 DEF Clean
    <3> QED BY <3>1, <3>2, <3>3
  <2> QED BY <1>1, <1>4, <2>1, <2>2, <2>3, <2>4, <2>5, Quiet
<1> QED BY <1>3, <1>4 DEF ReleaseRows

\* The prefix is thrown away once nothing of it is left in the threads, and what
\* the sampler still has of it is of an epoch gone by.
LEMMA TrimAcceptedStep ==
  ASSUME Inv, TrimAccepted
  PROVE  Inv'
<1>0. /\ TypeOK /\ TrimInv /\ PrefixInv
      /\ ~interrupted => ControlInv /\ BufferInv /\ GaplessInv /\ EndInv
  BY DEF Inv
<1>1. /\ control.step = "trim" /\ book' = NoRows
      /\ data' = [data EXCEPT !.buffer = <<>>, !.staged = {}]
      /\ sampler' = sampler /\ queue' = queue /\ writer' = writer
      /\ now' = now /\ shutdown' = shutdown /\ interrupted' = interrupted
  BY DEF TrimAccepted, Reset
<1>2. rec.phase = "RECORDING" /\ ~interrupted /\ rec.epoch <= MaxTrims /\ Settled
      /\ data.owed = {}
  BY <1>0, <1>1 DEF TrimInv, TrimSteps
<1>3. control.purpose = "freeze" BY <1>0, <1>1, <1>2 DEF ControlInv, TrimSteps
<1>4. data.retained = <<>> BY <1>0, <1>1, <1>2 DEF EndInv
<1>5. /\ data \in Datas /\ rec \in Recs /\ now \in Stamps /\ Stamps \subseteq Nat
      /\ LastStamp \in Nat /\ MaxTrims \in Nat /\ rec.epoch \in 1..MaxTrims + 1
      /\ sampler.epoch \in Int /\ sampler.epoch <= rec.epoch
  BY <1>0, Types
<1>6. faults' \in 0..MaxFaults
  <2>1. faults' = faults \/ Fails BY DEF TrimAccepted
  <2> QED BY <1>0, <2>1, FailsFacts
<1>7. PICK recording \in BOOLEAN :
         /\ Reset(recording)
         /\ Goes(IF recording THEN "idle" ELSE "over")
  <2>1. CASE Reset(TRUE) /\ Goes("idle") BY <2>1
  <2>2. CASE Reset(FALSE) /\ Goes("over") BY <2>2
  <2> QED BY <2>1, <2>2 DEF TrimAccepted
<1>8. control' \in Controls /\ control'.purpose = "freeze"
      /\ control'.step = IF recording THEN "idle" ELSE "over"
  <2>1. (IF recording THEN "idle" ELSE "over") \in Steps BY DEF Steps
  <2> QED BY <1>0, <1>3, <1>7, <2>1, GoesFacts
<1>9. /\ rec' \in Recs /\ rec'.recording = recording /\ rec'.cursor = now /\ rec'.first = now
      /\ rec'.epoch = rec.epoch + 1
      /\ rec'.phase = IF recording THEN "RECORDING" ELSE "QUARANTINED_COMMIT"
  <2> DEFINE phase == IF recording THEN "RECORDING" ELSE "QUARANTINED_COMMIT"
  <2>1. rec' = [rec EXCEPT !.recording = recording, !.cursor = now, !.first = now, !.tail = 0,
                           !.epoch = rec.epoch + 1, !.phase = phase]
    BY <1>2, <1>7 DEF Reset
  <2>2. phase \in Phases BY DEF Phases
  <2>3. rec.epoch + 1 \in 1..MaxTrims + 1 /\ now \in 0..LastStamp + 1 /\ 0 \in Stamps
    BY <1>2, <1>5 DEF Stamps
  <2> HIDE DEF phase
  <2>4. /\ rec' \in Recs /\ rec'.recording = recording /\ rec'.cursor = now /\ rec'.first = now
        /\ rec'.epoch = rec.epoch + 1 /\ rec'.phase = phase
    BY <1>5, <2>1, <2>2, <2>3 DEF Recs
  <2> QED BY <2>4 DEF phase
<1>10. /\ book' \in Books /\ book'.rows = <<>> /\ Len(book'.rows) = 0
  BY <1>1, EmptyFacts DEF NoRows, Books
<1>11. /\ data' \in Datas /\ data'.buffer = <<>> /\ data'.staged = {} /\ data'.owed = {}
       /\ data'.retained = <<>>
  BY <1>1, <1>2, <1>4, <1>5, EmptyFacts DEF Datas
<1>12. /\ queue = <<>> /\ writer.step = "idle" /\ Settled' /\ ~InHand' /\ ~Current'
       /\ Len(queue) = 0
  <2>1. queue = <<>> /\ writer.step = "idle" BY <1>2 DEF Settled
  <2>2. Settled' /\ ~InHand' BY <1>1, <2>1 DEF Settled, InHand
  <2>3. ~Current' BY <1>1, <1>5, <1>9 DEF Current
  <2> QED BY <2>1, <2>2, <2>3, EmptyFacts
<1>13. TypeOK'
  <2>1. Cardinality(data'.owed) <= QueueSize BY <1>0, <1>11, OwedFacts
  <2>2. sampler \in [batch : Seq(Stamps), epoch : 1..rec'.epoch,
                     step : {"look", "missed", "put", "dead"}]
    <3>1. \A e \in 1..rec.epoch : e \in 1..rec.epoch + 1 BY <1>5
    <3> QED BY <1>0, <1>9, <3>1 DEF TypeOK
  <2> QED BY <1>0, <1>1, <1>6, <1>8, <1>9, <1>10, <1>11, <2>1, <2>2
      DEF TypeOK, Recs, Books, Datas, Controls
<1>14. TrimInv' BY <1>1, <1>2, <1>8, <1>9 DEF TrimInv, TrimSteps
<1>15. NoneBefore(<<>>, now) /\ Follow(<<>>, now) BY <1>5, EmptyFacts
<1>16. PrefixInv'
  BY <1>0, <1>1, <1>5, <1>9, <1>10, <1>11, <1>12, <1>15 DEF PrefixInv
<1>17. ControlInv'
  BY <1>8, <1>9, <1>11, <1>12 DEF ControlInv, TrimSteps, TailSteps, SealSteps, KeepSteps
<1>18. BufferInv'
  BY <1>1, <1>10, <1>11, <1>12, EmptyFacts DEF BufferInv
<1>19. GaplessInv'
  <2>1. NextQueued' = now /\ NextSampled' = now
    <3>1. NextQueued' = now BY <1>5, <1>9, <1>10, <1>12 DEF NextQueued
    <3> QED BY <1>1, <1>5, <1>12, <3>1 DEF NextSampled
  <2> QED BY <1>1, <1>5, <1>9, <1>10, <1>12, <1>15, <2>1 DEF GaplessInv
<1>20. EndInv' BY <1>8, <1>9, <1>11 DEF EndInv
<1> QED BY <1>13, <1>14, <1>16, <1>17, <1>18, <1>19, <1>20 DEF Inv

-----------------------------------------------------------------------------
(* The theorems *)

LEMMA InitInv == Init => Inv
<1> SUFFICES ASSUME Init PROVE Inv OBVIOUS
<1> USE DEF Init
<1>1. LastStamp \in Nat /\ 0 \in Stamps /\ MaxTrims \in Nat /\ MaxFaults \in Nat
      /\ QueueSize \in Nat /\ Fps \in Nat
  BY PipelineAssumption DEF LastStamp, Stamps
<1>2. Cardinality({}) = 0 BY FS_EmptySet
<1>3. TypeOK
  <2>1. rec \in Recs BY <1>1 DEF Recs, Phases
  <2>2. book \in Books /\ data \in Datas /\ writer \in Writers
    BY <1>1, EmptyFacts DEF Books, Datas, Writers, NoRows
  <2>3. control \in Controls BY DEF Controls, Steps, Purposes
  <2>4. sampler \in [batch : Seq(Stamps), epoch : 1..rec.epoch,
                     step : {"look", "missed", "put", "dead"}]
    BY EmptyFacts
  <2>5. now = 0 /\ queue = <<>> /\ sampler.batch = <<>> /\ data.owed = {} /\ faults = 0
        /\ shutdown \in BOOLEAN /\ interrupted \in BOOLEAN
    OBVIOUS
  <2> HIDE DEF Init
  <2>6. Len(sampler.batch) <= Fps /\ queue \in Seq(Stamps) /\ Len(queue) <= QueueSize
    BY <1>1, <2>5, EmptyFacts
  <2> QED BY <1>1, <1>2, <2>1, <2>2, <2>3, <2>4, <2>5, <2>6
      DEF TypeOK, Recs, Books, Datas, Writers, Controls
<1>4. TrimInv BY DEF TrimInv, TrimSteps
<1>5. ~InHand /\ Settled /\ book.rows = <<>> BY DEF InHand, Settled, NoRows
<1>6. NoneBefore(<<>>, 0) /\ Follow(<<>>, 0) /\ Len(<<>>) = 0 /\ Range(<<>>) = {} BY EmptyFacts
<1>7. PrefixInv BY <1>5, <1>6 DEF PrefixInv
<1>8. ControlInv BY DEF ControlInv, TrimSteps, TailSteps, SealSteps, KeepSteps
<1>9. BufferInv BY <1>5, <1>6 DEF BufferInv
<1>10. NextQueued = 0 /\ NextSampled = 0 BY <1>5, <1>6 DEF NextQueued, NextSampled
<1>11. GaplessInv BY <1>5, <1>6, <1>10 DEF GaplessInv
<1>12. EndInv BY DEF EndInv
<1> QED BY <1>3, <1>4, <1>7, <1>8, <1>9, <1>11, <1>12 DEF Inv

LEMMA NextInv == Inv /\ [Next]_vars => Inv'
<1> SUFFICES ASSUME Inv, [Next]_vars PROVE Inv' OBVIOUS
<1>1. CASE SamplerStep \/ SamplerDies
  BY <1>1, SampleTargetsStep, AlignTargetStep, CountMissedStep, PutRowStep, SamplerDiesStep
  DEF SamplerStep
<1>2. CASE WriterStep \/ WriteImages
  BY <1>2, TakeRowStep, CheckRowStep, AddRowStep, CountRowStep, RowFailsStep, WriteImagesStep
  DEF WriterStep
<1>3. CASE ControlStep
  BY <1>3, JoinStep, JoinCloseStep, DrainStep, TrimAcceptedStep, TrimRefusedStep,
     TailReachedStep, TailLateStep, TailTimesOutStep, TailInterruptedStep, SealFreezeStep,
     ClearBufferStep, BeginRetainStep, CopyRowsStep, ReleaseRowsStep, SealCloseStep,
     StartCloseStep
  DEF ControlStep
<1>4. CASE Command
  BY <1>4, StartTrimStep, CommitStep, StartEndStep, FindDiskLowStep, StartFreezeStep DEF Command
<1>5. CASE Tick \/ Shutdown BY <1>5, TickStep
<1>6. CASE UNCHANGED vars
  <2>1. /\ rec' = rec /\ book' = book /\ sampler' = sampler /\ queue' = queue
        /\ writer' = writer /\ data' = data /\ control' = control /\ now' = now
        /\ shutdown' = shutdown /\ interrupted' = interrupted /\ faults' = faults
    BY <1>6 DEF vars
  <2>2. Settled' = Settled /\ Drained' = Drained /\ InHand' = InHand /\ Current' = Current
        /\ NextQueued' = NextQueued /\ NextSampled' = NextSampled /\ Clean' = Clean
    BY <2>1 DEF Settled, Drained, InHand, Current, NextQueued, NextSampled, Clean
  <2>3. TypeOK' <=> TypeOK BY <2>1 DEF TypeOK
  <2>4. TrimInv' <=> TrimInv BY <2>1, <2>2 DEF TrimInv
  <2>5. PrefixInv' <=> PrefixInv BY <2>1, <2>2 DEF PrefixInv
  <2>6. (ControlInv' <=> ControlInv) /\ (BufferInv' <=> BufferInv)
    BY <2>1, <2>2 DEF ControlInv, BufferInv
  <2>7. (GaplessInv' <=> GaplessInv) /\ (EndInv' <=> EndInv)
    BY <2>1, <2>2 DEF GaplessInv, EndInv
  <2> QED BY <2>1, <2>3, <2>4, <2>5, <2>6, <2>7 DEF Inv
<1> QED BY <1>1, <1>2, <1>3, <1>4, <1>5, <1>6 DEF Next

\* What the control thread has waited for holds whenever it goes on, and the rows of
\* the epoch form one chain between the sampler and the dataset.
THEOREM Invariance == Spec => []Inv
BY InitInv, NextInv, PTL DEF Spec

\* Types, and the bounds the code puts on its queue, its batches and its images.
THEOREM TypeCorrectness == Spec => []TypeOK
<1>1. Inv => TypeOK BY DEF Inv
<1> QED BY <1>1, Invariance, PTL

\* The prefix that was thrown away stays out; what is frozen holds still, what is
\* committed is whole and what was ended leaves nothing behind.
THEOREM EpisodeWhole == Spec => []EpisodeIsWhole
<1>1. ASSUME Inv PROVE EpisodeIsWhole
  <2>0. /\ TypeOK /\ PrefixInv
        /\ ~interrupted => ControlInv /\ BufferInv /\ EndInv
    BY <1>1 DEF Inv
  <2>1. PrefixStaysOut BY <2>0 DEF PrefixInv, PrefixStaysOut, NoneBefore
  <2>2. ASSUME ~interrupted PROVE FrozenIsSettled
    BY <2>0, <2>2 DEF ControlInv, EndInv, FrozenIsSettled
  <2>3. ASSUME ~interrupted PROVE CommittedIsWhole
    <3> SUFFICES ASSUME rec.phase = "COMMITTED"
                 PROVE  /\ book.rows = [i \in 1..Len(book.rows) |-> rec.first + i - 1]
                        /\ data.buffer = book.rows /\ data.staged = Range(book.rows)
      BY DEF CommittedIsWhole
    <3>1. ControlInv /\ BufferInv /\ EndInv BY <2>0, <2>3
    <3>2. Settled /\ data.owed = {} /\ Follow(book.rows, rec.first) BY <3>1 DEF EndInv
    <3>3. data.buffer = book.rows BY <3>1, <3>2 DEF BufferInv, Settled
    <3>4. data.staged = Range(book.rows) BY <3>1, <3>2, <3>3 DEF BufferInv
    <3>5. book.rows \in [1..Len(book.rows) -> Stamps] BY <2>0, Types, LenProperties
    <3>6. book.rows = [i \in 1..Len(book.rows) |-> rec.first + i - 1]
      BY <3>2, <3>5 DEF Follow
    <3> QED BY <3>3, <3>4, <3>6
  <2>4. ASSUME ~interrupted PROVE EndedIsEmpty
    <3>1. ControlInv /\ BufferInv /\ EndInv /\ book.rows \in Seq(Stamps)
      BY <2>0, <2>4, Types
    <3>2. ASSUME rec.phase = "ABORTED"
          PROVE  data.buffer = <<>> /\ data.staged = {} /\ data.owed = {} /\ Settled
      BY <3>1, <3>2, EmptyFacts DEF ControlInv, BufferInv, EndInv
    <3>3. ASSUME data.retained # <<>> PROVE data.retained = book.rows /\ Settled
      BY <3>1, <3>3 DEF EndInv
    <3>4. SubSeq(book.rows, 1, Len(book.rows)) = book.rows BY <3>1, SubSeqFull
    <3>5. data.retained # <<>> =>
             data.retained = SubSeq(book.rows, 1, Len(data.retained)) /\ Settled
      BY <3>3, <3>4
    <3> QED BY <3>2, <3>3, <3>5 DEF EndedIsEmpty
  <2> QED BY <2>1, <2>2, <2>3, <2>4 DEF EpisodeIsWhole
<1> QED BY <1>1, Invariance, PTL

=============================================================================
