------------------------- MODULE TranscriptionJob -------------------------
(***************************************************************************)
(* pipeline/job_runner.py with segment_planner.py, asr_batch.py and        *)
(* pyannote_provider.py: one local transcription, from the speaker turns   *)
(* to the segments of the transcript.                                      *)
(*                                                                         *)
(* Times are small integers and speakers numbers; a text is reduced to     *)
(* its being empty or not.  run_job is called by chunked_local.py alone, with the *)
(* local backend and forced external diarization, and nothing writes the   *)
(* control files of check_job_control, so those branches never run.        *)
(***************************************************************************)
EXTENDS Naturals, Sequences, FiniteSets, SequencesExt

CONSTANTS
  Totals,       \* lengths of the recording
  Speakers,     \* a set of numbers; 1 is "Speaker 1"
  TurnSets,     \* what pyannote may return: sets of [speaker, start, end]
  MinSegment,   \* MIN_SEGMENT_MS
  MergeGap,     \* MERGE_GAP_MS
  MaxSegment,   \* MAX_SEGMENT_MS
  Padding,      \* the 200 ms around the audio of a segment
  BatchSize     \* the ASR batch size

ASSUME JobAssumption ==
  /\ Totals \subseteq Nat /\ 1 \in Speakers
  /\ {MinSegment, MergeGap, Padding} \subseteq Nat
  /\ {MaxSegment, BatchSize} \subseteq Nat \ {0}
  /\ \A ts \in TurnSets : IsFiniteSet(ts) /\ ts \subseteq [speaker : Speakers, start : Nat, end : Nat]

VARIABLES
  jobStage,   \* "new", "diarized", "planned", "chunk", "cpu", "submit", "gpu", "assemble",
              \* "merge", and at the end "done" or "raised"
  device,     \* "cpu", or "gpu" for the shared dispatcher
  total,      \* total_ms
  turns,      \* the diarization, as a sequence, until transcription starts
  plan,       \* the normalized segments: [speaker, start, end]
  next,       \* batch_start + 1
  stack,      \* "cpu": the batches still to run, the next one first;
              \* "gpu": one batch, the futures still awaited
  good,       \* segments of the chunk with a transcription
  warnings,   \* the segments of the warnings, in order
  output,     \* transcript segments: the segment they are of, bounds, text or not
  blamed,     \* history: segments with empty audio, a null result or a failed call of their own
  silent,     \* history: segments whose transcription has an empty text
  modelCalls  \* history: calls of the CPU model for the chunk

jobVars == <<jobStage, device, total, turns, plan, next, stack, good, warnings, output, blamed, silent, modelCalls>>

Lesser(i, j) == IF i < j THEN i ELSE j
Greater(i, j) == IF i < j THEN j ELSE i
Indices(s) == {s[i] : i \in DOMAIN s}

-----------------------------------------------------------------------------
(* Planning. *)

NonEmpty(t) == t.start < t.end

Clip(t, limit) ==
  LET from == Lesser(t.start, limit) IN
  [t EXCEPT !.start = from, !.end = Greater(from, Lesser(t.end, limit))]

\* PyannoteDiarizationProvider.diarize and the fallback of build_speaker_segments.
Diarization(ts, limit) ==
  LET kept == {t \in {Clip(u, limit) : u \in ts} : NonEmpty(t)} IN
  IF kept = {} THEN <<[speaker |-> 1, start |-> 0, end |-> limit]>> ELSE SetToSeq(kept)

Earlier(t, u) ==
  \/ t.start < u.start
  \/ t.start = u.start /\ t.end < u.end
  \/ t.start = u.start /\ t.end = u.end /\ t.speaker < u.speaker

Joins(previous, t) ==
  /\ previous.speaker = t.speaker
  /\ t.start <= previous.end + MergeGap \/ t.end - t.start < MinSegment

\* Mutated form: a merged turn ends where the later of the two turns ends.
JoinedToCurrent(previous, t) == [previous EXCEPT !.end = t.end]

Joined(previous, t) == [previous EXCEPT !.end = Greater(previous.end, t.end)]

\* The turns as sorted() may give them.
Sorted(ts) ==
  {[i \in DOMAIN ts |-> ts[order[i]]] :
     order \in {p \in [DOMAIN ts -> DOMAIN ts] :
                 \A i, j \in DOMAIN ts : i < j => p[i] # p[j] /\ ~Earlier(ts[p[j]], ts[p[i]])}}

\* The loops that normalize and merge, in one: a turn that is empty is left
\* out, one that joins the last one makes it longer.
MergeNext(merged, t) ==
  LET last == Len(merged) IN
  IF ~NonEmpty(t) THEN merged
  ELSE IF merged # <<>> /\ Joins(merged[last], t) THEN [merged EXCEPT ![last] = Joined(@, t)]
  ELSE Append(merged, t)

Merged(ts, limit) ==
  LET upTo[n \in 0 .. Len(ts)] == IF n = 0 THEN <<>> ELSE MergeNext(upTo[n - 1], Clip(ts[n], limit))
  IN upTo[Len(ts)]

\* The loop that cuts off one segment after the other, until none is left.
SplitNext(done, t) ==
  LET cursor == IF done = <<>> THEN t.start ELSE done[Len(done)].end IN
  IF cursor >= t.end THEN done
  ELSE Append(done, [t EXCEPT !.start = cursor, !.end = Lesser(cursor + MaxSegment, t.end)])

Split(t) ==
  LET upTo[n \in 0 .. t.end - t.start] == IF n = 0 THEN <<>> ELSE SplitNext(upTo[n - 1], t)
  IN upTo[t.end - t.start]

\* plan_segments, of the sorted turns.
PlanSegments(ts, limit) ==
  LET merged == Merged(ts, limit)
      upTo[n \in 0 .. Len(merged)] == IF n = 0 THEN <<>> ELSE upTo[n - 1] \o Split(merged[n])
  IN upTo[Len(merged)]

-----------------------------------------------------------------------------
(* run_job up to transcribe_segments. *)

\* The audio is decoded and the speakers are told apart.
Diarize ==
  /\ jobStage = "new"
  /\ jobStage' = "diarized"
  /\ device' \in {"cpu", "gpu"}
  /\ total' \in Totals
  /\ \E ts \in TurnSets : turns' = Diarization(ts, total')
  /\ UNCHANGED <<plan, next, stack, good, warnings, output, blamed, silent, modelCalls>>

MakePlan ==
  /\ jobStage = "diarized"
  /\ jobStage' = "planned"
  /\ \E sorted \in Sorted(turns) : plan' = PlanSegments(sorted, total)
  /\ UNCHANGED <<device, total, turns, next, stack, good, warnings, output, blamed, silent, modelCalls>>

\* Decoding, diarization, loading the model, slicing the audio and the export
\* may raise.
JobRaises ==
  /\ jobStage \in {"new", "diarized", "planned", "chunk", "merge"}
  /\ jobStage' = "raised"
  /\ UNCHANGED <<device, total, turns, plan, next, stack, good, warnings, output, blamed, silent, modelCalls>>

-----------------------------------------------------------------------------
(* transcribe_segments: one chunk of segments after the other. *)

ChunkEnd == Lesser(next + BatchSize - 1, Len(plan))
Chunk == [i \in 1 .. ChunkEnd - next + 1 |-> next + i - 1]

\* Some segments of a chunk, in order.
InOrder ==
  {s \in UNION {[1 .. n -> Indices(Chunk)] : n \in 0 .. Len(Chunk)} : \A i \in 2 .. Len(s) : s[i - 1] < s[i]}

\* Segments without audio are not sent to the model.
TakeChunk ==
  /\ jobStage \in {"planned", "chunk"} /\ next <= Len(plan)
  /\ \E inputs \in InOrder :
       /\ stack' = IF inputs = <<>> THEN <<>> ELSE <<inputs>>
       /\ jobStage' = IF inputs = <<>> THEN "assemble"
                        ELSE IF device = "gpu" THEN "submit" ELSE "cpu"
       /\ blamed' = blamed \cup (Indices(Chunk) \ Indices(inputs))
  /\ good' = {}
  /\ turns' = <<>>
  /\ modelCalls' = 0
  /\ UNCHANGED <<device, total, plan, next, warnings, output, silent>>

Continue(rest, stage) ==
  /\ stack' = rest
  /\ jobStage' = IF rest = <<>> THEN "assemble" ELSE stage

\* The model answers a batch; some answers may be null.
BatchAnswered ==
  /\ jobStage = "cpu"
  /\ \E nulls \in SUBSET Indices(Head(stack)) :
       /\ good' = good \cup (Indices(Head(stack)) \ nulls)
       /\ blamed' = blamed \cup nulls
  /\ Continue(Tail(stack), "cpu")
  /\ modelCalls' = modelCalls + 1
  /\ UNCHANGED <<device, total, turns, plan, next, warnings, output, silent>>

\* Mutated form: the halves are cut one item too late.
MidpointTooLate(n) == n \div 2 + 1

Midpoint(n) == Greater(1, n \div 2)

\* Mutated form: the second half starts one item too late.
HalvesGap(items) ==
  <<SubSeq(items, 1, Midpoint(Len(items))), SubSeq(items, Midpoint(Len(items)) + 2, Len(items))>>

Halves(items) ==
  <<SubSeq(items, 1, Midpoint(Len(items))), SubSeq(items, Midpoint(Len(items)) + 1, Len(items))>>

\* transcribe_with_isolation: the call raises or returns a wrong number of
\* answers.  A batch is bisected; an empty half is returned from at once.
BatchFailed ==
  LET items == Head(stack)
      halves == Halves(items) IN
  /\ jobStage = "cpu"
  /\ IF Len(items) = 1
       THEN blamed' = blamed \cup Indices(items) /\ Continue(Tail(stack), "cpu")
       ELSE /\ Continue((IF halves[2] = <<>> THEN <<halves[1]>> ELSE halves) \o Tail(stack), "cpu")
            /\ UNCHANGED blamed
  /\ modelCalls' = modelCalls + 1
  /\ UNCHANGED <<device, total, turns, plan, next, good, warnings, output, silent>>

\* submit_attempt queues the items, or raises: of a closed dispatcher, caught
\* with every other exception; of another runtime key or a repeated identity,
\* raised.
Submit ==
  /\ jobStage = "submit"
  /\ \/ jobStage' = "gpu" /\ UNCHANGED stack
     \/ jobStage' = "assemble" /\ stack' = <<>>
     \/ jobStage' = "raised" /\ UNCHANGED stack
  /\ UNCHANGED <<device, total, turns, plan, next, good, warnings, output, blamed, silent, modelCalls>>

\* The next future is resolved with a result, null or not, or with an error.
OutcomeArrives ==
  LET rest == Tail(Head(stack)) IN
  /\ jobStage = "gpu"
  /\ \/ good' = good \cup {Head(Head(stack))} /\ UNCHANGED blamed
     \/ blamed' = blamed \cup {Head(Head(stack))} /\ UNCHANGED good
  /\ Continue(IF rest = <<>> THEN <<>> ELSE <<rest>>, "gpu")
  /\ UNCHANGED <<device, total, turns, plan, next, warnings, output, silent, modelCalls>>

\* ... or it is cancelled or discarded, which ends the job.
OutcomeEndsJob ==
  /\ jobStage = "gpu"
  /\ jobStage' = "raised"
  /\ UNCHANGED <<device, total, turns, plan, next, stack, good, warnings, output, blamed, silent, modelCalls>>

-----------------------------------------------------------------------------
(* The transcript. *)

\* What the model answers for a segment: a text, empty or not, and its pieces
\* in recording time: none, only one in the padding before the segment, or two
\* over the padded input.  A piece without text is left out like one without
\* length, and is not among them.
Answers(i) ==
  LET from == IF plan[i].start < Padding THEN 0 ELSE plan[i].start - Padding
      to == Lesser(plan[i].end + Padding, total)
      mid == plan[i].start + 1
      Said(pieces) == [text |-> TRUE, pieces |-> pieces] IN
  {[text |-> FALSE, pieces |-> <<>>], Said(<<>>), Said(<<[start |-> from, end |-> plan[i].start]>>),
   Said(<<[start |-> from, end |-> mid], [start |-> mid, end |-> to]>>)}

Item(i, from, to, hasText) == [of |-> i, start |-> from, end |-> to, text |-> hasText]

\* transcript_segments_from_model_output.
Expanded(i, pieces) ==
  LET Within(p) ==
        LET from == Greater(plan[i].start, p.start) IN
        Item(i, from, Lesser(Greater(p.end, from), plan[i].end), TRUE)
      upTo[n \in 0 .. Len(pieces)] ==
        IF n = 0 THEN <<>>
        ELSE IF NonEmpty(Within(pieces[n])) THEN Append(upTo[n - 1], Within(pieces[n]))
        ELSE upTo[n - 1]
  IN upTo[Len(pieces)]

\* The pieces of an answer, or its text over the whole segment, which may be
\* empty and is then not warned of.
Transcribed(i, answer) ==
  IF Expanded(i, answer.pieces) = <<>> THEN <<Item(i, plan[i].start, plan[i].end, answer.text)>>
  ELSE Expanded(i, answer.pieces)

Placeholder(i) == <<Item(i, plan[i].start, plan[i].end, FALSE)>>

\* One turn of the loop over the chunk.
SegmentDone(done, i, said) ==
  IF i \in good THEN [output |-> done.output \o Transcribed(i, said[i]), warnings |-> done.warnings]
  ELSE [output |-> done.output \o Placeholder(i), warnings |-> Append(done.warnings, i)]

Assemble ==
  /\ jobStage = "assemble"
  /\ \E said \in {f \in [good -> UNION {Answers(i) : i \in good}] : \A i \in good : f[i] \in Answers(i)} :
       LET upTo[n \in 0 .. Len(Chunk)] ==
             IF n = 0 THEN [output |-> output, warnings |-> warnings]
             ELSE SegmentDone(upTo[n - 1], Chunk[n], said)
           done == upTo[Len(Chunk)] IN
       /\ output' = done.output /\ warnings' = done.warnings
       /\ silent' = silent \cup {i \in good : ~said[i].text}
  /\ next' = ChunkEnd + 1
  /\ good' = {}
  /\ jobStage' = "chunk"
  /\ UNCHANGED <<device, total, turns, plan, stack, blamed, modelCalls>>

Before(x, y) == x.start < y.start \/ (x.start = y.start /\ x.end < y.end)

\* An item goes behind the last one that it does not come before.
Inserted(items, x) ==
  LET place == Max({n \in 0 .. Len(items) : n = 0 \/ ~Before(x, items[n])}) IN
  Append(SubSeq(items, 1, place), x) \o SubSeq(items, place + 1, Len(items))

\* sort(), which leaves items with equal bounds in the order they are in.
Chronological(items) ==
  LET upTo[n \in 0 .. Len(items)] == IF n = 0 THEN <<>> ELSE Inserted(upTo[n - 1], items[n])
  IN upTo[Len(items)]

\* Every chunk is done: the output is sorted by its bounds, ...
SortOutput ==
  /\ jobStage \in {"planned", "chunk"} /\ next > Len(plan)
  /\ jobStage' = "merge"
  /\ output' = Chronological(output)
  /\ turns' = <<>>
  /\ UNCHANGED <<device, total, plan, next, stack, good, warnings, blamed, silent, modelCalls>>

\* ... exported, and the workspace is removed.
Export ==
  /\ jobStage = "merge"
  /\ jobStage' = "done"
  /\ UNCHANGED <<device, total, turns, plan, next, stack, good, warnings, output, blamed, silent, modelCalls>>

-----------------------------------------------------------------------------
JobInit ==
  /\ jobStage = "new" /\ device = "cpu" /\ total = 0
  /\ turns = <<>> /\ plan = <<>>
  /\ next = 1 /\ stack = <<>> /\ good = {}
  /\ warnings = <<>> /\ output = <<>> /\ blamed = {} /\ silent = {} /\ modelCalls = 0

JobNext ==
  \/ Diarize \/ MakePlan \/ JobRaises
  \/ TakeChunk \/ BatchAnswered \/ BatchFailed
  \/ Submit \/ OutcomeArrives \/ OutcomeEndsJob
  \/ Assemble \/ SortOutput \/ Export

JobSpec == JobInit /\ [][JobNext]_jobVars

-----------------------------------------------------------------------------
(* Properties. *)

JobTypeOK ==
  LET Bounded(t) == t.start \in 0 .. total /\ t.end \in 0 .. total IN
  /\ jobStage \in {"new", "diarized", "planned", "chunk", "cpu", "submit", "gpu",
                   "assemble", "merge", "done", "raised"}
  /\ device \in {"cpu", "gpu"}
  /\ total \in Totals \cup {0}
  /\ \A i \in DOMAIN turns : turns[i].speaker \in Speakers /\ Bounded(turns[i])
  /\ \A i \in DOMAIN plan : plan[i].speaker \in Speakers /\ Bounded(plan[i])
  /\ next \in 1 .. Len(plan) + 1
  /\ \A k \in DOMAIN stack : stack[k] # <<>> /\ Indices(stack[k]) \subseteq Indices(Chunk)
  /\ UNION {good, blamed, silent} \subseteq DOMAIN plan
  /\ Indices(warnings) \subseteq DOMAIN plan
  /\ modelCalls \in Nat
  /\ \A k \in DOMAIN output : output[k].of \in DOMAIN plan /\ Bounded(output[k]) /\ output[k].text \in BOOLEAN

\* The plan holds all that was said: each moment of a turn lies in a segment
\* of its speaker, no segment is empty, longer than MaxSegment or outside the
\* recording, and when the turns do not overlap neither do the segments, so
\* that nothing is transcribed twice and the order is that of the recording.
PlanCoversSpeech ==
  jobStage = "planned" =>
    /\ \A i \in DOMAIN turns : \A at \in turns[i].start .. turns[i].end - 1 :
         \E s \in Indices(plan) : s.speaker = turns[i].speaker /\ s.start <= at /\ at < s.end
    /\ \A s \in Indices(plan) : s.start < s.end /\ s.end <= s.start + MaxSegment /\ s.end <= total
    /\ (\A i, j \in DOMAIN turns : i = j \/ turns[i].end <= turns[j].start \/ turns[j].end <= turns[i].start)
         => \A i \in 1 .. Len(plan) - 1 : plan[i].end <= plan[i + 1].start

\* A finished transcript accounts for every segment.  One that the model has
\* transcribed has its text, inside its bounds, and no warning; where it has
\* transcribed nothing, an empty text over the whole segment and no warning;
\* and one without a transcription has such an empty text and one warning, so
\* that a text is never lost and the loss of one never passes unsaid.  The
\* transcript is in the order of the recording.  On the CPU a failing batch
\* costs only the segments at fault: one that has audio, and whose own call
\* does not fail or return null, is transcribed whatever happened to those it
\* was batched with.
EverySegmentAccounted ==
  jobStage = "done" =>
    /\ \A i \in DOMAIN plan :
         LET mine == {k \in DOMAIN output : output[k].of = i}
             warned == {k \in DOMAIN warnings : warnings[k] = i}
             Empty == \E k \in mine : mine = {k} /\ <<output[k]>> = Placeholder(i) IN
         \/ /\ i \notin silent /\ mine # {} /\ warned = {}
            /\ \A k \in mine : output[k].text /\ plan[i].start <= output[k].start /\ output[k].end <= plan[i].end
         \/ i \in silent /\ Empty /\ warned = {}
         \/ i \notin silent /\ Empty /\ \E k \in warned : warned = {k}
    /\ \A k \in 1 .. Len(output) - 1 : output[k].start <= output[k + 1].start
    /\ device = "cpu" => Indices(warnings) \subseteq blamed

\* Bisecting a chunk of n segments ends, after at most 2n - 1 calls of the
\* model, whichever of them fail.
BisectionEnds ==
  /\ jobStage = "cpu" => modelCalls + Len(stack) <= 2 * Len(Chunk) - 1
  /\ jobStage = "assemble" => modelCalls <= 2 * Len(Chunk) - 1
=============================================================================
