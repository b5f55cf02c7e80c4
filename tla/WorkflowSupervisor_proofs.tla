---------------------- MODULE WorkflowSupervisor_proofs ----------------------
(***************************************************************************)
(* Machine-checked proofs about WorkflowSupervisor, for any number of      *)
(* workflows and worker tasks and any choice of profiles and bounds.  The  *)
(* inductive invariant is IInv.  Most actions have one of four shapes, for *)
(* which it is proved once: a row is touched, a run ends, a run enters a   *)
(* call, the process goes away.                                            *)
(*                                                                         *)
(* The second half is about the stages a run goes through: a retry runs    *)
(* only the stages from the chosen one on, the stage of an attempt never   *)
(* moves back, and a pending cancel keeps results out.  The invariant is   *)
(* StageInv, on top of IInv.  A step changes one row, or the process goes  *)
(* away; how it may change a row is Advances.                              *)
(***************************************************************************)
EXTENDS WorkflowSupervisor, FiniteSetTheorems, TLAPS

-----------------------------------------------------------------------------
(* What the snapshot functions of WorkflowSnapshot return: a snapshot with *)
(* a newer sequence, so that _save_snapshot stores it, and with the        *)
(* status, attempt and recommended stage the callers rely on.              *)

\* A touch keeps everything but the sequence.
LEMMA TouchLemma ==
  ASSUME NEW s \in Snapshot
  PROVE  /\ Touch(s) \in Snapshot
         /\ Touch(s).sequence > s.sequence
         /\ Touch(s).status = s.status
         /\ Touch(s).stage = s.stage
         /\ Touch(s).attempt = s.attempt
         /\ Touch(s).recommended = s.recommended
         /\ Touch(s).pending = s.pending
         /\ Touch(s).transcript = s.transcript
  BY DEF Touch, Snapshot

\* A transition keeps everything but the status, the stage and the sequence.
LEMMA TransitionLemma ==
  ASSUME NEW s \in Snapshot, NEW st \in Status, NEW stage \in Stage
  PROVE  /\ Transition(s, st, stage) \in Snapshot
         /\ Transition(s, st, stage).sequence > s.sequence
         /\ Transition(s, st, stage).status = st
         /\ Transition(s, st, stage).stage = stage
         /\ Transition(s, st, stage).attempt = s.attempt
         /\ Transition(s, st, stage).recommended = s.recommended
         /\ Transition(s, st, stage).pending = s.pending
         /\ Transition(s, st, stage).transcript = s.transcript
  BY TouchLemma DEF Transition, Snapshot

\* The recommended stage is always a retry stage.
LEMMA InferStageLemma ==
  ASSUME NEW s \in Snapshot
  PROVE  InferStage(s) \in RetryStage
  BY DEF InferStage, Snapshot, RetryStage

\* A failed snapshot is of the same attempt.
LEMMA FailedLemma ==
  ASSUME NEW s \in Snapshot
  PROVE  /\ Failed(s) \in Snapshot
         /\ Failed(s).sequence > s.sequence
         /\ Failed(s).status = "failed"
         /\ Failed(s).attempt = s.attempt
         /\ Failed(s).transcript = s.transcript
  BY TouchLemma, InferStageLemma DEF Failed, Snapshot, Status

\* An interrupted snapshot is of the same attempt.
LEMMA InterruptedLemma ==
  ASSUME NEW s \in Snapshot
  PROVE  /\ Interrupted(s) \in Snapshot
         /\ Interrupted(s).status = "interrupted"
         /\ Interrupted(s).attempt = s.attempt
         /\ Interrupted(s).transcript = s.transcript
  BY TouchLemma, InferStageLemma DEF Interrupted, Snapshot, Status

\* A snapshot that is already cancelled is not saved again.
LEMMA CancelledLemma ==
  ASSUME NEW s \in Snapshot
  PROVE  /\ Cancelled(s) \in Snapshot
         /\ Cancelled(s).sequence > s.sequence \/ Cancelled(s) = s
         /\ Cancelled(s).status = "cancelled"
         /\ Cancelled(s).attempt = s.attempt
         /\ Cancelled(s).transcript = s.transcript
  BY TouchLemma DEF Cancelled, Snapshot, Status

\* A control changes the status and nothing else the invariants read.
LEMMA CancelLemma ==
  ASSUME NEW s \in Snapshot
  PROVE  /\ CancelRequested(s) \in Snapshot
         /\ CancelRequested(s).sequence > s.sequence
         /\ CancelRequested(s).status =
              IF s.status = "running" THEN "running" ELSE "cancelled"
         /\ CancelRequested(s).attempt = s.attempt
         /\ CancelRequested(s).recommended = s.recommended
         /\ CancelRequested(s).transcript = s.transcript
  <1>. DEFINE st == IF s.status = "running" THEN "running" ELSE "cancelled"
  <1>1. st \in Status
    BY DEF Status
  <1>2. CancelRequested(s) =
          [Touch(s) EXCEPT !.status = st, !.pending = (s.status = "running")]
    BY TouchLemma DEF CancelRequested
  <1>. HIDE DEF st
  <1>3. CancelRequested(s) \in Snapshot
    BY <1>1, <1>2, TouchLemma DEF Snapshot
  <1>4. CancelRequested(s).status = st
    BY <1>2, TouchLemma DEF Snapshot
  <1>5. /\ CancelRequested(s).sequence > s.sequence
        /\ CancelRequested(s).attempt = s.attempt
        /\ CancelRequested(s).recommended = s.recommended
        /\ CancelRequested(s).transcript = s.transcript
    BY <1>2, TouchLemma DEF Snapshot
  <1>. QED
    BY <1>3, <1>4, <1>5 DEF st

LEMMA PauseLemma ==
  ASSUME NEW s \in Snapshot
  PROVE  /\ PauseApplied(s) \in Snapshot
         /\ PauseApplied(s).sequence > s.sequence
         /\ PauseApplied(s).status = "paused"
         /\ PauseApplied(s).attempt = s.attempt
         /\ PauseApplied(s).recommended = s.recommended
         /\ PauseApplied(s).transcript = s.transcript
  BY TouchLemma DEF PauseApplied, Snapshot, Status

LEMMA ResumeLemma ==
  ASSUME NEW s \in Snapshot
  PROVE  /\ ResumeApplied(s) \in Snapshot
         /\ ResumeApplied(s).sequence > s.sequence
         /\ ResumeApplied(s).status = "running"
         /\ ResumeApplied(s).attempt = s.attempt
         /\ ResumeApplied(s).recommended = s.recommended
         /\ ResumeApplied(s).transcript = s.transcript
  BY TouchLemma DEF ResumeApplied, Snapshot, Status

\* The chosen retry stage is a retry stage.
LEMMA RetryStageLemma ==
  ASSUME NEW s \in Snapshot, NEW from \in RetryStage \cup {"auto"}
  PROVE  RetryStageOf(s, from) \in RetryStage
  <1>. s.recommended \in RetryStage \cup {"none"}
    BY DEF Snapshot
  <1>. QED
    BY InferStageLemma DEF RetryStageOf, RetryStage

\* A retry is a new attempt whose row recommends the chosen stage.
LEMMA RetryLemma ==
  ASSUME NEW s \in Snapshot, NEW stage \in RetryStage
  PROVE  /\ RetrySnapshot(s, stage) \in Snapshot
         /\ RetrySnapshot(s, stage).sequence > s.sequence
         /\ RetrySnapshot(s, stage).status = "queued"
         /\ RetrySnapshot(s, stage).attempt = s.attempt + 1
         /\ RetrySnapshot(s, stage).recommended = stage
         /\ RetrySnapshot(s, stage).transcript = s.transcript
  <1>. DEFINE q == Transition(s, "queued", "queued")
              a == [q EXCEPT !.attempt = @ + 1]
              p == [a EXCEPT !.pending = FALSE]
  <1>1. "queued" \in Status /\ "queued" \in Stage
    BY DEF Status, Stage
  <1>2. /\ q \in Snapshot /\ q.sequence > s.sequence /\ q.status = "queued"
        /\ q.attempt = s.attempt /\ q.transcript = s.transcript
    BY <1>1, TransitionLemma
  <1>3. RetrySnapshot(s, stage) = [p EXCEPT !.recommended = stage]
    BY <1>2 DEF RetrySnapshot
  <1>. HIDE DEF q
  <1>4. a \in Snapshot
    BY <1>2 DEF Snapshot
  <1>5. /\ a.sequence = q.sequence /\ a.status = q.status
        /\ a.attempt = q.attempt + 1 /\ a.transcript = q.transcript
    BY <1>2 DEF Snapshot
  <1>. HIDE DEF a
  <1>6. p \in Snapshot
    BY <1>4 DEF Snapshot
  <1>7. /\ p.sequence = a.sequence /\ p.status = a.status
        /\ p.attempt = a.attempt /\ p.transcript = a.transcript
    BY <1>4 DEF Snapshot
  <1>. HIDE DEF p
  <1>. QED
    BY <1>2, <1>3, <1>5, <1>6, <1>7 DEF Snapshot

\* Publishing a transcript or a checkpoint leaves the status alone.
LEMMA TranscriptReadyLemma ==
  ASSUME NEW s \in Snapshot
  PROVE  /\ TranscriptReady(s) \in Snapshot
         /\ TranscriptReady(s).sequence > s.sequence
         /\ TranscriptReady(s).status = s.status
         /\ TranscriptReady(s).attempt = s.attempt
         /\ TranscriptReady(s).recommended = s.recommended
         /\ TranscriptReady(s).transcript = TRUE
  <1>. DEFINE c == [s EXCEPT !.transcript = TRUE, !.checkpoint = Stale(@)]
              t == WithTranscript(s)
  <1>1. Stale(s.checkpoint) \in Artifact /\ Stale(s.final) \in Artifact
    BY DEF Stale, Artifact
  <1>2. /\ c \in Snapshot /\ c.sequence = s.sequence /\ c.status = s.status
        /\ c.attempt = s.attempt /\ c.recommended = s.recommended
        /\ c.transcript = TRUE /\ c.final = s.final
    BY <1>1 DEF Snapshot
  <1>3. t = [c EXCEPT !.final = Stale(s.final)]
    BY <1>2 DEF WithTranscript, Snapshot
  <1>. HIDE DEF c
  <1>4. /\ t \in Snapshot /\ t.sequence = s.sequence /\ t.status = s.status
        /\ t.attempt = s.attempt /\ t.recommended = s.recommended
        /\ t.transcript = TRUE
    BY <1>1, <1>2, <1>3 DEF Snapshot
  <1>. HIDE DEF t
  <1>5. TranscriptReady(s) = [Touch(t) EXCEPT !.stage = "transcript_ready"]
    BY DEF TranscriptReady, t
  <1>6. "transcript_ready" \in Stage
    BY DEF Stage
  <1>. QED
    BY <1>4, <1>5, <1>6, TouchLemma DEF Snapshot

LEMMA CheckpointReadyLemma ==
  ASSUME NEW s \in Snapshot
  PROVE  /\ CheckpointReady(s) \in Snapshot
         /\ CheckpointReady(s).sequence > s.sequence
         /\ CheckpointReady(s).status = s.status
         /\ CheckpointReady(s).attempt = s.attempt
         /\ CheckpointReady(s).recommended = s.recommended
         /\ CheckpointReady(s).transcript = s.transcript
  <1>1. "fresh" \in Artifact /\ "writing_final" \in Stage
    BY DEF Artifact, Stage
  <1>. QED
    BY <1>1, TouchLemma DEF CheckpointReady, Snapshot

\* Publishing the final summary completes the workflow.
LEMMA CompletedLemma ==
  ASSUME NEW s \in Snapshot
  PROVE  /\ Completed(s) \in Snapshot
         /\ Completed(s).sequence > s.sequence
         /\ Completed(s).status = "completed"
         /\ Completed(s).attempt = s.attempt
         /\ Completed(s).transcript = s.transcript
  <1>. DEFINE f == [Touch(s) EXCEPT !.final = "fresh", !.status = "completed"]
  <1>1. "fresh" \in Artifact /\ "completed" \in Status /\ "completed" \in Stage
    BY DEF Artifact, Status, Stage
  <1>2. /\ f \in Snapshot /\ f.sequence > s.sequence /\ f.status = "completed"
        /\ f.attempt = s.attempt /\ f.transcript = s.transcript
    BY <1>1, TouchLemma DEF Snapshot
  <1>3. Completed(s) = [f EXCEPT !.stage = "completed"]
    BY TouchLemma DEF Completed
  <1>. HIDE DEF f
  <1>. QED
    BY <1>1, <1>2, <1>3 DEF Snapshot

\* A revision changes the freshness of artifacts only.
LEMMA TranscriptRevisedLemma ==
  ASSUME NEW s \in Snapshot, NEW affects \in BOOLEAN
  PROVE  /\ TranscriptRevised(s, affects) \in Snapshot
         /\ TranscriptRevised(s, affects).sequence > s.sequence
         /\ TranscriptRevised(s, affects).status = s.status
         /\ TranscriptRevised(s, affects).attempt = s.attempt
         /\ TranscriptRevised(s, affects).recommended = s.recommended
         /\ TranscriptRevised(s, affects).transcript = s.transcript
  <1>1. CASE ~affects
    BY <1>1, TouchLemma DEF TranscriptRevised
  <1>2. CASE affects
    <2>1. Stale(s.checkpoint) \in Artifact /\ Stale(s.final) \in Artifact
      BY DEF Stale, Artifact
    <2>2. Touch(s).checkpoint = s.checkpoint /\ Touch(s).final = s.final
      BY DEF Touch, Snapshot
    <2>3. TranscriptRevised(s, affects) =
            [Touch(s) EXCEPT !.checkpoint = Stale(s.checkpoint), !.final = Stale(s.final)]
      BY <1>2, <2>2, TouchLemma DEF TranscriptRevised
    <2>. QED
      BY <2>1, <2>3, TouchLemma DEF Snapshot
  <1>. QED
    BY <1>1, <1>2

LEMMA FinalRevisedLemma ==
  ASSUME NEW s \in Snapshot
  PROVE  /\ FinalRevised(s) \in Snapshot
         /\ FinalRevised(s).sequence > s.sequence
         /\ FinalRevised(s).status = s.status
         /\ FinalRevised(s).attempt = s.attempt
         /\ FinalRevised(s).recommended = s.recommended
         /\ FinalRevised(s).transcript = s.transcript
  <1>1. "fresh" \in Artifact
    BY DEF Artifact
  <1>. QED
    BY <1>1, TouchLemma DEF FinalRevised, Snapshot

\* The two snapshots a workflow may start from.
LEMMA InitialLemma ==
  /\ InitialSnapshot \in Snapshot
  /\ InitialSnapshot.status = "queued"
  /\ InitialSnapshot.attempt = 1
  /\ InitialSnapshot.recommended = "none"
  BY DEF InitialSnapshot, Snapshot, Status, Stage, RetryStage, Artifact

LEMMA ResummarizeLemma ==
  /\ ResummarizeSnapshot \in Snapshot
  /\ ResummarizeSnapshot.status = "queued"
  /\ ResummarizeSnapshot.attempt = 1
  /\ ResummarizeSnapshot.recommended = "summarizing"
  <1>1. "summarizing" \in RetryStage
    BY DEF RetryStage
  <1>. QED
    BY <1>1, InitialLemma DEF ResummarizeSnapshot, Snapshot

-----------------------------------------------------------------------------
(* Saving a snapshot. *)

\* What is newer than the stored row, or equal to it, ends up stored.
LEMMA CommitLemma ==
  ASSUME snap \in [Workflow -> Snapshot],
         NEW w \in Workflow, NEW n \in Snapshot,
         n.sequence > snap[w].sequence \/ n = snap[w],
         Commit(w, n)
  PROVE  snap' = [snap EXCEPT ![w] = n]
  BY DEF Commit, Saved

\* The statuses of a run that has ended are not those of a busy worker.
LEMMA StatusLemma ==
  /\ Active \subseteq Status /\ Terminal \subseteq Status /\ Retryable \subseteq Terminal
  /\ "queued" \notin Active /\ "queued" \notin Terminal
  /\ Active \cap Terminal = {}
  /\ Status = Active \cup Terminal \cup {"queued"}
  BY DEF Active, Terminal, Status, Retryable

LEMMA RowsLemma ==
  ASSUME TypeOK
  PROVE  rows \subseteq Workflow
  BY SupervisorAssumption DEF TypeOK, Workflow

\* The idle and the dead worker are not busy.
LEMMA IdleLemma ==
  /\ Idle \in WorkerState /\ Dead \in WorkerState
  /\ Idle.pc \notin BusyPc /\ Dead.pc \notin BusyPc
  BY SupervisorAssumption DEF Idle, Dead, WorkerState, BusyPc

\* PcOf, status by status.
LEMMA PcOfLemma ==
  /\ PcOf("waiting_for_secret") = {"asr_secret", "sum_secret", "raising"}
  /\ PcOf("running") = {"asr", "sum", "asr_gate", "sum_gate"}
  /\ PcOf("paused") = {"asr", "sum", "asr_gate", "sum_gate"}
  /\ PcOf("cancelled") = BusyPc
  /\ BusyPc = {"asr_secret", "asr", "asr_gate", "sum_secret", "sum", "sum_gate", "raising"}
  /\ \A s \in {"queued", "completed", "failed", "interrupted"} : PcOf(s) = {}
  BY DEF PcOf, SecretWait, BusyPc, Active

\* Entries of the queue name workflows.
LEMMA EntryLemma ==
  ASSUME TypeOK
  PROVE  \A i \in DOMAIN queue : queue[i] \in Entries /\ queue[i].wf \in Workflow
  <1>1. \A i \in DOMAIN queue : queue[i] \in Entries
    BY DEF TypeOK
  <1>2. \A e \in Entries : e.wf \in Workflow
    BY DEF Entries
  <1>. QED
    BY <1>1, <1>2

-----------------------------------------------------------------------------
(* Shape 1: a row is touched. *)

LEMMA TouchedRow ==
  ASSUME IInv,
         NEW w \in rows, NEW n \in Snapshot,
         n.status = snap[w].status,
         n.attempt = snap[w].attempt,
         n.recommended = snap[w].recommended,
         snap' = [snap EXCEPT ![w] = n],
         UNCHANGED <<rows, born, mode, volatile>>,
         ops' \in Nat, stops' \in Nat
  PROVE  IInv'
  <1>. w \in Workflow
    BY RowsLemma DEF IInv
  <1>. USE DEF IInv, TypeOK, volatile
  <1>0. \A v \in Workflow : /\ snap'[v].status = snap[v].status
                            /\ snap'[v].attempt = snap[v].attempt
                            /\ snap'[v].recommended = snap[v].recommended
    OBVIOUS
  <1>1. TypeOK'
    BY DEF Busy
  <1>2. StatusMatchesExecution'
    BY <1>0 DEF StatusMatchesExecution, Runs, Busy
  <1>3. ExecutionOwnership'
    BY <1>0 DEF ExecutionOwnership, Busy
  <1>4. QueuedIsScheduled'
    BY <1>0 DEF QueuedIsScheduled, Runs, Busy, InQueue
  <1>5. PauseGateConsistent'
    BY <1>0 DEF PauseGateConsistent
  <1>6. QueueRowsWait'
    BY <1>0 DEF QueueRowsWait
  <1>7. ScheduledIsBorn'
    BY DEF ScheduledIsBorn, Busy
  <1>8. StoppedIsEmpty'
    BY DEF StoppedIsEmpty
  <1>. QED
    BY <1>1, <1>2, <1>3, <1>4, <1>5, <1>6, <1>7, <1>8

-----------------------------------------------------------------------------
(* Shape 2: a run ends, or is skipped, and worker k leaves workflow w.     *)

\* Worker k runs w, or is about to take it from the head of the queue.
Holds(k, w) ==
  \/ Runs(k, w) /\ UNCHANGED queue
  \/ worker[k].pc = "idle" /\ queue # <<>> /\ w = Head(queue).wf /\ queue' = Tail(queue)

\* Removing the head keeps the other entries, one place further up.
LEMMA TailLemma ==
  ASSUME queue \in Seq(Entries), queue # <<>>, queue' = Tail(queue)
  PROVE  /\ queue' \in Seq(Entries)
         /\ Head(queue) \in Entries
         /\ 1 \in DOMAIN queue
         /\ Head(queue) = queue[1]
         /\ \A i \in DOMAIN queue' : i + 1 \in DOMAIN queue /\ queue'[i] = queue[i + 1]
         /\ \A i \in DOMAIN queue : i # 1 => i - 1 \in DOMAIN queue' /\ queue'[i - 1] = queue[i]
  OBVIOUS

\* Who holds w holds it alone, and w was handed out.
LEMMA HeldLemma ==
  ASSUME IInv, NEW k \in Workers, NEW w \in Workflow, Holds(k, w)
  PROVE  /\ \A j \in Workers : j # k => ~Runs(j, w)
         /\ queue' \in Seq(Entries)
         /\ \A i \in DOMAIN queue' : queue'[i].wf # w
         /\ \A i \in DOMAIN queue' : \E j \in DOMAIN queue : queue[j] = queue'[i]
         /\ \A i, j \in DOMAIN queue' : queue'[i].wf = queue'[j].wf => i = j
         /\ \A j \in DOMAIN queue : queue[j].wf # w => \E i \in DOMAIN queue' : queue'[i] = queue[j]
         /\ w \in enqueued /\ w <= born
         /\ w \in rows => snap[w].status \in {"queued", "cancelled"} \cup Active
  <1>1. CASE Runs(k, w) /\ UNCHANGED queue
    <2>1. \A i \in DOMAIN queue : queue[i].wf # w
      BY <1>1 DEF IInv, QueuedIsScheduled
    <2>2. \A j \in Workers : j # k => ~Runs(j, w)
      BY <1>1 DEF IInv, ExecutionOwnership, Runs
    <2>3. w \in enqueued /\ w <= born
      BY <1>1 DEF IInv, QueuedIsScheduled, ScheduledIsBorn, Runs
    <2>4. w \in rows => snap[w].status \in {"queued", "cancelled"} \cup Active
      BY <1>1 DEF IInv, StatusMatchesExecution, Runs, PcOf
    <2>. QED
      BY <1>1, <2>1, <2>2, <2>3, <2>4 DEF IInv, TypeOK, QueuedIsScheduled
  <1>2. CASE /\ worker[k].pc = "idle" /\ queue # <<>>
             /\ w = Head(queue).wf /\ queue' = Tail(queue)
    <2>1. /\ queue' \in Seq(Entries)
          /\ 1 \in DOMAIN queue /\ queue[1].wf = w
          /\ \A i \in DOMAIN queue' : i + 1 \in DOMAIN queue /\ queue'[i] = queue[i + 1]
          /\ \A i \in DOMAIN queue : i # 1 => i - 1 \in DOMAIN queue' /\ queue'[i - 1] = queue[i]
      BY <1>2, TailLemma DEF IInv, TypeOK
    <2>2. \A j \in Workers : ~Runs(j, w)
      BY <2>1 DEF IInv, QueuedIsScheduled
    <2>3. w \in enqueued /\ w <= born
      BY <2>1 DEF IInv, QueuedIsScheduled, ScheduledIsBorn, InQueue
    <2>4. w \in rows => snap[w].status \in {"queued", "cancelled"} \cup Active
      BY <2>1 DEF IInv, QueueRowsWait
    <2>5. \A i \in DOMAIN queue' : i \in Nat /\ i + 1 # 1
      BY <2>1
    <2>6. \A i, j \in DOMAIN queue : queue[i].wf = queue[j].wf => i = j
      BY DEF IInv, QueuedIsScheduled
    <2>7. \A i \in DOMAIN queue' : queue'[i].wf # w
      BY <2>1, <2>5, <2>6
    <2>8. \A i, j \in DOMAIN queue' : queue'[i].wf = queue'[j].wf => i = j
      BY <2>1, <2>5, <2>6
    <2>9. \A j \in DOMAIN queue : queue[j].wf # w => \E i \in DOMAIN queue' : queue'[i] = queue[j]
      BY <2>1
    <2>. QED
      BY <2>1, <2>2, <2>3, <2>4, <2>7, <2>8, <2>9
  <1>. QED
    BY <1>1, <1>2 DEF Holds

LEMMA RunEnds ==
  ASSUME IInv, mode # "down",
         NEW k \in Workers, NEW w \in Workflow, Holds(k, w),
         snap' \in [Workflow -> Snapshot],
         \A v \in Workflow : v # w => snap'[v] = snap[v],
         w \in rows => snap'[w].status \in Terminal,
         worker' = [worker EXCEPT ![k] = Idle] \/ worker' = [worker EXCEPT ![k] = Dead],
         enqueued' = enqueued \ {w},
         control' = [control EXCEPT ![w] = "absent"],
         UNCHANGED <<rows, born, mode, tombstones, ops, stops>>
  PROVE  IInv'
  <1>. USE DEF IInv, TypeOK
  <1>0. /\ \A j \in Workers : j # k => ~Runs(j, w)
        /\ queue' \in Seq(Entries)
        /\ \A i \in DOMAIN queue' : queue'[i].wf # w
        /\ \A i \in DOMAIN queue' : \E j \in DOMAIN queue : queue[j] = queue'[i]
        /\ \A i, j \in DOMAIN queue' : queue'[i].wf = queue'[j].wf => i = j
        /\ \A j \in DOMAIN queue : queue[j].wf # w => \E i \in DOMAIN queue' : queue'[i] = queue[j]
        /\ w \in enqueued /\ w <= born
    BY HeldLemma
  <1>a. /\ worker' \in [Workers -> WorkerState]
        /\ ~Busy(k)'
        /\ worker'[k].pc \notin {"asr_gate", "sum_gate"}
        /\ \A j \in Workers : j # k => worker'[j] = worker[j]
    <2>1. \A j \in Workers : j # k => worker'[j] = worker[j]
      OBVIOUS
    <2>2. worker'[k] \in {Idle, Dead}
      OBVIOUS
    <2>3. worker' \in [Workers -> WorkerState]
      BY IdleLemma
    <2>. QED
      BY <2>1, <2>2, <2>3, IdleLemma DEF Busy, BusyPc
  <1>b. \A j \in Workers, v \in Workflow :
          (Busy(j)' /\ worker'[j].wf = v) <=> Runs(j, v) /\ v # w
    <2>. SUFFICES ASSUME NEW j \in Workers, NEW v \in Workflow
                  PROVE  (Busy(j)' /\ worker'[j].wf = v) <=> Runs(j, v) /\ v # w
      OBVIOUS
    <2>1. CASE j = k
      <3>1. Runs(k, v) => v = w
        BY DEF Holds, Runs, Busy, BusyPc
      <3>. QED
        BY <2>1, <3>1, <1>a DEF Runs, Busy
    <2>2. CASE j # k
      BY <2>2, <1>a, <1>0 DEF Runs, Busy
    <2>. QED
      BY <2>1, <2>2
  <1>1. TypeOK'
    BY <1>0, <1>a DEF Busy
  <1>2. StatusMatchesExecution'
    <2>1. ASSUME NEW v \in rows, snap'[v].status \in Active
          PROVE  \E j \in Workers : Busy(j)' /\ worker'[j].wf = v
      <3>1. v # w /\ v \in Workflow
        BY <2>1, StatusLemma, RowsLemma
      <3>. QED
        BY <2>1, <3>1, <1>b DEF StatusMatchesExecution
    <2>2. ASSUME NEW j \in Workers, Busy(j)', worker'[j].wf \in rows
          PROVE  worker'[j].pc \in PcOf(snap'[worker'[j].wf].status)
      <3>1. j # k /\ worker'[j] = worker[j] /\ Busy(j)
        BY <2>2, <1>a DEF Busy
      <3>2. worker[j].wf # w /\ worker[j].wf \in Workflow
        BY <3>1, <1>0 DEF Runs
      <3>. QED
        BY <2>2, <3>1, <3>2 DEF StatusMatchesExecution
    <2>. QED
      BY <2>1, <2>2 DEF StatusMatchesExecution, Runs
  <1>3. ExecutionOwnership'
    <2>1. ASSUME NEW j \in Workers, Busy(j)'
          PROVE  /\ j # k /\ worker'[j] = worker[j] /\ Busy(j)
                 /\ worker[j].wf # w /\ worker[j].wf \in Workflow
      BY <2>1, <1>0, <1>a DEF Busy, Runs
    <2>. QED
      BY <2>1 DEF ExecutionOwnership
  <1>4. QueuedIsScheduled'
    <2>1. ASSUME NEW v \in rows, snap'[v].status = "queued"
          PROVE  \E i \in DOMAIN queue' : queue'[i] = Entry(v, snap'[v].recommended)
      <3>1. v # w /\ v \in Workflow
        BY <2>1, StatusLemma, RowsLemma
      <3>2. PICK j \in DOMAIN queue : queue[j] = Entry(v, snap[v].recommended)
        BY <2>1, <3>1 DEF QueuedIsScheduled
      <3>3. queue[j].wf # w
        BY <3>1, <3>2 DEF Entry
      <3>. QED
        BY <3>1, <3>2, <3>3, <1>0
    <2>2. ASSUME NEW i \in DOMAIN queue', NEW j \in Workers
          PROVE  ~(Busy(j)' /\ worker'[j].wf = queue'[i].wf)
      <3>1. PICK l \in DOMAIN queue : queue[l] = queue'[i]
        BY <1>0
      <3>2. queue[l].wf \in Workflow
        BY EntryLemma
      <3>. QED
        BY <3>1, <3>2, <1>b DEF QueuedIsScheduled
    <2>3. \A v \in Workflow :
            v \in enqueued' <=> \/ \E i \in DOMAIN queue' : queue'[i].wf = v
                               \/ \E j \in Workers : Busy(j)' /\ worker'[j].wf = v
      <3>. SUFFICES ASSUME NEW v \in Workflow
                    PROVE  v \in enqueued' <=>
                             \/ \E i \in DOMAIN queue' : queue'[i].wf = v
                             \/ \E j \in Workers : Busy(j)' /\ worker'[j].wf = v
        OBVIOUS
      <3>1. (\E i \in DOMAIN queue' : queue'[i].wf = v) <=> InQueue(v) /\ v # w
        BY <1>0 DEF InQueue
      <3>2. v \in enqueued <=> InQueue(v) \/ \E j \in Workers : Runs(j, v)
        BY DEF QueuedIsScheduled
      <3>. QED
        BY <3>1, <3>2, <1>b
    <2>. QED
      BY <1>0, <2>1, <2>2, <2>3 DEF QueuedIsScheduled, Runs, InQueue
  <1>5. PauseGateConsistent'
    <2>1. ASSUME NEW v \in rows, snap'[v].status = "paused"
          PROVE  control'[v] = "clear"
      <3>1. v # w /\ v \in Workflow
        BY <2>1, RowsLemma DEF Terminal
      <3>. QED
        BY <2>1, <3>1 DEF PauseGateConsistent
    <2>2. ASSUME NEW j \in Workers, worker'[j].pc \in {"asr_gate", "sum_gate"},
                 worker'[j].wf \in rows => snap'[worker'[j].wf].status # "paused"
          PROVE  control'[worker'[j].wf] # "clear"
      <3>1. j # k /\ worker'[j] = worker[j] /\ Busy(j)
        BY <2>2, <1>a DEF Busy, BusyPc
      <3>2. worker[j].wf # w /\ worker[j].wf \in Workflow
        BY <3>1, <1>0 DEF Runs
      <3>. QED
        BY <2>2, <3>1, <3>2 DEF PauseGateConsistent
    <2>. QED
      BY <2>1, <2>2 DEF PauseGateConsistent
  <1>6. QueueRowsWait'
    <2>. SUFFICES ASSUME NEW i \in DOMAIN queue', queue'[i].wf \in rows
                  PROVE  snap'[queue'[i].wf].status \in {"queued", "cancelled"}
      BY DEF QueueRowsWait
    <2>1. PICK l \in DOMAIN queue : queue[l] = queue'[i]
      BY <1>0
    <2>2. queue[l].wf \in Workflow /\ queue[l].wf # w
      BY <1>0, <2>1, EntryLemma
    <2>. QED
      BY <2>1, <2>2 DEF QueueRowsWait
  <1>7. ScheduledIsBorn'
    BY <1>0, <1>a DEF ScheduledIsBorn, Busy
  <1>8. StoppedIsEmpty'
    BY DEF StoppedIsEmpty
  <1>. QED
    BY <1>1, <1>2, <1>3, <1>4, <1>5, <1>6, <1>7, <1>8

-----------------------------------------------------------------------------
(* Shape 3: worker k enters, or stays in, a call for workflow w.           *)

\* Type correctness of the worker that enters the call.
LEMMA EnteringWorker ==
  ASSUME worker \in [Workers -> WorkerState],
         NEW k \in Workers, NEW w \in Workflow,
         NEW pc \in BusyPc, NEW attempt \in Nat, NEW calls \in Nat,
         worker' = [worker EXCEPT ![k] =
                      [pc |-> pc, wf |-> w, attempt |-> attempt, calls |-> calls]]
  PROVE  /\ worker' \in [Workers -> WorkerState]
         /\ worker'[k].pc = pc /\ worker'[k].wf = w /\ worker'[k].attempt = attempt
         /\ \A j \in Workers : j # k => worker'[j] = worker[j]
  <1>1. [pc |-> pc, wf |-> w, attempt |-> attempt, calls |-> calls] \in WorkerState
    BY SupervisorAssumption DEF WorkerState, Workflow
  <1>. QED
    BY <1>1

LEMMA RunEnters ==
  ASSUME IInv, mode # "down",
         NEW k \in Workers, NEW w \in rows, Holds(k, w),
         NEW n \in Snapshot,
         snap' = [snap EXCEPT ![w] = n],
         n.attempt = snap[w].attempt,
         n.status \in {"running", "waiting_for_secret", "cancelled", "paused"},
         n.status = "paused" => snap[w].status = "paused",
         NEW pc \in {"asr", "sum", "asr_secret", "sum_secret"}, pc \in PcOf(n.status),
         NEW calls \in Nat,
         worker' = [worker EXCEPT ![k] =
                      [pc |-> pc, wf |-> w, attempt |-> n.attempt, calls |-> calls]],
         UNCHANGED <<rows, born, mode, enqueued, control, tombstones, ops, stops>>
  PROVE  IInv'
  <1>. w \in Workflow
    BY RowsLemma DEF IInv
  <1>e. \A i \in DOMAIN queue : queue[i].wf \in Workflow
    BY EntryLemma DEF IInv
  <1>. USE DEF IInv, TypeOK
  <1>0. /\ \A j \in Workers : j # k => ~Runs(j, w)
        /\ queue' \in Seq(Entries)
        /\ \A i \in DOMAIN queue' : queue'[i].wf # w
        /\ \A i \in DOMAIN queue' : \E j \in DOMAIN queue : queue[j] = queue'[i]
        /\ \A i, j \in DOMAIN queue' : queue'[i].wf = queue'[j].wf => i = j
        /\ \A j \in DOMAIN queue : queue[j].wf # w => \E i \in DOMAIN queue' : queue'[i] = queue[j]
        /\ w \in enqueued /\ w <= born
    BY HeldLemma
  <1>a. /\ worker' \in [Workers -> WorkerState]
        /\ worker'[k].pc = pc /\ worker'[k].wf = w /\ worker'[k].attempt = n.attempt
        /\ \A j \in Workers : j # k => worker'[j] = worker[j]
    <2>1. pc \in BusyPc
      BY DEF BusyPc
    <2>2. n.attempt \in Nat
      BY DEF Snapshot
    <2>. QED
      BY <2>1, <2>2, EnteringWorker
  <1>b. \A j \in Workers, v \in Workflow :
          (Busy(j)' /\ worker'[j].wf = v) <=> (Runs(j, v) /\ v # w) \/ (j = k /\ v = w)
    <2>. SUFFICES ASSUME NEW j \in Workers, NEW v \in Workflow
                  PROVE  (Busy(j)' /\ worker'[j].wf = v)
                           <=> (Runs(j, v) /\ v # w) \/ (j = k /\ v = w)
      OBVIOUS
    <2>1. CASE j = k
      <3>1. Runs(k, v) => v = w
        BY DEF Holds, Runs, Busy, BusyPc
      <3>2. Busy(k)'
        BY <1>a DEF Busy, BusyPc
      <3>. QED
        BY <2>1, <3>1, <3>2, <1>a DEF Runs, Busy
    <2>2. CASE j # k
      BY <2>2, <1>a, <1>0 DEF Runs, Busy
    <2>. QED
      BY <2>1, <2>2
  <1>c. ASSUME NEW j \in Workers, Busy(j)', j # k
        PROVE  /\ worker'[j] = worker[j] /\ Busy(j)
               /\ worker[j].wf # w /\ worker[j].wf \in Workflow
    BY <1>c, <1>0, <1>a DEF Busy, Runs
  <1>d. /\ \A v \in Workflow : v # w => snap'[v] = snap[v]
        /\ snap'[w] = n
        /\ snap' \in [Workflow -> Snapshot]
    OBVIOUS
  <1>1. TypeOK'
    BY <1>0, <1>a DEF Busy
  <1>2. StatusMatchesExecution'
    <2>1. ASSUME NEW v \in rows, snap'[v].status \in Active
          PROVE  \E j \in Workers : Busy(j)' /\ worker'[j].wf = v
      <3>1. v \in Workflow
        BY RowsLemma
      <3>2. CASE v = w
        BY <3>2, <1>b
      <3>3. CASE v # w
        BY <2>1, <3>1, <3>3, <1>b, <1>d DEF StatusMatchesExecution
      <3>. QED
        BY <3>2, <3>3
    <2>2. ASSUME NEW j \in Workers, Busy(j)', worker'[j].wf \in rows
          PROVE  worker'[j].pc \in PcOf(snap'[worker'[j].wf].status)
      <3>1. CASE j = k
        BY <3>1, <1>a, <1>d
      <3>2. CASE j # k
        BY <2>2, <3>2, <1>c, <1>d DEF StatusMatchesExecution
      <3>. QED
        BY <3>1, <3>2
    <2>. QED
      BY <2>1, <2>2 DEF StatusMatchesExecution, Runs
  <1>3. ExecutionOwnership'
    <2>1. ASSUME NEW i \in Workers, NEW j \in Workers, Busy(i)', Busy(j)',
                 worker'[i].wf = worker'[j].wf
          PROVE  i = j
      <3>1. CASE i # k /\ j # k
        BY <2>1, <3>1, <1>c DEF ExecutionOwnership
      <3>2. CASE i = k \/ j = k
        BY <2>1, <3>2, <1>a, <1>c
      <3>. QED
        BY <3>1, <3>2
    <2>2. ASSUME NEW j \in Workers, Busy(j)', worker'[j].wf \in rows
          PROVE  worker'[j].attempt = snap'[worker'[j].wf].attempt
      <3>1. CASE j = k
        BY <3>1, <1>a, <1>d
      <3>2. CASE j # k
        BY <2>2, <3>2, <1>c, <1>d DEF ExecutionOwnership
      <3>. QED
        BY <3>1, <3>2
    <2>. QED
      BY <2>1, <2>2 DEF ExecutionOwnership
  <1>4. QueuedIsScheduled'
    <2>1. ASSUME NEW v \in rows, snap'[v].status = "queued"
          PROVE  \E i \in DOMAIN queue' : queue'[i] = Entry(v, snap'[v].recommended)
      <3>1. v # w /\ v \in Workflow
        BY <2>1, <1>d, RowsLemma
      <3>2. PICK j \in DOMAIN queue : queue[j] = Entry(v, snap[v].recommended)
        BY <2>1, <3>1, <1>d DEF QueuedIsScheduled
      <3>3. queue[j].wf # w
        BY <3>1, <3>2 DEF Entry
      <3>. QED
        BY <3>1, <3>2, <3>3, <1>0, <1>d
    <2>2. ASSUME NEW i \in DOMAIN queue', NEW j \in Workers
          PROVE  ~(Busy(j)' /\ worker'[j].wf = queue'[i].wf)
      <3>1. PICK l \in DOMAIN queue : queue[l] = queue'[i]
        BY <1>0
      <3>2. queue[l].wf \in Workflow /\ queue[l].wf # w
        BY <3>1, <1>0, <1>e
      <3>3. ~Runs(j, queue[l].wf)
        BY DEF QueuedIsScheduled
      <3>. QED
        BY <3>1, <3>2, <3>3, <1>a, <1>c DEF Runs
    <2>3. \A v \in Workflow :
            v \in enqueued' <=> \/ \E i \in DOMAIN queue' : queue'[i].wf = v
                               \/ \E j \in Workers : Busy(j)' /\ worker'[j].wf = v
      <3>. SUFFICES ASSUME NEW v \in Workflow
                    PROVE  v \in enqueued' <=>
                             \/ \E i \in DOMAIN queue' : queue'[i].wf = v
                             \/ \E j \in Workers : Busy(j)' /\ worker'[j].wf = v
        OBVIOUS
      <3>1. (\E i \in DOMAIN queue' : queue'[i].wf = v) <=> InQueue(v) /\ v # w
        BY <1>0, SMTT(30) DEF InQueue
      <3>2. v \in enqueued <=> InQueue(v) \/ \E j \in Workers : Runs(j, v)
        BY DEF QueuedIsScheduled
      <3>. QED
        BY <3>1, <3>2, <1>b, <1>0
    <2>. QED
      BY <1>0, <2>1, <2>2, <2>3 DEF QueuedIsScheduled, Runs, InQueue
  <1>5. PauseGateConsistent'
    <2>1. ASSUME NEW v \in rows, snap'[v].status = "paused"
          PROVE  control'[v] = "clear"
      BY <2>1, <1>d, RowsLemma DEF PauseGateConsistent
    <2>2. ASSUME NEW j \in Workers, worker'[j].pc \in {"asr_gate", "sum_gate"},
                 worker'[j].wf \in rows => snap'[worker'[j].wf].status # "paused"
          PROVE  control'[worker'[j].wf] # "clear"
      <3>1. j # k /\ Busy(j)'
        BY <2>2, <1>a DEF Busy, BusyPc
      <3>. QED
        BY <2>2, <3>1, <1>c, <1>d DEF PauseGateConsistent
    <2>. QED
      BY <2>1, <2>2 DEF PauseGateConsistent
  <1>6. QueueRowsWait'
    <2>. SUFFICES ASSUME NEW i \in DOMAIN queue', queue'[i].wf \in rows
                  PROVE  snap'[queue'[i].wf].status \in {"queued", "cancelled"}
      BY DEF QueueRowsWait
    <2>1. PICK l \in DOMAIN queue : queue[l] = queue'[i]
      BY <1>0
    <2>2. queue[l].wf \in Workflow /\ queue[l].wf # w
      BY <1>0, <1>e, <2>1
    <2>. QED
      BY <2>1, <2>2, <1>d DEF QueueRowsWait
  <1>7. ScheduledIsBorn'
    <2>1. \A i \in DOMAIN queue' : queue'[i].wf <= born'
      BY <1>0 DEF ScheduledIsBorn
    <2>2. ASSUME NEW j \in Workers, Busy(j)'
          PROVE  worker'[j].wf <= born'
      BY <2>2, <1>0, <1>a, <1>c DEF ScheduledIsBorn
    <2>. QED
      BY <2>1, <2>2 DEF ScheduledIsBorn
  <1>8. StoppedIsEmpty'
    BY DEF StoppedIsEmpty
  <1>. QED
    BY <1>1, <1>2, <1>3, <1>4, <1>5, <1>6, <1>7, <1>8

-----------------------------------------------------------------------------
(* Shape 4: the process goes away.                                         *)

LEMMA ProcessGoes ==
  ASSUME IInv, snap' \in [Workflow -> Snapshot],
         UNCHANGED <<rows, born, ops>>, ProcessGone
  PROVE  IInv'
  <1>. USE DEF IInv, TypeOK, ProcessGone
  <1>1. worker' \in [Workers -> WorkerState] /\ \A k \in Workers : worker'[k] = Idle /\ ~Busy(k)'
    BY IdleLemma DEF Busy
  <1>2. queue' = <<>> /\ DOMAIN queue' = {} /\ queue' \in Seq(Entries)
    OBVIOUS
  <1>3. TypeOK'
    BY <1>1, <1>2
  <1>4. StatusMatchesExecution' /\ ExecutionOwnership' /\ ScheduledIsBorn' /\ QueueRowsWait'
    BY <1>1, <1>2 DEF StatusMatchesExecution, ExecutionOwnership, ScheduledIsBorn, QueueRowsWait
  <1>5. QueuedIsScheduled'
    BY <1>1, <1>2 DEF QueuedIsScheduled, Runs, InQueue
  <1>6. PauseGateConsistent'
    BY <1>1 DEF PauseGateConsistent, Idle
  <1>7. StoppedIsEmpty'
    BY DEF StoppedIsEmpty
  <1>. QED
    BY <1>3, <1>4, <1>5, <1>6, <1>7

-----------------------------------------------------------------------------
(* Worker steps that take an entry of the queue. *)

\* Of a worker that finds the queue non-empty.
LEMMA TakesLemma ==
  ASSUME IInv, NEW k \in Workers, Takes(k), queue' = Tail(queue)
  PROVE  /\ Head(queue).wf \in Workflow
         /\ Holds(k, Head(queue).wf)
         /\ mode # "down"
  <1>1. Head(queue) \in Entries
    BY DEF Takes, IInv, TypeOK
  <1>. QED
    BY <1>1 DEF Entries, Takes, Holds

\* The stored row of a workflow is a snapshot.
LEMMA RowLemma ==
  ASSUME TypeOK, NEW w \in Workflow
  PROVE  snap[w] \in Snapshot /\ snap \in [Workflow -> Snapshot]
  BY DEF TypeOK

LEMMA TakeSkippedInv ==
  ASSUME IInv, NEW k \in Workers, TakeSkipped(k)
  PROVE  IInv'
  <1>. DEFINE w == Head(queue).wf
  <1>1. Takes(k) /\ queue' = Tail(queue) /\ ~Runnable(w) /\ Release(k, w)
    BY DEF TakeSkipped
  <1>2. w \in Workflow /\ Holds(k, w) /\ mode # "down"
    BY <1>1, TakesLemma
  <1>3. UNCHANGED <<rows, snap, born, mode, tombstones, ops, stops>>
    BY DEF TakeSkipped, registry
  <1>4. w \in rows => snap[w].status = "cancelled"
    <2>1. 1 \in DOMAIN queue /\ queue[1].wf = w
      BY <1>1 DEF Takes, IInv, TypeOK
    <2>. QED
      BY <2>1, <1>1 DEF IInv, QueueRowsWait, Runnable
  <1>5. w \in rows => snap'[w].status \in Terminal
    BY <1>3, <1>4 DEF Terminal
  <1>6. snap' \in [Workflow -> Snapshot]
    BY <1>3 DEF IInv, TypeOK
  <1>. HIDE DEF w
  <1>. QED
    BY <1>1, <1>2, <1>3, <1>5, <1>6, RunEnds DEF Release

\* The commits before the first await of a run keep the attempt and leave the
\* workflow running.
LEMMA PreparedLemma ==
  ASSUME NEW s \in Snapshot, NEW n \in {Started(s), Planned(s), Reused(s), Writing(s)}
  PROVE  /\ n \in Snapshot
         /\ n.sequence > s.sequence
         /\ n.status = "running"
         /\ n.attempt = s.attempt
         /\ n.recommended = s.recommended
         /\ n.transcript = s.transcript
  <1>0. /\ "running" \in Status /\ "preparing" \in Stage /\ "transcript_ready" \in Stage
        /\ "writing_final" \in Stage
    BY DEF Status, Stage
  <1>1. /\ Started(s) \in Snapshot /\ Started(s).sequence > s.sequence
        /\ Started(s).status = "running" /\ Started(s).attempt = s.attempt
        /\ Started(s).recommended = s.recommended /\ Started(s).transcript = s.transcript
    BY <1>0, TransitionLemma DEF Started
  <1>2. /\ Planned(s) \in Snapshot /\ Planned(s).sequence > Started(s).sequence
        /\ Planned(s).status = "running" /\ Planned(s).attempt = s.attempt
        /\ Planned(s).recommended = s.recommended /\ Planned(s).transcript = s.transcript
    BY <1>1, TouchLemma DEF Planned
  <1>3. /\ Reused(s) \in Snapshot /\ Reused(s).sequence > Planned(s).sequence
        /\ Reused(s).status = "running" /\ Reused(s).attempt = s.attempt
        /\ Reused(s).recommended = s.recommended /\ Reused(s).transcript = s.transcript
    BY <1>0, <1>2, TransitionLemma DEF Reused
  <1>4. /\ Writing(s) \in Snapshot /\ Writing(s).sequence > Reused(s).sequence
        /\ Writing(s).status = "running" /\ Writing(s).attempt = s.attempt
        /\ Writing(s).recommended = s.recommended /\ Writing(s).transcript = s.transcript
    BY <1>0, <1>3, TransitionLemma DEF Writing
  <1>5. \A m \in Snapshot : m.sequence \in Nat
    BY DEF Snapshot
  <1>. QED
    BY <1>1, <1>2, <1>3, <1>4, <1>5

\* What BeginCall stores, and the await it leaves the worker in.
CallEntered(k, w, base, calls) ==
  \E n \in Snapshot, pc \in {"asr", "sum", "asr_secret", "sum_secret"} :
    /\ snap' = [snap EXCEPT ![w] = n]
    /\ n.attempt = base.attempt
    /\ \/ n.status = "waiting_for_secret" /\ pc \in {"asr_secret", "sum_secret"}
       \/ n.status = base.status /\ pc \in {"asr", "sum"}
    /\ n.transcript = base.transcript
    /\ worker' = [worker EXCEPT ![k] =
                    [pc |-> pc, wf |-> w, attempt |-> n.attempt, calls |-> calls]]

LEMMA BeginCallLemma ==
  ASSUME snap \in [Workflow -> Snapshot], NEW k, NEW w \in Workflow,
         NEW base \in Snapshot, NEW stage \in CallStage, NEW calls \in Nat,
         base.sequence > snap[w].sequence \/ base = snap[w],
         BeginCall(k, w, base, stage, calls)
  PROVE  CallEntered(k, w, base, calls)
  <1>1. stage \in Stage /\ "waiting_for_secret" \in Status
    BY DEF CallStage, Stage, Status
  <1>2. CASE NeedsSecret(w, stage)
    <2>. DEFINE n == WaitingForSecret(base, stage)
    <2>1. /\ n \in Snapshot /\ n.sequence > base.sequence
          /\ n.status = "waiting_for_secret" /\ n.attempt = base.attempt
          /\ n.recommended = base.recommended /\ n.transcript = base.transcript
      BY <1>1, TransitionLemma DEF WaitingForSecret
    <2>2. n.sequence > snap[w].sequence
      BY <2>1 DEF Snapshot
    <2>3. snap' = [snap EXCEPT ![w] = n]
      <3>1. Commit(w, n)
        BY <1>2 DEF BeginCall
      <3>. HIDE DEF n
      <3>. QED
        BY <2>1, <2>2, <3>1, CommitLemma
    <2>4. SecretPc[stage] \in {"asr_secret", "sum_secret"}
      BY DEF SecretPc, CallStage
    <2>5. worker' = [worker EXCEPT ![k] =
                       [pc |-> SecretPc[stage], wf |-> w, attempt |-> n.attempt, calls |-> calls]]
      BY <1>2, <2>1 DEF BeginCall
    <2>. HIDE DEF n
    <2>. QED
      BY <2>1, <2>3, <2>4, <2>5 DEF CallEntered
  <1>3. CASE ~NeedsSecret(w, stage)
    <2>1. snap' = [snap EXCEPT ![w] = base]
      BY <1>3, CommitLemma DEF BeginCall
    <2>2. CallPc[stage] \in {"asr", "sum"}
      BY DEF CallPc, CallStage
    <2>3. worker' = [worker EXCEPT ![k] =
                       [pc |-> CallPc[stage], wf |-> w, attempt |-> base.attempt, calls |-> calls]]
      BY <1>3 DEF BeginCall
    <2>. QED
      BY <2>1, <2>2, <2>3 DEF CallEntered
  <1>. QED
    BY <1>2, <1>3

\* BeginCall from a running row keeps the invariant.
LEMMA BeginCallInv ==
  ASSUME IInv, mode # "down",
         NEW k \in Workers, NEW w \in rows, Holds(k, w),
         NEW base \in Snapshot, NEW stage \in CallStage, NEW calls \in Nat,
         base.sequence > snap[w].sequence \/ base = snap[w],
         base.attempt = snap[w].attempt,
         base.status \in {"running", "cancelled", "paused"},
         base.status = "paused" => snap[w].status = "paused",
         BeginCall(k, w, base, stage, calls),
         UNCHANGED <<rows, born, mode, enqueued, control, tombstones, ops, stops>>
  PROVE  IInv'
  <1>. w \in Workflow
    BY RowsLemma DEF IInv
  <1>1. CallEntered(k, w, base, calls)
    BY BeginCallLemma DEF IInv, TypeOK
  <1>2. PICK n \in Snapshot, pc \in {"asr", "sum", "asr_secret", "sum_secret"} :
           /\ snap' = [snap EXCEPT ![w] = n]
           /\ n.attempt = base.attempt
           /\ \/ n.status = "waiting_for_secret" /\ pc \in {"asr_secret", "sum_secret"}
              \/ n.status = base.status /\ pc \in {"asr", "sum"}
           /\ worker' = [worker EXCEPT ![k] =
                           [pc |-> pc, wf |-> w, attempt |-> n.attempt, calls |-> calls]]
    BY <1>1 DEF CallEntered
  <1>3. CASE n.status = "waiting_for_secret" /\ pc \in {"asr_secret", "sum_secret"}
    <2>1. n.status \in {"waiting_for_secret"} /\ n.status # "paused"
      BY <1>3
    <2>2. pc \in PcOf(n.status)
      BY <1>3, PcOfLemma
    <2>. QED
      BY <1>2, <2>1, <2>2, RunEnters
  <1>4. CASE n.status = base.status /\ pc \in {"asr", "sum"}
    <2>1. n.status \in {"running", "cancelled", "paused"}
      BY <1>4
    <2>2. pc \in PcOf(n.status)
      BY <1>4, <2>1, PcOfLemma
    <2>3. n.status = "paused" => snap[w].status = "paused"
      BY <1>4
    <2>. QED
      BY <1>2, <2>1, <2>2, <2>3, RunEnters
  <1>. QED
    BY <1>2, <1>3, <1>4

\* A run that ends with a commit keeps the invariant.
LEMMA EndInv ==
  ASSUME IInv, mode # "down",
         NEW k \in Workers, NEW w \in rows, Holds(k, w),
         NEW n \in Snapshot, n.sequence > snap[w].sequence \/ n = snap[w],
         n.status \in Terminal,
         Commit(w, n), Release(k, w),
         UNCHANGED <<rows, born, mode, tombstones, ops, stops>>
  PROVE  IInv'
  <1>. w \in Workflow
    BY RowsLemma DEF IInv
  <1>1. snap' = [snap EXCEPT ![w] = n] /\ snap \in [Workflow -> Snapshot]
    BY CommitLemma DEF IInv, TypeOK
  <1>2. /\ snap' \in [Workflow -> Snapshot]
        /\ snap'[w].status \in Terminal
        /\ \A v \in Workflow : v # w => snap'[v] = snap[v]
    BY <1>1
  <1>. QED
    BY <1>2, RunEnds DEF Release

\* Both stages with a call are stages.
LEMMA CallStageLemma ==
  /\ "transcribing" \in CallStage /\ "summarizing" \in CallStage
  /\ CallStage \subseteq Stage /\ "running" \in Status /\ "writing_final" \in Stage
  BY DEF CallStage, Stage, Status

LEMMA TakeTranscribeInv ==
  ASSUME IInv, NEW k \in Workers, TakeTranscribe(k)
  PROVE  IInv'
  <1>. DEFINE w == Head(queue).wf
              base == Transition(Planned(snap[w]), "running", "transcribing")
  <1>1. Takes(k) /\ queue' = Tail(queue) /\ Runnable(w)
    BY DEF TakeTranscribe
  <1>2. w \in Workflow /\ Holds(k, w) /\ mode # "down" /\ w \in rows
    BY <1>1, TakesLemma DEF Runnable
  <1>3. snap[w] \in Snapshot
    BY <1>2, RowLemma DEF IInv
  <1>4. Planned(snap[w]) \in Snapshot /\ Planned(snap[w]).attempt = snap[w].attempt
        /\ Planned(snap[w]).sequence > snap[w].sequence
    BY <1>3, PreparedLemma
  <1>5. /\ base \in Snapshot /\ base.attempt = snap[w].attempt /\ base.status = "running"
        /\ base.sequence > Planned(snap[w]).sequence
    BY <1>4, TransitionLemma, CallStageLemma
  <1>6. base.sequence > snap[w].sequence
    BY <1>3, <1>4, <1>5 DEF Snapshot
  <1>7. BeginCall(k, w, base, "transcribing", 0)
        /\ UNCHANGED <<rows, born, mode, enqueued, control, tombstones, ops, stops>>
    BY DEF TakeTranscribe
  <1>. HIDE DEF w, base
  <1>. QED
    BY <1>2, <1>5, <1>6, <1>7, BeginCallInv, CallStageLemma

LEMMA TakeSummarizeInv ==
  ASSUME IInv, NEW k \in Workers, TakeSummarize(k)
  PROVE  IInv'
  <1>. DEFINE w == Head(queue).wf
              base == Transition(Reused(snap[w]), "running", "summarizing")
  <1>1. Takes(k) /\ queue' = Tail(queue) /\ Runnable(w)
    BY DEF TakeSummarize
  <1>2. w \in Workflow /\ Holds(k, w) /\ mode # "down" /\ w \in rows
    BY <1>1, TakesLemma DEF Runnable
  <1>3. snap[w] \in Snapshot
    BY <1>2, RowLemma DEF IInv
  <1>4. Reused(snap[w]) \in Snapshot /\ Reused(snap[w]).attempt = snap[w].attempt
        /\ Reused(snap[w]).sequence > snap[w].sequence
    BY <1>3, PreparedLemma
  <1>5. /\ base \in Snapshot /\ base.attempt = snap[w].attempt /\ base.status = "running"
        /\ base.sequence > Reused(snap[w]).sequence
    BY <1>4, TransitionLemma, CallStageLemma
  <1>6. base.sequence > snap[w].sequence
    BY <1>3, <1>4, <1>5 DEF Snapshot
  <1>7. BeginCall(k, w, base, "summarizing", 1)
        /\ UNCHANGED <<rows, born, mode, enqueued, control, tombstones, ops, stops>>
    BY DEF TakeSummarize
  <1>. HIDE DEF w, base
  <1>. QED
    BY <1>2, <1>5, <1>6, <1>7, BeginCallInv, CallStageLemma

LEMMA TakeWriteFinalInv ==
  ASSUME IInv, NEW k \in Workers, TakeWriteFinal(k)
  PROVE  IInv'
  <1>. DEFINE w == Head(queue).wf
              t == Writing(snap[w])
              n == Completed(t)
  <1>1. Takes(k) /\ queue' = Tail(queue) /\ Runnable(w)
    BY DEF TakeWriteFinal
  <1>2. w \in Workflow /\ Holds(k, w) /\ mode # "down" /\ w \in rows
    BY <1>1, TakesLemma DEF Runnable
  <1>3. snap[w] \in Snapshot
    BY <1>2, RowLemma DEF IInv
  <1>4. t \in Snapshot /\ t.sequence > snap[w].sequence
    BY <1>3, PreparedLemma
  <1>5. n \in Snapshot /\ n.sequence > t.sequence /\ n.status \in Terminal
    BY <1>4, CompletedLemma DEF Terminal
  <1>6. Commit(w, n) /\ Release(k, w)
        /\ UNCHANGED <<rows, born, mode, tombstones, ops, stops>>
    BY DEF TakeWriteFinal
  <1>. HIDE DEF w, t, n
  <1>7. n.sequence > snap[w].sequence
    BY <1>3, <1>4, <1>5 DEF Snapshot
  <1>. QED
    BY <1>2, <1>5, <1>6, <1>7, EndInv

\* A failed snapshot of a newer snapshot is newer and terminal.
LEMMA FailedAfter ==
  ASSUME NEW s \in Snapshot, NEW m \in Snapshot, m.sequence > s.sequence \/ m = s
  PROVE  /\ Failed(m) \in Snapshot
         /\ Failed(m).sequence > s.sequence
         /\ Failed(m).status \in Terminal
  BY FailedLemma DEF Snapshot, Terminal

LEMMA TakeFailsInv ==
  ASSUME IInv, NEW k \in Workers, TakeFails(k)
  PROVE  IInv'
  <1>. DEFINE w == Head(queue).wf
  <1>1. Takes(k) /\ queue' = Tail(queue) /\ Runnable(w)
    BY DEF TakeFails
  <1>2. w \in Workflow /\ Holds(k, w) /\ mode # "down" /\ w \in rows
    BY <1>1, TakesLemma DEF Runnable
  <1>3. snap[w] \in Snapshot
    BY <1>2, RowLemma DEF IInv
  <1>4. PICK s \in Prepared(snap[w], Head(queue).from) : Commit(w, Failed(s))
    BY DEF TakeFails
  <1>5. s \in Snapshot /\ s.sequence > snap[w].sequence
    BY <1>3, PreparedLemma DEF Prepared
  <1>6. /\ Failed(s) \in Snapshot /\ Failed(s).sequence > snap[w].sequence
        /\ Failed(s).status \in Terminal
    BY <1>3, <1>5, FailedAfter
  <1>7. Release(k, w) /\ UNCHANGED <<rows, born, mode, tombstones, ops, stops>>
    BY DEF TakeFails
  <1>. HIDE DEF w
  <1>. QED
    BY <1>2, <1>4, <1>6, <1>7, EndInv

-----------------------------------------------------------------------------
(* Steps of a worker that is executing a workflow. *)

\* A busy worker holds its workflow.
LEMMA BusyLemma ==
  ASSUME IInv, NEW k \in Workers, Busy(k), UNCHANGED queue
  PROVE  /\ worker[k].wf \in Workflow
         /\ Holds(k, worker[k].wf)
         /\ worker[k].calls \in Nat
         /\ worker[k].pc \in BusyPc
         /\ worker[k].wf \in rows =>
              /\ worker[k].pc \in PcOf(snap[worker[k].wf].status)
              /\ worker[k].attempt = snap[worker[k].wf].attempt
              /\ snap[worker[k].wf] \in Snapshot
              /\ snap[worker[k].wf].status \in Active \cup {"cancelled"}
  <1>1. worker[k].wf \in Workflow /\ Holds(k, worker[k].wf)
    BY DEF IInv, TypeOK, Holds, Runs
  <1>2. worker[k].calls \in Nat
    BY DEF IInv, TypeOK, WorkerState
  <1>3. ASSUME worker[k].wf \in rows
        PROVE  /\ worker[k].pc \in PcOf(snap[worker[k].wf].status)
               /\ worker[k].attempt = snap[worker[k].wf].attempt
    BY <1>3 DEF IInv, StatusMatchesExecution, ExecutionOwnership
  <1>4. snap[worker[k].wf] \in Snapshot
    BY <1>1, RowLemma DEF IInv
  <1>5. ASSUME worker[k].wf \in rows
        PROVE  snap[worker[k].wf].status \in Active \cup {"cancelled"}
    <2>. DEFINE st == snap[worker[k].wf].status
    <2>1. st \in Status
      BY <1>4 DEF Snapshot
    <2>2. PcOf(st) # {}
      BY <1>3, <1>5
    <2>. HIDE DEF st
    <2>3. st \notin {"queued", "completed", "failed", "interrupted"}
      BY <2>2, PcOfLemma
    <2>4. st \in Active \cup {"cancelled"}
      BY <2>1, <2>3 DEF Status, Active
    <2>. QED
      BY <2>4 DEF st
  <1>. QED
    BY <1>1, <1>2, <1>3, <1>4, <1>5 DEF Busy

\* A worker that is not waiting for a credential says running, paused or cancelled.
LEMMA CallStatusLemma ==
  ASSUME IInv, NEW k \in Workers, UNCHANGED queue,
         worker[k].pc \in {"asr", "sum", "asr_gate", "sum_gate"},
         worker[k].wf \in rows
  PROVE  snap[worker[k].wf].status \in {"running", "paused", "cancelled"}
  <1>. DEFINE st == snap[worker[k].wf].status
  <1>1. st \in Active \cup {"cancelled"} /\ worker[k].pc \in PcOf(st)
    BY BusyLemma DEF Busy, BusyPc
  <1>. HIDE DEF st
  <1>2. st # "waiting_for_secret"
    BY <1>1, PcOfLemma
  <1>3. st \in {"running", "paused", "cancelled"}
    BY <1>1, <1>2 DEF Active
  <1>. QED
    BY <1>3 DEF st

LEMMA NextCallInv ==
  ASSUME IInv, NEW k \in Workers, NextCall(k)
  PROVE  IInv'
  <1>. DEFINE w == worker[k].wf
              base == snap[w]
  <1>1. /\ mode # "down" /\ worker[k].pc = "sum" /\ UNCHANGED queue
        /\ UNCHANGED <<rows, born, mode, tombstones, ops, stops>>
    BY DEF NextCall
  <1>2. /\ w \in Workflow /\ Holds(k, w) /\ worker[k].calls + 1 \in Nat
        /\ Busy(k)
    BY <1>1, BusyLemma DEF Busy, BusyPc
  <1>3. CASE w \in rows
    <2>1. base \in Snapshot /\ base.status \in {"running", "paused", "cancelled"}
      BY <1>1, <1>2, <1>3, BusyLemma, CallStatusLemma
    <2>2. /\ BeginCall(k, w, base, "summarizing", worker[k].calls + 1)
          /\ UNCHANGED <<enqueued, control>>
      BY <1>3 DEF NextCall
    <2>3. base = snap[w] /\ base.attempt = snap[w].attempt
          /\ (base.status = "paused" => snap[w].status = "paused")
      OBVIOUS
    <2>. HIDE DEF w, base
    <2>. QED
      BY <1>1, <1>2, <1>3, <2>1, <2>2, <2>3, BeginCallInv, CallStageLemma
  <1>4. CASE w \notin rows
    <2>1. UNCHANGED snap /\ Release(k, w)
      BY <1>4 DEF NextCall
    <2>2. snap' \in [Workflow -> Snapshot]
      BY <2>1 DEF IInv, TypeOK
    <2>. HIDE DEF w
    <2>. QED
      BY <1>1, <1>2, <1>4, <2>1, <2>2, RunEnds DEF Release
  <1>. QED
    BY <1>3, <1>4

\* A worker that reaches a gate is in a call or in a gate.
LEMMA GateLemma ==
  ASSUME NEW k \in Workers, NEW stage \in CallStage, ReachesGate(k, stage)
  PROVE  /\ mode # "down" /\ worker[k].pc \in {"asr", "sum", "asr_gate", "sum_gate"}
         /\ Busy(k)
         /\ worker[k].pc = GatePc[stage] => control[worker[k].wf] # "clear"
  BY DEF ReachesGate, CallStage, CallPc, GatePc, Busy, BusyPc

LEMMA GateAbandonsInv ==
  ASSUME IInv, NEW k \in Workers, NEW stage \in CallStage, GateAbandons(k, stage)
  PROVE  IInv'
  <1>. DEFINE w == worker[k].wf
  <1>1. /\ ReachesGate(k, stage) /\ UNCHANGED snap /\ UNCHANGED queue /\ Release(k, w)
        /\ UNCHANGED <<rows, born, mode, tombstones, ops, stops>>
        /\ w \in rows => snap[w].status = "cancelled"
    BY DEF GateAbandons
  <1>2. mode # "down" /\ w \in Workflow /\ Holds(k, w)
    BY <1>1, GateLemma, BusyLemma
  <1>3. snap' \in [Workflow -> Snapshot] /\ (w \in rows => snap'[w].status \in Terminal)
    BY <1>1 DEF IInv, TypeOK, Terminal
  <1>. HIDE DEF w
  <1>. QED
    BY <1>1, <1>2, <1>3, RunEnds DEF Release

LEMMA GateCancelsInv ==
  ASSUME IInv, NEW k \in Workers, NEW stage \in CallStage, GateCancels(k, stage)
  PROVE  IInv'
  <1>. DEFINE w == worker[k].wf
              n == Cancelled(snap[w])
  <1>1. /\ ReachesGate(k, stage) /\ w \in rows /\ Commit(w, n) /\ Release(k, w)
        /\ UNCHANGED <<rows, born, mode, queue, tombstones, ops, stops>>
    BY DEF GateCancels
  <1>2. mode # "down" /\ w \in Workflow /\ Holds(k, w) /\ snap[w] \in Snapshot
    BY <1>1, GateLemma, BusyLemma
  <1>3. /\ n \in Snapshot /\ (n.sequence > snap[w].sequence \/ n = snap[w])
        /\ n.status \in Terminal
    BY <1>2, CancelledLemma DEF Terminal
  <1>. HIDE DEF w, n
  <1>. QED
    BY <1>1, <1>2, <1>3, EndInv

\* The row of a worker that passes a gate says running.
LEMMA PassesLemma ==
  ASSUME IInv, NEW k \in Workers, NEW stage \in CallStage, Passes(k, stage), UNCHANGED queue
  PROVE  /\ mode # "down" /\ worker[k].wf \in Workflow /\ worker[k].wf \in rows
         /\ Holds(k, worker[k].wf)
         /\ snap[worker[k].wf] \in Snapshot
         /\ snap[worker[k].wf].status = "running"
  <1>1. /\ ReachesGate(k, stage) /\ worker[k].wf \in rows
        /\ snap[worker[k].wf].status \notin {"cancelled", "paused"}
    BY DEF Passes
  <1>2. /\ mode # "down" /\ Busy(k)
        /\ worker[k].pc \in {"asr", "sum", "asr_gate", "sum_gate"}
    BY <1>1, GateLemma
  <1>. QED
    BY <1>1, <1>2, BusyLemma, CallStatusLemma

LEMMA PublishTranscriptInv ==
  ASSUME IInv, NEW k \in Workers, PublishTranscript(k)
  PROVE  IInv'
  <1>. DEFINE w == worker[k].wf
              r == TranscriptReady(snap[w])
              base == Transition(r, "running", "summarizing")
  <1>1. /\ Passes(k, "transcribing") /\ UNCHANGED queue
        /\ BeginCall(k, w, base, "summarizing", 1)
        /\ UNCHANGED <<rows, born, mode, enqueued, control, tombstones, ops, stops>>
    BY DEF PublishTranscript
  <1>2. mode # "down" /\ w \in rows /\ Holds(k, w) /\ snap[w] \in Snapshot
    BY <1>1, PassesLemma, CallStageLemma
  <1>3. r \in Snapshot /\ r.sequence > snap[w].sequence /\ r.attempt = snap[w].attempt
    BY <1>2, TranscriptReadyLemma
  <1>4. /\ base \in Snapshot /\ base.sequence > r.sequence
        /\ base.attempt = snap[w].attempt /\ base.status = "running"
    BY <1>3, TransitionLemma, CallStageLemma
  <1>5. base.sequence > snap[w].sequence
    BY <1>2, <1>3, <1>4 DEF Snapshot
  <1>. HIDE DEF w, r, base
  <1>. QED
    BY <1>1, <1>2, <1>4, <1>5, BeginCallInv, CallStageLemma

LEMMA PublishSummaryInv ==
  ASSUME IInv, NEW k \in Workers, PublishSummary(k)
  PROVE  IInv'
  <1>. DEFINE w == worker[k].wf
              r == CheckpointReady(snap[w])
              n == Completed(r)
  <1>1. /\ Passes(k, "summarizing") /\ UNCHANGED queue /\ Commit(w, n) /\ Release(k, w)
        /\ UNCHANGED <<rows, born, mode, tombstones, ops, stops>>
    BY DEF PublishSummary
  <1>2. mode # "down" /\ w \in rows /\ Holds(k, w) /\ snap[w] \in Snapshot
    BY <1>1, PassesLemma, CallStageLemma
  <1>3. r \in Snapshot /\ r.sequence > snap[w].sequence
    BY <1>2, CheckpointReadyLemma
  <1>4. n \in Snapshot /\ n.sequence > r.sequence /\ n.status \in Terminal
    BY <1>3, CompletedLemma DEF Terminal
  <1>5. n.sequence > snap[w].sequence
    BY <1>2, <1>3, <1>4 DEF Snapshot
  <1>. HIDE DEF w, r, n
  <1>. QED
    BY <1>1, <1>2, <1>4, <1>5, EndInv

LEMMA PublishFailsInv ==
  ASSUME IInv, NEW k \in Workers, NEW stage \in CallStage, PublishFails(k, stage)
  PROVE  IInv'
  <1>. DEFINE w == worker[k].wf
              f == FirstCommit(snap[w], stage)
  <1>1. /\ Passes(k, stage) /\ UNCHANGED queue /\ Release(k, w)
        /\ UNCHANGED <<rows, born, mode, tombstones, ops, stops>>
    BY DEF PublishFails
  <1>2. PICK s \in {snap[w], f} : Commit(w, Failed(s))
    BY DEF PublishFails
  <1>3. mode # "down" /\ w \in rows /\ Holds(k, w) /\ snap[w] \in Snapshot
    BY <1>1, PassesLemma
  <1>4. f \in Snapshot /\ f.sequence > snap[w].sequence
    BY <1>3, TranscriptReadyLemma, CheckpointReadyLemma DEF FirstCommit
  <1>5. /\ Failed(s) \in Snapshot /\ Failed(s).sequence > snap[w].sequence
        /\ Failed(s).status \in Terminal
    BY <1>3, <1>4, FailedAfter
  <1>. HIDE DEF w, f
  <1>. QED
    BY <1>1, <1>2, <1>3, <1>5, EndInv

-----------------------------------------------------------------------------
(* Shape 5: runs go on.  Each worker keeps its workflow and attempt, and   *)
(* only awaits, statuses and pause events change.                          *)

LEMMA RunsGoOn ==
  ASSUME IInv, mode # "down", mode' \in {"up", "draining"},
         worker' \in [Workers -> WorkerState],
         \A k \in Workers : /\ Busy(k)' <=> Busy(k)
                            /\ worker'[k].wf = worker[k].wf
                            /\ worker'[k].attempt = worker[k].attempt,
         snap' \in [Workflow -> Snapshot],
         \A v \in rows : /\ snap'[v].attempt = snap[v].attempt
                         /\ snap'[v].recommended = snap[v].recommended
                         /\ snap'[v].status = "queued" => snap[v].status = "queued"
                         /\ snap'[v].status \in Active => snap[v].status \in Active
                         /\ snap[v].status \in {"queued", "cancelled"}
                              => snap'[v].status \in {"queued", "cancelled"},
         \A k \in Workers : Busy(k) /\ worker[k].wf \in rows
                              => worker'[k].pc \in PcOf(snap'[worker[k].wf].status),
         PauseGateConsistent',
         control' \in [Workflow -> {"absent", "set", "clear"}],
         tombstones' \subseteq Workflow \X Nat, ops' \in Nat, stops' \in Nat,
         UNCHANGED <<rows, born, queue, enqueued>>
  PROVE  IInv'
  <1>e. \A i \in DOMAIN queue : queue[i].wf \in Workflow
    BY EntryLemma DEF IInv
  <1>. USE DEF IInv, TypeOK
  <1>1. TypeOK'
    <2>1. \A k \in Workers : Busy(k)' => worker'[k].wf \in Workflow
      OBVIOUS
    <2>2. /\ rows' \subseteq 1 .. born' /\ born' \in 0 .. N
          /\ queue' \in Seq(Entries) /\ enqueued' \subseteq Workflow
          /\ mode' \in {"down", "up", "draining"}
      OBVIOUS
    <2>. QED
      BY <2>1, <2>2
  <1>2. StatusMatchesExecution'
    BY DEF StatusMatchesExecution, Runs
  <1>3. ExecutionOwnership'
    <2>1. ASSUME NEW j \in Workers, NEW k \in Workers, Busy(j)', Busy(k)',
                 worker'[j].wf = worker'[k].wf
          PROVE  j = k
      BY <2>1 DEF ExecutionOwnership
    <2>2. ASSUME NEW k \in Workers, Busy(k)', worker'[k].wf \in rows
          PROVE  worker'[k].attempt = snap'[worker'[k].wf].attempt
      <3>1. Busy(k) /\ worker[k].wf \in rows /\ worker'[k].wf = worker[k].wf
        BY <2>2
      <3>2. worker[k].attempt = snap[worker[k].wf].attempt
        BY <3>1 DEF ExecutionOwnership
      <3>. QED
        BY <3>1, <3>2, SMTT(30)
    <2>. QED
      BY <2>1, <2>2 DEF ExecutionOwnership
  <1>4. QueuedIsScheduled'
    BY DEF QueuedIsScheduled, Runs, InQueue
  <1>5. QueueRowsWait'
    BY DEF QueueRowsWait
  <1>6. ScheduledIsBorn'
    BY DEF ScheduledIsBorn
  <1>7. StoppedIsEmpty'
    BY DEF StoppedIsEmpty
  <1>. QED
    BY <1>1, <1>2, <1>3, <1>4, <1>5, <1>6, <1>7

\* A worker that only changes its await, from one busy await to another.
LEMMA AwaitChanges ==
  ASSUME TypeOK, NEW k \in Workers, Busy(k), NEW pc \in BusyPc,
         worker' = [worker EXCEPT ![k].pc = pc]
  PROVE  /\ worker' \in [Workers -> WorkerState]
         /\ worker'[k].pc = pc
         /\ \A j \in Workers : j # k => worker'[j] = worker[j]
         /\ \A j \in Workers : /\ Busy(j)' <=> Busy(j)
                               /\ worker'[j].wf = worker[j].wf
                               /\ worker'[j].attempt = worker[j].attempt
  <1>1. worker[k] \in WorkerState
    BY DEF TypeOK
  <1>2. /\ [worker[k] EXCEPT !.pc = pc] \in WorkerState
        /\ [worker[k] EXCEPT !.pc = pc].pc = pc
        /\ [worker[k] EXCEPT !.pc = pc].wf = worker[k].wf
        /\ [worker[k] EXCEPT !.pc = pc].attempt = worker[k].attempt
    BY <1>1 DEF WorkerState
  <1>3. /\ worker' \in [Workers -> WorkerState]
        /\ worker'[k] = [worker[k] EXCEPT !.pc = pc]
        /\ \A j \in Workers : j # k => worker'[j] = worker[j]
    BY <1>2 DEF TypeOK
  <1>. QED
    BY <1>2, <1>3 DEF Busy

LEMMA GatePausesInv ==
  ASSUME IInv, NEW k \in Workers, NEW stage \in CallStage, GatePauses(k, stage)
  PROVE  IInv'
  <1>. DEFINE w == worker[k].wf
  <1>1. /\ mode # "down" /\ ReachesGate(k, stage) /\ w \in rows
        /\ snap[w].status = "paused"
        /\ worker' = [worker EXCEPT ![k].pc = GatePc[stage]]
        /\ UNCHANGED <<rows, snap, born, mode, queue, enqueued, control, tombstones, ops, stops>>
    BY DEF GatePauses, registry
  <1>2. Busy(k)
    BY <1>1, GateLemma
  <1>3. GatePc[stage] \in {"asr_gate", "sum_gate"} /\ GatePc[stage] \in BusyPc
    BY DEF GatePc, CallStage, BusyPc
  <1>4. /\ worker' \in [Workers -> WorkerState]
        /\ worker'[k].pc = GatePc[stage]
        /\ \A j \in Workers : j # k => worker'[j] = worker[j]
        /\ \A j \in Workers : /\ Busy(j)' <=> Busy(j)
                              /\ worker'[j].wf = worker[j].wf
                              /\ worker'[j].attempt = worker[j].attempt
    BY <1>1, <1>2, <1>3, AwaitChanges DEF IInv
  <1>5. ASSUME NEW j \in Workers, Busy(j), worker[j].wf \in rows
        PROVE  worker'[j].pc \in PcOf(snap'[worker[j].wf].status)
    <2>1. CASE j = k
      BY <2>1, <1>1, <1>3, <1>4, PcOfLemma
    <2>2. CASE j # k
      BY <2>2, <1>1, <1>4, <1>5 DEF IInv, StatusMatchesExecution
    <2>. QED
      BY <2>1, <2>2
  <1>6. PauseGateConsistent'
    <2>1. ASSUME NEW j \in Workers, worker'[j].pc \in {"asr_gate", "sum_gate"},
                 worker'[j].wf \in rows => snap'[worker'[j].wf].status # "paused"
          PROVE  control'[worker'[j].wf] # "clear"
      <3>1. j # k
        BY <2>1, <1>1, <1>4
      <3>. QED
        BY <2>1, <3>1, <1>1, <1>4 DEF IInv, PauseGateConsistent
    <2>. QED
      BY <2>1, <1>1 DEF IInv, PauseGateConsistent
  <1>. HIDE DEF w
  <1>. QED
    BY <1>1, <1>4, <1>5, <1>6, RunsGoOn DEF IInv, TypeOK

LEMMA RejectInv ==
  ASSUME IInv, NEW k \in Workers, Reject(k)
  PROVE  IInv'
  <1>1. /\ mode = "up" /\ worker[k].pc \in SecretWait
        /\ worker' = [worker EXCEPT ![k].pc = "raising"]
        /\ UNCHANGED <<rows, snap, born, mode, queue, enqueued, control, tombstones, ops, stops>>
    BY DEF Reject, registry
  <1>2. Busy(k) /\ "raising" \in BusyPc
    BY <1>1 DEF Busy, BusyPc, SecretWait
  <1>3. /\ worker' \in [Workers -> WorkerState]
        /\ worker'[k].pc = "raising"
        /\ \A j \in Workers : j # k => worker'[j] = worker[j]
        /\ \A j \in Workers : /\ Busy(j)' <=> Busy(j)
                              /\ worker'[j].wf = worker[j].wf
                              /\ worker'[j].attempt = worker[j].attempt
    BY <1>1, <1>2, AwaitChanges DEF IInv
  <1>4. ASSUME NEW j \in Workers, Busy(j), worker[j].wf \in rows
        PROVE  worker'[j].pc \in PcOf(snap'[worker[j].wf].status)
    <2>. DEFINE st == snap[worker[j].wf].status
    <2>1. worker[j].pc \in PcOf(st) /\ st \in Active \cup {"cancelled"}
      BY <1>1, <1>4, BusyLemma
    <2>2. CASE j = k
      <3>1. st \in Active \cup {"cancelled"} /\ worker[j].pc \in {"asr_secret", "sum_secret"}
            /\ worker[j].pc \in PcOf(st)
        BY <1>1, <2>1, <2>2 DEF SecretWait
      <3>. HIDE DEF st
      <3>2. st \in {"waiting_for_secret", "cancelled"}
        BY <3>1, PcOfLemma DEF Active
      <3>3. "raising" \in PcOf(st)
        BY <3>2, PcOfLemma
      <3>. QED
        BY <3>3, <1>1, <1>3, <2>2 DEF st
    <2>3. CASE j # k
      BY <2>1, <2>3, <1>1, <1>3
    <2>. QED
      BY <2>2, <2>3
  <1>5. PauseGateConsistent'
    BY <1>1, <1>3 DEF IInv, PauseGateConsistent
  <1>. QED
    BY <1>1, <1>3, <1>4, <1>5, RunsGoOn DEF IInv, TypeOK

LEMMA GrantInv ==
  ASSUME IInv, NEW k \in Workers, Grant(k)
  PROVE  IInv'
  <1>. DEFINE w == worker[k].wf
              pc == IF worker[k].pc = "asr_secret" THEN "asr" ELSE "sum"
              n == Transition(snap[w], "running", snap[w].stage)
  <1>1. /\ mode = "up" /\ worker[k].pc \in {"asr_secret", "sum_secret"}
        /\ worker' = [worker EXCEPT ![k].pc = pc]
        /\ UNCHANGED <<rows, born, mode, queue, enqueued, control, tombstones, ops, stops>>
    BY DEF Grant, SecretWait, IInv, TypeOK
  <1>2. Busy(k) /\ pc \in BusyPc /\ pc \in {"asr", "sum"}
    BY <1>1 DEF Busy, BusyPc
  <1>3. /\ worker' \in [Workers -> WorkerState]
        /\ worker'[k].pc = pc
        /\ \A j \in Workers : j # k => worker'[j] = worker[j]
        /\ \A j \in Workers : /\ Busy(j)' <=> Busy(j)
                              /\ worker'[j].wf = worker[j].wf
                              /\ worker'[j].attempt = worker[j].attempt
    <2>. HIDE DEF pc
    <2>. QED
      BY <1>1, <1>2, AwaitChanges DEF IInv
  <1>4. /\ w \in Workflow /\ snap \in [Workflow -> Snapshot] /\ snap[w] \in Snapshot
        /\ w \in rows => /\ worker[k].pc \in PcOf(snap[w].status)
                         /\ worker[k].attempt = snap[w].attempt
                         /\ snap[w].status \in Active \cup {"cancelled"}
    BY <1>1, <1>2, BusyLemma, RowLemma DEF IInv
  <1>5. w \in rows => snap[w].status \in {"waiting_for_secret", "cancelled"}
    <2>. DEFINE st == snap[w].status
    <2>. SUFFICES ASSUME w \in rows PROVE st \in {"waiting_for_secret", "cancelled"}
      OBVIOUS
    <2>1. worker[k].pc \in PcOf(st) /\ st \in Active \cup {"cancelled"}
      BY <1>4
    <2>. HIDE DEF st
    <2>. QED
      BY <2>1, <1>1, PcOfLemma DEF Active
  <1>6. /\ snap' \in [Workflow -> Snapshot]
        /\ \A v \in Workflow : v # w => snap'[v] = snap[v]
        /\ w \in rows => \/ snap[w].status = "cancelled" /\ snap'[w] = snap[w]
                         \/ /\ snap[w].status = "waiting_for_secret"
                            /\ snap'[w].status = "running"
                            /\ snap'[w].attempt = snap[w].attempt
                            /\ snap'[w].recommended = snap[w].recommended
    <2>1. CASE w \in rows /\ snap[w].status = "waiting_for_secret"
      <3>1. /\ n \in Snapshot /\ n.sequence > snap[w].sequence /\ n.status = "running"
            /\ n.attempt = snap[w].attempt /\ n.recommended = snap[w].recommended
        BY <1>4, TransitionLemma, CallStageLemma DEF Snapshot
      <3>2. Commit(w, n)
        BY <2>1, <1>4 DEF Grant, SecretGranted
      <3>. HIDE DEF n, w
      <3>3. snap' = [snap EXCEPT ![w] = n]
        BY <3>1, <3>2, <1>4, CommitLemma
      <3>. QED
        BY <2>1, <3>1, <3>3, <1>4
    <2>2. CASE ~(w \in rows /\ snap[w].status = "waiting_for_secret")
      <3>1. UNCHANGED snap
        BY <2>2 DEF Grant, SecretGranted
      <3>. QED
        BY <2>2, <3>1, <1>4, <1>5
    <2>. QED
      BY <2>1, <2>2
  <1>7. ASSUME NEW j \in Workers, Busy(j), worker[j].wf \in rows
        PROVE  worker'[j].pc \in PcOf(snap'[worker[j].wf].status)
    <2>1. CASE j = k
      <3>1. snap'[w].status \in {"running", "cancelled"} /\ worker'[j].pc = pc
        BY <1>3, <1>6, <1>7, <2>1
      <3>2. pc \in PcOf(snap'[w].status)
        BY <3>1, <1>2, PcOfLemma
      <3>. QED
        BY <3>1, <3>2, <2>1
    <2>2. CASE j # k
      <3>1. worker[j].wf \in Workflow /\ worker[j].wf # w /\ worker'[j] = worker[j]
        BY <2>2, <1>2, <1>3, <1>7 DEF IInv, TypeOK, ExecutionOwnership
      <3>2. worker[j].pc \in PcOf(snap[worker[j].wf].status)
        BY <1>7 DEF IInv, StatusMatchesExecution
      <3>. QED
        BY <3>1, <3>2, <1>6
    <2>. QED
      BY <2>1, <2>2
  <1>8. PauseGateConsistent'
    <2>1. ASSUME NEW v \in rows, snap'[v].status = "paused"
          PROVE  control'[v] = "clear"
      <3>1. v \in Workflow /\ v # w
        BY <2>1, <1>6, RowsLemma DEF IInv
      <3>. QED
        BY <2>1, <3>1, <1>1, <1>6 DEF IInv, PauseGateConsistent
    <2>2. ASSUME NEW j \in Workers, worker'[j].pc \in {"asr_gate", "sum_gate"},
                 worker'[j].wf \in rows => snap'[worker'[j].wf].status # "paused"
          PROVE  control'[worker'[j].wf] # "clear"
      <3>1. j # k /\ worker'[j] = worker[j] /\ Busy(j)
        BY <2>2, <1>2, <1>3 DEF Busy, BusyPc
      <3>2. worker[j].wf \in Workflow /\ worker[j].wf # w
        BY <3>1, <1>2 DEF IInv, TypeOK, ExecutionOwnership
      <3>. QED
        BY <2>2, <3>1, <3>2, <1>1, <1>6 DEF IInv, PauseGateConsistent
    <2>. QED
      BY <2>1, <2>2, <1>1 DEF PauseGateConsistent
  <1>9. \A v \in rows : /\ snap'[v].attempt = snap[v].attempt
                        /\ snap'[v].recommended = snap[v].recommended
                        /\ snap'[v].status = "queued" => snap[v].status = "queued"
                        /\ snap'[v].status \in Active => snap[v].status \in Active
                        /\ snap[v].status \in {"queued", "cancelled"}
                             => snap'[v].status \in {"queued", "cancelled"}
    BY <1>6, RowsLemma DEF IInv, Active
  <1>. HIDE DEF w, pc, n
  <1>. QED
    BY <1>1, <1>3, <1>6, <1>7, <1>8, <1>9, RunsGoOn DEF IInv, TypeOK

LEMMA ShutdownDrainInv ==
  ASSUME IInv, ShutdownDrain
  PROVE  IInv'
  <1>1. /\ mode # "down" /\ mode' = "draining"
        /\ UNCHANGED <<rows, snap, born, queue, enqueued, control, worker, tombstones, ops, stops>>
    BY DEF ShutdownDrain, registry, volatile
  <1>2. \A k \in Workers : Busy(k)' <=> Busy(k)
    BY <1>1 DEF Busy
  <1>3. PauseGateConsistent'
    BY <1>1 DEF IInv, PauseGateConsistent
  <1>4. \A k \in Workers : Busy(k) /\ worker[k].wf \in rows
          => worker'[k].pc \in PcOf(snap'[worker[k].wf].status)
    BY <1>1 DEF IInv, StatusMatchesExecution
  <1>. QED
    BY <1>1, <1>2, <1>3, <1>4, RunsGoOn DEF IInv, TypeOK

-----------------------------------------------------------------------------
(* Controls. *)

\* A control of w rewrites its row and its pause event, and may end the
\* credential waits of the workers that execute it.
LEMMA ControlInv ==
  ASSUME IInv, mode = "up", NEW w \in rows,
         NEW n \in Snapshot, n.sequence > snap[w].sequence, Commit(w, n),
         n.attempt = snap[w].attempt, n.recommended = snap[w].recommended,
         NEW c \in {"set", "clear"}, control' = [control EXCEPT ![w] = c],
         n.status = "paused" <=> c = "clear",
         \/ n.status \in {"running", "paused"} /\ snap[w].status \in {"running", "paused"}
         \/ n.status = "cancelled",
         worker' \in [Workers -> WorkerState],
         \A k \in Workers : \/ worker'[k] = worker[k]
                            \/ /\ n.status = "cancelled"
                               /\ worker'[k] = [worker[k] EXCEPT !.pc = "raising"]
                               /\ worker[k].pc \in SecretWait /\ worker[k].wf = w,
         tombstones' \subseteq Workflow \X Nat, ops' \in Nat,
         UNCHANGED <<rows, born, mode, queue, enqueued, stops>>
  PROVE  IInv'
  <1>. w \in Workflow /\ snap \in [Workflow -> Snapshot]
    BY RowsLemma DEF IInv, TypeOK
  <1>1. snap' = [snap EXCEPT ![w] = n]
    BY CommitLemma
  <1>2. /\ snap' \in [Workflow -> Snapshot] /\ snap'[w] = n
        /\ \A v \in Workflow : v # w => snap'[v] = snap[v]
    BY <1>1
  <1>3. \A k \in Workers : \/ worker'[k] = worker[k]
                           \/ /\ n.status = "cancelled" /\ worker[k].wf = w
                              /\ worker'[k].pc = "raising" /\ Busy(k)
                              /\ worker'[k].wf = w
                              /\ worker'[k].attempt = worker[k].attempt
    <2>1. \A k \in Workers : worker[k] \in WorkerState
      BY DEF IInv, TypeOK
    <2>. QED
      BY <2>1 DEF WorkerState, Busy, BusyPc, SecretWait
  <1>4. \A k \in Workers : /\ Busy(k)' <=> Busy(k)
                           /\ worker'[k].wf = worker[k].wf
                           /\ worker'[k].attempt = worker[k].attempt
    <2>1. "raising" \in BusyPc
      BY DEF BusyPc
    <2>. QED
      BY <1>3, <2>1 DEF Busy
  <1>5. ASSUME NEW k \in Workers, Busy(k), worker[k].wf \in rows
        PROVE  worker'[k].pc \in PcOf(snap'[worker[k].wf].status)
    <2>1. worker[k].pc \in PcOf(snap[worker[k].wf].status) /\ worker[k].wf \in Workflow
      BY <1>5 DEF IInv, TypeOK, StatusMatchesExecution
    <2>2. CASE worker[k].wf # w
      BY <2>1, <2>2, <1>2, <1>3
    <2>3. CASE worker[k].wf = w /\ n.status = "cancelled"
      <3>1. worker'[k].pc \in BusyPc
        BY <1>4, <1>5 DEF Busy
      <3>. QED
        BY <3>1, <2>3, <1>2, PcOfLemma
    <2>4. CASE worker[k].wf = w /\ n.status # "cancelled"
      <3>1. PcOf(n.status) = PcOf(snap[w].status)
        <4>1. n.status \in {"running", "paused"} /\ snap[w].status \in {"running", "paused"}
          BY <2>4
        <4>. QED
          BY <4>1, PcOfLemma
      <3>2. worker'[k] = worker[k]
        BY <1>3, <2>4
      <3>. QED
        BY <3>1, <3>2, <2>1, <2>4, <1>2
    <2>. QED
      BY <2>2, <2>3, <2>4
  <1>6. PauseGateConsistent'
    <2>1. ASSUME NEW v \in rows, snap'[v].status = "paused"
          PROVE  control'[v] = "clear"
      <3>1. v \in Workflow /\ control \in [Workflow -> {"absent", "set", "clear"}]
        BY RowsLemma DEF IInv, TypeOK
      <3>. QED
        BY <2>1, <3>1, <1>2 DEF IInv, PauseGateConsistent
    <2>2. ASSUME NEW j \in Workers, worker'[j].pc \in {"asr_gate", "sum_gate"},
                 worker'[j].wf \in rows => snap'[worker'[j].wf].status # "paused"
          PROVE  control'[worker'[j].wf] # "clear"
      <3>1. worker'[j] = worker[j] /\ Busy(j)
        BY <2>2, <1>3 DEF Busy, BusyPc
      <3>2. worker[j].wf \in Workflow /\ control \in [Workflow -> {"absent", "set", "clear"}]
        BY <3>1 DEF IInv, TypeOK
      <3>3. CASE worker[j].wf = w
        BY <2>2, <3>1, <3>2, <3>3, <1>2
      <3>4. CASE worker[j].wf # w
        BY <2>2, <3>1, <3>2, <3>4, <1>2 DEF IInv, PauseGateConsistent
      <3>. QED
        BY <3>3, <3>4
    <2>. QED
      BY <2>1, <2>2 DEF PauseGateConsistent
  <1>7. \A v \in rows : /\ snap'[v].attempt = snap[v].attempt
                        /\ snap'[v].recommended = snap[v].recommended
                        /\ snap'[v].status = "queued" => snap[v].status = "queued"
                        /\ snap'[v].status \in Active => snap[v].status \in Active
                        /\ snap[v].status \in {"queued", "cancelled"}
                             => snap'[v].status \in {"queued", "cancelled"}
    <2>1. ASSUME NEW v \in rows, v # w
          PROVE  snap'[v] = snap[v]
      BY <2>1, <1>2, RowsLemma DEF IInv
    <2>2. /\ snap'[w].attempt = snap[w].attempt
          /\ snap'[w].recommended = snap[w].recommended
          /\ snap'[w].status # "queued"
          /\ snap'[w].status \in Active => snap[w].status \in Active
          /\ snap[w].status \in {"queued", "cancelled"} => snap'[w].status = "cancelled"
      BY <1>2 DEF Active
    <2>. QED
      BY <2>1, <2>2
  <1>8. control' \in [Workflow -> {"absent", "set", "clear"}]
    BY DEF IInv, TypeOK
  <1>. QED
    BY <1>2, <1>4, <1>5, <1>6, <1>7, <1>8, RunsGoOn DEF IInv, TypeOK

LEMMA PauseInv ==
  ASSUME IInv, NEW w \in Workflow, Pause(w)
  PROVE  IInv'
  <1>. DEFINE n == PauseApplied(snap[w])
  <1>1. /\ mode = "up" /\ w \in rows /\ snap[w].status = "running" /\ Commit(w, n)
        /\ control' = [control EXCEPT ![w] = "clear"] /\ ops' = ops + 1
        /\ UNCHANGED <<rows, born, mode, queue, enqueued, worker, tombstones, stops>>
    BY DEF Pause, Accepts, CanPause
  <1>2. snap[w] \in Snapshot
    BY RowLemma DEF IInv
  <1>3. /\ n \in Snapshot /\ n.sequence > snap[w].sequence /\ n.status = "paused"
        /\ n.attempt = snap[w].attempt /\ n.recommended = snap[w].recommended
    BY <1>2, PauseLemma
  <1>4. /\ worker' \in [Workers -> WorkerState] /\ \A k \in Workers : worker'[k] = worker[k]
        /\ tombstones' \subseteq Workflow \X Nat /\ ops' \in Nat
    BY <1>1 DEF IInv, TypeOK
  <1>. HIDE DEF n
  <1>. QED
    BY <1>1, <1>3, <1>4, ControlInv

LEMMA ResumeInv ==
  ASSUME IInv, NEW w \in Workflow, Resume(w)
  PROVE  IInv'
  <1>. DEFINE n == ResumeApplied(snap[w])
  <1>1. /\ mode = "up" /\ w \in rows /\ snap[w].status = "paused" /\ Commit(w, n)
        /\ control' = [control EXCEPT ![w] = "set"] /\ ops' = ops + 1
        /\ UNCHANGED <<rows, born, mode, queue, enqueued, worker, tombstones, stops>>
    BY DEF Resume, Accepts, CanResume
  <1>2. snap[w] \in Snapshot
    BY RowLemma DEF IInv
  <1>3. /\ n \in Snapshot /\ n.sequence > snap[w].sequence /\ n.status = "running"
        /\ n.attempt = snap[w].attempt /\ n.recommended = snap[w].recommended
    BY <1>2, ResumeLemma
  <1>4. /\ worker' \in [Workers -> WorkerState] /\ \A k \in Workers : worker'[k] = worker[k]
        /\ tombstones' \subseteq Workflow \X Nat /\ ops' \in Nat
    BY <1>1 DEF IInv, TypeOK
  <1>. HIDE DEF n
  <1>. QED
    BY <1>1, <1>3, <1>4, ControlInv

LEMMA CancelInv ==
  ASSUME IInv, NEW w \in Workflow, Cancel(w)
  PROVE  IInv'
  <1>. DEFINE n == CancelRequested(snap[w])
  <1>1. /\ mode = "up" /\ w \in rows /\ Commit(w, n)
        /\ control' = [control EXCEPT ![w] = "set"] /\ ops' = ops + 1
        /\ UNCHANGED <<rows, born, mode, queue, enqueued, stops>>
        /\ tombstones' = tombstones \cup {<<w, snap[w].attempt>>}
        /\ worker' = [k \in Workers |->
                        IF /\ snap[w].status = "waiting_for_secret"
                           /\ worker[k].pc \in SecretWait
                           /\ Key(k) = <<w, snap[w].attempt>>
                          THEN [worker[k] EXCEPT !.pc = "raising"]
                          ELSE worker[k]]
    BY DEF Cancel, Accepts
  <1>2. snap[w] \in Snapshot
    BY RowLemma DEF IInv
  <1>3. /\ n \in Snapshot /\ n.sequence > snap[w].sequence
        /\ n.status = (IF snap[w].status = "running" THEN "running" ELSE "cancelled")
        /\ n.attempt = snap[w].attempt /\ n.recommended = snap[w].recommended
    BY <1>2, CancelLemma
  <1>4. \/ n.status = "running" /\ snap[w].status = "running"
        \/ n.status = "cancelled"
    BY <1>3
  <1>5. \A k \in Workers : \/ worker'[k] = worker[k]
                           \/ /\ n.status = "cancelled"
                              /\ worker'[k] = [worker[k] EXCEPT !.pc = "raising"]
                              /\ worker[k].pc \in SecretWait /\ worker[k].wf = w
    <2>. HIDE DEF n
    <2>. QED
      BY <1>1, <1>3 DEF Key
  <1>6. worker' \in [Workers -> WorkerState]
    <2>1. \A k \in Workers : worker[k] \in WorkerState
      BY DEF IInv, TypeOK
    <2>2. \A k \in Workers : [worker[k] EXCEPT !.pc = "raising"] \in WorkerState
      BY <2>1 DEF WorkerState, BusyPc
    <2>. QED
      BY <1>1, <2>1, <2>2
  <1>7. tombstones' \subseteq Workflow \X Nat /\ ops' \in Nat
    BY <1>1, <1>2 DEF IInv, TypeOK, Snapshot
  <1>. HIDE DEF n
  <1>. QED
    BY <1>1, <1>3, <1>4, <1>5, <1>6, <1>7, ControlInv

-----------------------------------------------------------------------------
(* Revisions and heartbeats touch a row. *)

\* A commit that keeps status, attempt and recommendation keeps the invariant.
LEMMA TouchInv ==
  ASSUME IInv, NEW w \in rows, NEW n \in Snapshot, n.sequence > snap[w].sequence,
         n.status = snap[w].status, n.attempt = snap[w].attempt,
         n.recommended = snap[w].recommended, Commit(w, n), ops' = ops + 1,
         UNCHANGED <<rows, born, mode, volatile, stops>>
  PROVE  IInv'
  <1>1. snap' = [snap EXCEPT ![w] = n]
    BY CommitLemma, RowsLemma DEF IInv, TypeOK
  <1>2. ops' \in Nat /\ stops' \in Nat
    BY DEF IInv, TypeOK
  <1>. QED
    BY <1>1, <1>2, TouchedRow

LEMMA ReviseTranscriptInv ==
  ASSUME IInv, NEW w \in Workflow, NEW affects \in BOOLEAN, ReviseTranscript(w, affects)
  PROVE  IInv'
  <1>1. /\ w \in rows /\ Commit(w, TranscriptRevised(snap[w], affects)) /\ ops' = ops + 1
        /\ UNCHANGED <<rows, born, mode, volatile, stops>>
    BY DEF ReviseTranscript
  <1>2. snap[w] \in Snapshot
    BY RowLemma DEF IInv
  <1>. QED
    BY <1>1, <1>2, TranscriptRevisedLemma, TouchInv

LEMMA ReviseFinalInv ==
  ASSUME IInv, NEW w \in Workflow, ReviseFinal(w)
  PROVE  IInv'
  <1>1. /\ w \in rows /\ Commit(w, FinalRevised(snap[w])) /\ ops' = ops + 1
        /\ UNCHANGED <<rows, born, mode, volatile, stops>>
    BY DEF ReviseFinal
  <1>2. snap[w] \in Snapshot
    BY RowLemma DEF IInv
  <1>. QED
    BY <1>1, <1>2, FinalRevisedLemma, TouchInv

LEMMA HeartbeatInv ==
  ASSUME IInv, NEW k \in Workers, Heartbeat(k)
  PROVE  IInv'
  <1>. DEFINE w == worker[k].wf
  <1>1. /\ w \in rows /\ Commit(w, Touch(snap[w])) /\ ops' = ops + 1
        /\ UNCHANGED <<rows, born, mode, volatile, stops>>
    BY DEF Heartbeat
  <1>2. snap[w] \in Snapshot
    BY <1>1, RowsLemma, RowLemma DEF IInv
  <1>. HIDE DEF w
  <1>. QED
    BY <1>1, <1>2, TouchLemma, TouchInv

-----------------------------------------------------------------------------
(* Exceptions. *)

LEMMA RaiseInv ==
  ASSUME IInv, mode # "down", NEW k \in Workers, Busy(k),
         NEW asCancelled \in BOOLEAN, Raise(k, asCancelled),
         UNCHANGED <<rows, born, mode, queue, tombstones, ops, stops>>
  PROVE  IInv'
  <1>. DEFINE w == worker[k].wf
              n == Handled(snap[w], asCancelled)
  <1>1. w \in Workflow /\ Holds(k, w) /\ snap[w] \in Snapshot
    BY BusyLemma, RowLemma DEF IInv
  <1>2. CASE w \in rows
    <2>1. /\ n \in Snapshot /\ (n.sequence > snap[w].sequence \/ n = snap[w])
          /\ n.status \in Terminal
      <3>1. CASE snap[w].status \in Terminal
        BY <1>1, <3>1 DEF Handled
      <3>2. CASE snap[w].status \notin Terminal /\ (snap[w].pending \/ asCancelled)
        <4>1. n = Cancelled(snap[w])
          BY <3>2 DEF Handled
        <4>. QED
          BY <1>1, <4>1, CancelledLemma DEF Terminal
      <3>3. CASE snap[w].status \notin Terminal /\ ~(snap[w].pending \/ asCancelled)
        <4>1. n = Failed(snap[w])
          BY <3>3 DEF Handled
        <4>. QED
          BY <1>1, <4>1, FailedLemma DEF Terminal
      <3>. QED
        BY <3>1, <3>2, <3>3
    <2>2. Commit(w, n) /\ Release(k, w)
      BY <1>2 DEF Raise
    <2>. HIDE DEF w, n
    <2>. QED
      BY <1>1, <1>2, <2>1, <2>2, EndInv
  <1>3. CASE w \notin rows
    <2>1. /\ worker' = [worker EXCEPT ![k] = Dead] /\ enqueued' = enqueued \ {w}
          /\ control' = [control EXCEPT ![w] = "absent"] /\ UNCHANGED snap
      BY <1>3 DEF Raise
    <2>2. snap' \in [Workflow -> Snapshot]
      BY <2>1 DEF IInv, TypeOK
    <2>. HIDE DEF w
    <2>. QED
      BY <1>1, <1>3, <2>1, <2>2, RunEnds
  <1>. QED
    BY <1>2, <1>3

LEMMA ErrorStepInv ==
  ASSUME IInv, NEW k \in Workers, ErrorStep(k)
  PROVE  IInv'
  <1>1. ASSUME NEW asCancelled \in BOOLEAN, CallFails(k, asCancelled)
        PROVE  IInv'
    <2>1. Busy(k)
      BY <1>1 DEF CallFails, Busy, BusyPc
    <2>. QED
      BY <1>1, <2>1, RaiseInv DEF CallFails
  <1>2. CASE SecretTimeout(k)
    <2>1. Busy(k)
      BY <1>2 DEF SecretTimeout, Busy, BusyPc, SecretWait
    <2>. QED
      BY <1>2, <2>1, RaiseInv DEF SecretTimeout
  <1>3. CASE SecretRaises(k)
    <2>1. Busy(k)
      BY <1>3 DEF SecretRaises, Busy, BusyPc
    <2>. QED
      BY <1>3, <2>1, RaiseInv DEF SecretRaises
  <1>. QED
    BY <1>1, <1>2, <1>3 DEF ErrorStep

-----------------------------------------------------------------------------
(* Process steps. *)

\* recover_on_startup leaves snapshots of the same attempt.
LEMMA RecoveredLemma ==
  ASSUME NEW s \in Snapshot
  PROVE  /\ Recovered(s) \in Snapshot
         /\ Recovered(s).status \notin Active
         /\ Recovered(s).status = "queued" <=> s.status = "queued"
         /\ s.status = "queued" => Recovered(s) = s
  BY InterruptedLemma DEF Recovered, Active

LEMMA GoneInv ==
  ASSUME IInv, DrainDone \/ Crash \/ ShutdownInterrupt
  PROVE  IInv'
  <1>1. CASE DrainDone \/ Crash
    <2>1. ProcessGone /\ UNCHANGED <<rows, snap, born, ops>>
      BY <1>1 DEF DrainDone, Crash, registry
    <2>2. snap' \in [Workflow -> Snapshot]
      BY <2>1 DEF IInv, TypeOK
    <2>. QED
      BY <2>1, <2>2, ProcessGoes
  <1>2. CASE ShutdownInterrupt
    <2>1. ProcessGone /\ UNCHANGED <<rows, born, ops>>
          /\ snap' = [w \in Workflow |-> IF w \in rows THEN Recovered(snap[w]) ELSE snap[w]]
      BY <1>2 DEF ShutdownInterrupt
    <2>2. snap' \in [Workflow -> Snapshot]
      BY <2>1, RecoveredLemma DEF IInv, TypeOK
    <2>. QED
      BY <2>1, <2>2, ProcessGoes
  <1>. QED
    BY <1>1, <1>2

LEMMA CrashBetweenCommitsInv ==
  ASSUME IInv, NEW k \in Workers, CrashBetweenCommits(k)
  PROVE  IInv'
  <1>1. ProcessGone /\ UNCHANGED <<rows, born, ops>>
    BY DEF CrashBetweenCommits
  <1>2. snap' \in [Workflow -> Snapshot]
    <2>1. ASSUME NEW w \in Workflow, NEW n \in Snapshot, Commit(w, n)
          PROVE  snap' \in [Workflow -> Snapshot]
      BY <2>1 DEF IInv, TypeOK, Commit, Saved
    <2>2. ASSUME NEW s \in Prepared(snap[Head(queue).wf], Head(queue).from),
                 Takes(k), Commit(Head(queue).wf, s)
          PROVE  snap' \in [Workflow -> Snapshot]
      <3>1. Head(queue).wf \in Workflow
        <4>1. Head(queue) \in Entries
          BY <2>2 DEF IInv, TypeOK, Takes
        <4>. QED
          BY <4>1 DEF Entries
      <3>2. s \in Snapshot
        BY <3>1, RowLemma, PreparedLemma DEF IInv, Prepared
      <3>. QED
        BY <2>1, <2>2, <3>1, <3>2
    <2>3. ASSUME NEW stage \in CallStage, Passes(k, stage),
                 Commit(worker[k].wf, FirstCommit(snap[worker[k].wf], stage))
          PROVE  snap' \in [Workflow -> Snapshot]
      <3>1. worker[k].wf \in Workflow
        BY <2>3, GateLemma DEF Passes, IInv, TypeOK
      <3>2. FirstCommit(snap[worker[k].wf], stage) \in Snapshot
        BY <3>1, RowLemma, TranscriptReadyLemma, CheckpointReadyLemma DEF IInv, FirstCommit
      <3>. QED
        BY <2>1, <2>3, <3>1, <3>2
    <2>. QED
      BY <2>2, <2>3 DEF CrashBetweenCommits
  <1>. QED
    BY <1>1, <1>2, ProcessGoes

LEMMA CrashInRecoveryInv ==
  ASSUME IInv, CrashInRecovery
  PROVE  IInv'
  <1>1. PICK last \in Workflow :
          snap' = [w \in Workflow |-> IF w \in rows /\ w >= last
                                        THEN Recovered(snap[w]) ELSE snap[w]]
    BY DEF CrashInRecovery
  <1>2. /\ mode = "down"
        /\ UNCHANGED <<rows, born, mode, queue, enqueued, control, worker, tombstones, ops, stops>>
    BY DEF CrashInRecovery, volatile
  <1>3. queue = <<>> /\ enqueued = {} /\ worker = [k \in Workers |-> Idle]
    BY <1>2 DEF IInv, StoppedIsEmpty
  <1>4. \A k \in Workers : worker'[k] = Idle /\ ~Busy(k)' /\ ~Busy(k)
    BY <1>2, <1>3, IdleLemma DEF Busy
  <1>5. DOMAIN queue' = {} /\ DOMAIN queue = {}
    BY <1>2, <1>3
  <1>6. TypeOK'
    <2>1. snap' \in [Workflow -> Snapshot]
      BY <1>1, RecoveredLemma DEF IInv, TypeOK
    <2>. QED
      BY <2>1, <1>2, <1>4 DEF IInv, TypeOK
  <1>7. StatusMatchesExecution' /\ ExecutionOwnership' /\ ScheduledIsBorn' /\ QueueRowsWait'
    BY <1>2, <1>4, <1>5
       DEF StatusMatchesExecution, ExecutionOwnership, ScheduledIsBorn, QueueRowsWait
  <1>8. QueuedIsScheduled'
    BY <1>2, <1>3, <1>4, <1>5 DEF QueuedIsScheduled, Runs, InQueue
  <1>9. PauseGateConsistent'
    BY <1>2, <1>4 DEF PauseGateConsistent, Idle
  <1>10. StoppedIsEmpty'
    BY <1>2, <1>3 DEF StoppedIsEmpty
  <1>. QED
    BY <1>6, <1>7, <1>8, <1>9, <1>10 DEF IInv

\* The order in which a starting process enqueues the queued rows.
StartOrder(order) ==
  /\ order \in [1 .. Cardinality(QueuedRows) -> QueuedRows]
  /\ \A i, j \in DOMAIN order : i < j => order[i] > order[j]
  /\ \A w \in QueuedRows : \E i \in DOMAIN order : order[i] = w
  /\ queue' = [i \in DOMAIN order |-> Entry(order[i], snap[order[i]].recommended)]

LEMMA StartInv ==
  ASSUME IInv, Start
  PROVE  IInv'
  <1>. DEFINE q == QueuedRows
              c == Cardinality(QueuedRows)
  <1>1. /\ mode = "down" /\ mode' = "up" /\ enqueued' = q
        /\ control' = [w \in Workflow |-> IF w \in q THEN "set" ELSE "absent"]
        /\ snap' = [w \in Workflow |-> IF w \in rows THEN Recovered(snap[w]) ELSE snap[w]]
        /\ UNCHANGED <<rows, born, worker, tombstones, ops, stops>>
    BY DEF Start
  <1>2. PICK order : StartOrder(order)
    BY DEF Start, StartOrder
  <1>3. q \subseteq rows /\ rows \subseteq Workflow
    BY RowsLemma DEF IInv, QueuedRows
  <1>4. c \in Nat
    <2>1. IsFiniteSet(1 .. N)
      BY FS_Interval, SupervisorAssumption
    <2>2. IsFiniteSet(q)
      BY <2>1, <1>3, FS_Subset DEF Workflow
    <2>. QED
      BY <2>2, FS_CardinalityType
  <1>5. /\ DOMAIN order = 1 .. c
        /\ \A i \in 1 .. c : order[i] \in q
        /\ DOMAIN queue' = 1 .. c
        /\ \A i \in 1 .. c : queue'[i] = Entry(order[i], snap[order[i]].recommended)
        /\ \A i, j \in 1 .. c : i < j => order[i] > order[j]
        /\ \A w \in q : \E i \in 1 .. c : order[i] = w
    BY <1>2 DEF StartOrder
  <1>6. \A i, j \in 1 .. c : order[i] = order[j] => i = j
    <2>. HIDE DEF c, q
    <2>0. Workflow \subseteq Int
      BY SupervisorAssumption DEF Workflow
    <2>1. \A i \in 1 .. c : order[i] \in Int
      BY <1>3, <1>5, <2>0
    <2>2. \A i, j \in 1 .. c : i < j \/ j < i \/ i = j
      BY <1>4
    <2>. QED
      BY <1>5, <2>1, <2>2
  <1>7. ASSUME NEW i \in 1 .. c
        PROVE  /\ queue'[i] \in Entries /\ queue'[i].wf = order[i]
               /\ order[i] \in q /\ order[i] \in rows /\ order[i] \in Workflow
    <2>1. order[i] \in Workflow /\ snap[order[i]].recommended \in RetryStage \cup {"none"}
      BY <1>3, <1>5, <1>7, RowLemma DEF IInv, Snapshot
    <2>. HIDE DEF c, q
    <2>. QED
      BY <2>1, <1>3, <1>5, <1>7 DEF Entry, Entries
  <1>8. queue' \in Seq(Entries)
    <2>1. queue' = [i \in 1 .. c |-> Entry(order[i], snap[order[i]].recommended)]
      BY <1>2, <1>5 DEF StartOrder
    <2>. HIDE DEF c, q
    <2>2. \A i \in 1 .. c : Entry(order[i], snap[order[i]].recommended) \in Entries
      BY <1>5, <1>7
    <2>. QED
      BY <2>1, <2>2, <1>4
  <1>9. \A k \in Workers : worker'[k] = Idle /\ ~Busy(k)' /\ ~Busy(k)
    BY <1>1, IdleLemma DEF IInv, StoppedIsEmpty, Busy
  <1>10. \A v \in rows : /\ snap'[v] = Recovered(snap[v])
                         /\ snap'[v] \in Snapshot
                         /\ snap'[v].status \notin Active
                         /\ snap'[v].status = "queued" <=> v \in q
                         /\ v \in q => snap'[v] = snap[v]
    BY <1>1, <1>3, RowLemma, RecoveredLemma DEF IInv, QueuedRows
  <1>11. snap' \in [Workflow -> Snapshot]
    BY <1>1, <1>10 DEF IInv, TypeOK
  <1>. HIDE DEF q, c
  <1>12. TypeOK'
    <2>1. control' \in [Workflow -> {"absent", "set", "clear"}]
      BY <1>1
    <2>2. enqueued' \subseteq Workflow
      BY <1>1, <1>3
    <2>. QED
      BY <1>1, <1>8, <1>9, <1>11, <2>1, <2>2 DEF IInv, TypeOK
  <1>13. StatusMatchesExecution' /\ ExecutionOwnership'
    BY <1>1, <1>9, <1>10 DEF StatusMatchesExecution, ExecutionOwnership
  <1>14. QueuedIsScheduled'
    <2>1. ASSUME NEW w \in rows, snap'[w].status = "queued"
          PROVE  \E i \in DOMAIN queue' : queue'[i] = Entry(w, snap'[w].recommended)
      BY <2>1, <1>5, <1>10
    <2>2. \A i, j \in DOMAIN queue' : queue'[i].wf = queue'[j].wf => i = j
      BY <1>5, <1>6, <1>7
    <2>3. \A w \in Workflow : w \in enqueued' <=> \E i \in DOMAIN queue' : queue'[i].wf = w
      BY <1>1, <1>5, <1>7
    <2>. QED
      BY <2>1, <2>2, <2>3, <1>1, <1>9 DEF QueuedIsScheduled, Runs, InQueue
  <1>15. PauseGateConsistent'
    BY <1>1, <1>9, <1>10 DEF PauseGateConsistent, Idle, Active
  <1>16. QueueRowsWait'
    BY <1>1, <1>5, <1>7, <1>10 DEF QueueRowsWait
  <1>17. ScheduledIsBorn' /\ StoppedIsEmpty'
    <2>1. \A w \in rows : w <= born
      BY DEF IInv, TypeOK
    <2>. QED
      BY <2>1, <1>1, <1>5, <1>7, <1>9 DEF ScheduledIsBorn, StoppedIsEmpty
  <1>. QED
    BY <1>12, <1>13, <1>14, <1>15, <1>16, <1>17 DEF IInv

-----------------------------------------------------------------------------
(* Requests that enqueue a workflow, and clear. *)

\* A workflow that is not enqueued and gets a queued row.
LEMMA EnqueuedInv ==
  ASSUME IInv, mode = "up", NEW w \in Workflow, w \notin enqueued,
         NEW n \in Snapshot, NEW from \in RetryStage \cup {"none"},
         n.status = "queued", n.recommended = from,
         snap' = [snap EXCEPT ![w] = n],
         Enqueue(w, from),
         control' = [control EXCEPT ![w] = "set"],
         rows' = rows \cup {w}, born' \in 0 .. N, born <= born', w <= born',
         ops' = ops + 1,
         UNCHANGED <<mode, worker, tombstones, stops>>
  PROVE  IInv'
  <1>. USE DEF IInv, TypeOK
  <1>1. queue' = Append(queue, Entry(w, from)) /\ enqueued' = enqueued \cup {w}
    BY DEF Enqueue
  <1>2. Entry(w, from) \in Entries /\ Entry(w, from).wf = w
    BY DEF Entry, Entries
  <1>3. /\ queue' \in Seq(Entries)
        /\ Len(queue) \in Nat
        /\ DOMAIN queue = 1 .. Len(queue)
        /\ DOMAIN queue' = 1 .. Len(queue) + 1
        /\ \A i \in DOMAIN queue : queue'[i] = queue[i]
        /\ queue'[Len(queue) + 1] = Entry(w, from)
    BY <1>1, <1>2
  <1>4. \A i \in DOMAIN queue' : i \in DOMAIN queue \/ i = Len(queue) + 1
    BY <1>3
  <1>5. /\ \A i \in DOMAIN queue : queue[i].wf # w /\ queue[i].wf \in Workflow
        /\ \A k \in Workers : Busy(k) => worker[k].wf # w /\ worker[k].wf \in Workflow
    BY EntryLemma DEF QueuedIsScheduled, InQueue, Runs
  <1>6. /\ snap' \in [Workflow -> Snapshot] /\ snap'[w] = n
        /\ \A v \in Workflow : v # w => snap'[v] = snap[v]
        /\ control'[w] = "set"
        /\ \A v \in Workflow : v # w => control'[v] = control[v]
    OBVIOUS
  <1>7. \A k \in Workers : (Busy(k)' <=> Busy(k)) /\ worker'[k] = worker[k]
    BY DEF Busy
  <1>8. rows \subseteq Workflow
    BY RowsLemma
  <1>9. TypeOK'
    <2>1. rows' \subseteq 1 .. born'
      BY SupervisorAssumption DEF Workflow
    <2>2. control' \in [Workflow -> {"absent", "set", "clear"}] /\ enqueued' \subseteq Workflow
      BY <1>1
    <2>. QED
      BY <1>3, <1>6, <1>7, <2>1, <2>2
  <1>10. StatusMatchesExecution'
    <2>1. ASSUME NEW v \in rows', snap'[v].status \in Active
          PROVE  \E k \in Workers : Busy(k)' /\ worker'[k].wf = v
      <3>1. v # w /\ v \in rows
        BY <2>1, <1>6, StatusLemma
      <3>. QED
        BY <2>1, <3>1, <1>6, <1>7, <1>8 DEF StatusMatchesExecution, Runs
    <2>2. ASSUME NEW k \in Workers, Busy(k)', worker'[k].wf \in rows'
          PROVE  worker'[k].pc \in PcOf(snap'[worker'[k].wf].status)
      BY <2>2, <1>5, <1>6, <1>7 DEF StatusMatchesExecution
    <2>. QED
      BY <2>1, <2>2 DEF StatusMatchesExecution, Runs
  <1>11. ExecutionOwnership'
    <2>1. ASSUME NEW k \in Workers, Busy(k)', worker'[k].wf \in rows'
          PROVE  worker'[k].attempt = snap'[worker'[k].wf].attempt
      BY <2>1, <1>5, <1>6, <1>7 DEF ExecutionOwnership
    <2>. QED
      BY <2>1, <1>7 DEF ExecutionOwnership
  <1>12. QueuedIsScheduled'
    <2>1. ASSUME NEW v \in rows', snap'[v].status = "queued"
          PROVE  \E i \in DOMAIN queue' : queue'[i] = Entry(v, snap'[v].recommended)
      <3>1. CASE v = w
        BY <3>1, <1>3, <1>6
      <3>2. CASE v # w
        <4>1. PICK i \in DOMAIN queue : queue[i] = Entry(v, snap[v].recommended)
          BY <2>1, <3>2, <1>6, <1>8 DEF QueuedIsScheduled
        <4>. QED
          BY <4>1, <3>2, <1>3, <1>6, <1>8
      <3>. QED
        BY <3>1, <3>2
    <2>2. ASSUME NEW i \in DOMAIN queue', NEW j \in DOMAIN queue', queue'[i].wf = queue'[j].wf
          PROVE  i = j
      BY <2>2, <1>2, <1>3, <1>4, <1>5 DEF QueuedIsScheduled
    <2>3. ASSUME NEW i \in DOMAIN queue', NEW k \in Workers
          PROVE  ~(Busy(k)' /\ worker'[k].wf = queue'[i].wf)
      BY <1>2, <1>3, <1>4, <1>5, <1>7 DEF QueuedIsScheduled, Runs
    <2>4. ASSUME NEW v \in Workflow
          PROVE  v \in enqueued' <=> \/ \E i \in DOMAIN queue' : queue'[i].wf = v
                                     \/ \E k \in Workers : Busy(k)' /\ worker'[k].wf = v
      <3>1. (\E i \in DOMAIN queue' : queue'[i].wf = v) <=> InQueue(v) \/ v = w
        BY <1>2, <1>3, <1>4 DEF InQueue
      <3>2. v \in enqueued <=> InQueue(v) \/ \E k \in Workers : Runs(k, v)
        BY DEF QueuedIsScheduled
      <3>. QED
        BY <3>1, <3>2, <1>1, <1>7 DEF Runs
    <2>. QED
      BY <2>1, <2>2, <2>3, <2>4 DEF QueuedIsScheduled, Runs, InQueue
  <1>13. PauseGateConsistent'
    <2>1. ASSUME NEW v \in rows', snap'[v].status = "paused"
          PROVE  control'[v] = "clear"
      <3>1. v # w /\ v \in rows
        BY <2>1, <1>6
      <3>. QED
        BY <2>1, <3>1, <1>6, <1>8 DEF PauseGateConsistent
    <2>2. ASSUME NEW k \in Workers, worker'[k].pc \in {"asr_gate", "sum_gate"},
                 worker'[k].wf \in rows' => snap'[worker'[k].wf].status # "paused"
          PROVE  control'[worker'[k].wf] # "clear"
      <3>1. Busy(k) /\ worker[k].wf # w /\ worker[k].wf \in Workflow
        BY <2>2, <1>5, <1>7 DEF Busy, BusyPc
      <3>. QED
        BY <2>2, <3>1, <1>6, <1>7 DEF PauseGateConsistent
    <2>. QED
      BY <2>1, <2>2 DEF PauseGateConsistent
  <1>14. QueueRowsWait'
    <2>. SUFFICES ASSUME NEW i \in DOMAIN queue', queue'[i].wf \in rows'
                  PROVE  snap'[queue'[i].wf].status \in {"queued", "cancelled"}
      BY DEF QueueRowsWait
    <2>1. CASE i \in DOMAIN queue
      BY <2>1, <1>3, <1>5, <1>6 DEF QueueRowsWait
    <2>2. CASE i = Len(queue) + 1
      BY <2>2, <1>2, <1>3, <1>6
    <2>. QED
      BY <2>1, <2>2, <1>4
  <1>15. ScheduledIsBorn'
    <2>1. ASSUME NEW i \in DOMAIN queue' PROVE queue'[i].wf <= born'
      <3>1. CASE i \in DOMAIN queue
        <4>1. queue[i].wf <= born /\ queue[i].wf \in Int
          BY <3>1, <1>5, SupervisorAssumption DEF ScheduledIsBorn, Workflow
        <4>. QED
          BY <4>1, <3>1, <1>3
      <3>2. CASE i = Len(queue) + 1
        BY <3>2, <1>2, <1>3
      <3>. QED
        BY <3>1, <3>2, <1>4
    <2>2. ASSUME NEW k \in Workers, Busy(k)' PROVE worker'[k].wf <= born'
      <3>1. worker[k].wf <= born /\ worker[k].wf \in Int
        BY <2>2, <1>5, <1>7, SupervisorAssumption DEF ScheduledIsBorn, Workflow
      <3>. QED
        BY <3>1, <1>7
    <2>. QED
      BY <2>1, <2>2 DEF ScheduledIsBorn
  <1>16. StoppedIsEmpty'
    BY DEF StoppedIsEmpty
  <1>. QED
    BY <1>9, <1>10, <1>11, <1>12, <1>13, <1>14, <1>15, <1>16

\* The id a new workflow gets is not enqueued.
LEMMA FreshLemma ==
  ASSUME IInv, born < N
  PROVE  /\ born + 1 \in Workflow /\ born + 1 \in 0 .. N /\ born <= born + 1
         /\ born + 1 \notin enqueued
  <1>1. born \in Nat /\ born + 1 \in Workflow /\ born + 1 \in 0 .. N
    BY SupervisorAssumption DEF IInv, TypeOK, Workflow
  <1>2. \A i \in DOMAIN queue : queue[i].wf # born + 1
    BY <1>1, EntryLemma, SupervisorAssumption DEF IInv, ScheduledIsBorn, Workflow
  <1>3. \A k \in Workers : ~Runs(k, born + 1)
    BY <1>1 DEF IInv, ScheduledIsBorn, Runs
  <1>. QED
    BY <1>1, <1>2, <1>3 DEF IInv, QueuedIsScheduled, InQueue

LEMMA SubmitInv ==
  ASSUME IInv, Submit
  PROVE  IInv'
  <1>1. /\ mode = "up" /\ born < N /\ born' = born + 1 /\ rows' = rows \cup {born + 1}
        /\ snap' = [snap EXCEPT ![born + 1] = InitialSnapshot]
        /\ control' = [control EXCEPT ![born + 1] = "set"]
        /\ Enqueue(born + 1, "none") /\ ops' = ops + 1
        /\ UNCHANGED <<mode, worker, tombstones, stops>>
    BY DEF Submit, Accepts
  <1>2. /\ born + 1 \in Workflow /\ born' \in 0 .. N /\ born <= born' /\ born + 1 <= born'
        /\ born + 1 \notin enqueued
    BY <1>1, FreshLemma DEF Workflow
  <1>. QED
    BY <1>1, <1>2, InitialLemma, EnqueuedInv

LEMMA ResummarizeInv ==
  ASSUME IInv, NEW v \in Workflow, Resummarize(v)
  PROVE  IInv'
  <1>1. /\ mode = "up" /\ born < N /\ born' = born + 1 /\ rows' = rows \cup {born + 1}
        /\ snap' = [snap EXCEPT ![born + 1] = ResummarizeSnapshot]
        /\ control' = [control EXCEPT ![born + 1] = "set"]
        /\ Enqueue(born + 1, "summarizing") /\ ops' = ops + 1
        /\ UNCHANGED <<mode, worker, tombstones, stops>>
    BY DEF Resummarize, Accepts
  <1>2. /\ born + 1 \in Workflow /\ born' \in 0 .. N /\ born <= born' /\ born + 1 <= born'
        /\ born + 1 \notin enqueued
    BY <1>1, FreshLemma DEF Workflow
  <1>3. "summarizing" \in RetryStage
    BY DEF RetryStage
  <1>. QED
    BY <1>1, <1>2, <1>3, ResummarizeLemma, EnqueuedInv

LEMMA RetryInv ==
  ASSUME IInv, NEW w \in Workflow, NEW from \in RetryStage \cup {"auto"}, Retry(w, from)
  PROVE  IInv'
  <1>. DEFINE stage == RetryStageOf(snap[w], from)
              n == RetrySnapshot(snap[w], stage)
  <1>1. /\ mode = "up" /\ w \in rows /\ snap[w].status \in Retryable
        /\ Commit(w, n) /\ Enqueue(w, stage)
        /\ control' = [control EXCEPT ![w] = "set"] /\ ops' = ops + 1
        /\ UNCHANGED <<rows, born, mode, worker, tombstones, stops>>
    BY DEF Retry, Accepts, MayRetry
  <1>2. snap[w] \in Snapshot /\ snap \in [Workflow -> Snapshot]
    BY RowLemma DEF IInv
  <1>3. stage \in RetryStage
    BY <1>2, RetryStageLemma
  <1>4. /\ n \in Snapshot /\ n.sequence > snap[w].sequence /\ n.status = "queued"
        /\ n.recommended = stage
    BY <1>2, <1>3, RetryLemma
  <1>5. w \notin enqueued
    <2>1. \A i \in DOMAIN queue : queue[i].wf # w
      BY <1>1 DEF IInv, QueueRowsWait, Retryable
    <2>2. ASSUME NEW k \in Workers, Runs(k, w) PROVE FALSE
      <3>1. PcOf(snap[w].status) = {}
        BY <1>1, PcOfLemma DEF Retryable
      <3>. QED
        BY <2>2, <3>1, <1>1 DEF IInv, StatusMatchesExecution, Runs
    <2>. QED
      BY <2>1, <2>2 DEF IInv, QueuedIsScheduled, InQueue
  <1>6. /\ rows' = rows \cup {w} /\ born' \in 0 .. N /\ born <= born' /\ w <= born'
    BY <1>1, SupervisorAssumption DEF IInv, TypeOK
  <1>. HIDE DEF n, stage
  <1>7. snap' = [snap EXCEPT ![w] = n]
    BY <1>1, <1>2, <1>4, CommitLemma
  <1>. QED
    BY <1>1, <1>3, <1>4, <1>5, <1>6, <1>7, EnqueuedInv

LEMMA ClearInv ==
  ASSUME IInv, NEW w \in Workflow, Clear(w)
  PROVE  IInv'
  <1>. USE DEF IInv, TypeOK
  <1>1. /\ mode = "up" /\ w \in rows /\ rows' = rows \ {w}
        /\ snap' = [snap EXCEPT ![w] = InitialSnapshot]
        /\ control' = [control EXCEPT ![w] = "absent"] /\ ops' = ops + 1
        /\ UNCHANGED <<born, mode, queue, enqueued, worker, tombstones, stops>>
    BY DEF Clear, Accepts
  <1>2. /\ snap' \in [Workflow -> Snapshot]
        /\ \A v \in rows' : v \in rows /\ snap'[v] = snap[v] /\ control'[v] = control[v]
        /\ control' \in [Workflow -> {"absent", "set", "clear"}]
        /\ control'[w] = "absent"
        /\ \A v \in Workflow : v # w => control'[v] = control[v]
    BY <1>1, InitialLemma, RowsLemma
  <1>3. \A k \in Workers : (Busy(k)' <=> Busy(k)) /\ worker'[k] = worker[k]
    BY <1>1 DEF Busy
  <1>4. TypeOK'
    BY <1>1, <1>2, <1>3
  <1>5. StatusMatchesExecution'
    BY <1>1, <1>2, <1>3 DEF StatusMatchesExecution, Runs
  <1>6. ExecutionOwnership'
    <2>1. ASSUME NEW k \in Workers, Busy(k)', worker'[k].wf \in rows'
          PROVE  worker'[k].attempt = snap'[worker'[k].wf].attempt
      BY <2>1, <1>2, <1>3 DEF ExecutionOwnership
    <2>. QED
      BY <2>1, <1>3 DEF ExecutionOwnership
  <1>7. QueuedIsScheduled'
    <2>1. ASSUME NEW v \in rows', snap'[v].status = "queued"
          PROVE  \E i \in DOMAIN queue' : queue'[i] = Entry(v, snap'[v].recommended)
      <3>1. v \in rows /\ snap[v] = snap'[v]
        BY <1>2
      <3>2. PICK i \in DOMAIN queue : queue[i] = Entry(v, snap[v].recommended)
        BY <2>1, <3>1, <1>1 DEF QueuedIsScheduled
      <3>. QED
        BY <3>1, <3>2, <1>1
    <2>. QED
      BY <2>1, <1>1, <1>3 DEF QueuedIsScheduled, Runs, InQueue
  <1>8. PauseGateConsistent'
    <2>1. ASSUME NEW v \in rows', snap'[v].status = "paused"
          PROVE  control'[v] = "clear"
      BY <2>1, <1>1, <1>2 DEF PauseGateConsistent
    <2>2. ASSUME NEW k \in Workers, worker'[k].pc \in {"asr_gate", "sum_gate"},
                 worker'[k].wf \in rows' => snap'[worker'[k].wf].status # "paused"
          PROVE  control'[worker'[k].wf] # "clear"
      <3>1. Busy(k) /\ worker[k].wf \in Workflow
        BY <2>2, <1>3 DEF Busy, BusyPc
      <3>2. CASE worker[k].wf = w
        BY <3>2, <1>2, <1>3
      <3>3. CASE worker[k].wf # w
        <4>1. worker[k].wf \in rows => worker[k].wf \in rows'
          BY <3>3, <1>1
        <4>. QED
          BY <2>2, <3>1, <3>3, <4>1, <1>2, <1>3 DEF PauseGateConsistent
      <3>. QED
        BY <3>2, <3>3
    <2>. QED
      BY <2>1, <2>2 DEF PauseGateConsistent
  <1>9. QueueRowsWait'
    BY <1>1, <1>2 DEF QueueRowsWait
  <1>10. ScheduledIsBorn' /\ StoppedIsEmpty'
    BY <1>1, <1>3 DEF ScheduledIsBorn, StoppedIsEmpty
  <1>. QED
    BY <1>4, <1>5, <1>6, <1>7, <1>8, <1>9, <1>10

-----------------------------------------------------------------------------
(* The theorems. *)

LEMMA InitInv == Init => IInv
  <1>. SUFFICES ASSUME Init PROVE IInv
    OBVIOUS
  <1>1. \A k \in Workers : worker[k] = Idle /\ ~Busy(k)
    BY IdleLemma DEF Init, Busy
  <1>2. DOMAIN queue = {} /\ queue \in Seq(Entries)
    BY DEF Init
  <1>3. TypeOK
    BY <1>1, <1>2, IdleLemma, InitialLemma, SupervisorAssumption DEF Init, TypeOK
  <1>4. /\ StatusMatchesExecution /\ ExecutionOwnership /\ QueueRowsWait
        /\ ScheduledIsBorn /\ StoppedIsEmpty
    BY <1>1, <1>2 DEF Init, StatusMatchesExecution, ExecutionOwnership, QueueRowsWait,
                      ScheduledIsBorn, StoppedIsEmpty
  <1>5. QueuedIsScheduled /\ PauseGateConsistent
    BY <1>1, <1>2 DEF Init, QueuedIsScheduled, PauseGateConsistent, Runs, InQueue, Idle
  <1>. QED
    BY <1>3, <1>4, <1>5 DEF IInv

\* A step that changes no variable.
LEMMA StutterInv ==
  ASSUME IInv, UNCHANGED vars
  PROVE  IInv'
  <1>1. \A k \in Workers : Busy(k)' <=> Busy(k)
    BY DEF vars, Busy
  <1>2. TypeOK' /\ QueueRowsWait' /\ StoppedIsEmpty' /\ PauseGateConsistent'
    BY <1>1 DEF vars, IInv, TypeOK, QueueRowsWait, StoppedIsEmpty, PauseGateConsistent
  <1>3. StatusMatchesExecution' /\ ExecutionOwnership' /\ ScheduledIsBorn'
    BY <1>1 DEF vars, IInv, StatusMatchesExecution, ExecutionOwnership, ScheduledIsBorn, Runs
  <1>4. QueuedIsScheduled'
    BY <1>1 DEF vars, IInv, QueuedIsScheduled, InQueue, Runs
  <1>. QED
    BY <1>2, <1>3, <1>4 DEF IInv

LEMMA RequestStepInv ==
  ASSUME IInv, NEW w \in Workflow, RequestStep(w)
  PROVE  IInv'
  BY ResummarizeInv, PauseInv, ResumeInv, CancelInv, RetryInv, ReviseTranscriptInv,
     ReviseFinalInv, ClearInv DEF RequestStep

LEMMA WorkerStepInv ==
  ASSUME IInv, NEW k \in Workers, WorkerStep(k)
  PROVE  IInv'
  <1>1. CASE TakeStep(k)
    BY <1>1, TakeSkippedInv, TakeTranscribeInv, TakeSummarizeInv, TakeWriteFinalInv,
       TakeFailsInv DEF TakeStep
  <1>2. CASE NextCall(k)
    BY <1>2, NextCallInv
  <1>3. CASE GateStep(k)
    BY <1>3, GateAbandonsInv, GateCancelsInv, GatePausesInv, PublishFailsInv,
       PublishTranscriptInv, PublishSummaryInv DEF GateStep
  <1>4. CASE ErrorStep(k)
    BY <1>4, ErrorStepInv
  <1>. QED
    BY <1>1, <1>2, <1>3, <1>4 DEF WorkerStep

\* Every step of the supervisor keeps the inductive invariant.
THEOREM StepKeepsInvariant == IInv /\ [Next]_vars => IInv'
  <1>. SUFFICES ASSUME IInv, [Next]_vars PROVE IInv'
    OBVIOUS
  <1>1. CASE Submit
    BY <1>1, SubmitInv
  <1>2. CASE \E w \in Workflow : RequestStep(w)
    BY <1>2, RequestStepInv
  <1>3. ASSUME NEW k \in Workers, WorkerStep(k) \/ Grant(k) \/ Reject(k) \/ Heartbeat(k)
        PROVE  IInv'
    BY <1>3, WorkerStepInv, GrantInv, RejectInv, HeartbeatInv
  <1>4. CASE \E k \in Workers : CrashBetweenCommits(k)
    BY <1>4, CrashBetweenCommitsInv
  <1>5. CASE ProcessStep
    BY <1>5, StartInv, GoneInv, ShutdownDrainInv, CrashInRecoveryInv DEF ProcessStep
  <1>6. CASE UNCHANGED vars
    BY <1>6, StutterInv
  <1>. QED
    BY <1>1, <1>2, <1>3, <1>4, <1>5, <1>6 DEF Next

\* In every reachable state of a run with any workflows, workers and bounds
\* the inductive invariant holds.
THEOREM InductiveInvariant == SafetySpec => []IInv
  BY InitInv, StepKeepsInvariant, PTL DEF SafetySpec

\* The registry, the queue, the events and the worker tasks keep their types.
THEOREM TypeCorrect == SafetySpec => []TypeOK
  <1>1. IInv => TypeOK
    BY DEF IInv
  <1>. QED
    BY <1>1, InductiveInvariant, PTL

\* A row that claims to be executing is executed by a worker suspended in a
\* matching await, whatever controls, retries, clears and restarts came before.
THEOREM StatusIsTrue == SafetySpec => []StatusMatchesExecution
  <1>1. IInv => StatusMatchesExecution
    BY DEF IInv
  <1>. QED
    BY <1>1, InductiveInvariant, PTL

\* No two workers ever execute one workflow, and no worker an old attempt.
THEOREM NoDoubleExecution == SafetySpec => []ExecutionOwnership
  <1>1. IInv => ExecutionOwnership
    BY DEF IInv
  <1>. QED
    BY <1>1, InductiveInvariant, PTL

\* Every queued row is scheduled exactly once, at the stage the row
\* recommends, and _enqueue never drops a retry because of a stale id.
THEOREM NothingStranded == SafetySpec => []QueuedIsScheduled
  <1>1. IInv => QueuedIsScheduled
    BY DEF IInv
  <1>. QED
    BY <1>1, InductiveInvariant, PTL

\* The pause event and the stored status never disagree.
THEOREM PauseIsEffective == SafetySpec => []PauseGateConsistent
  <1>1. IInv => PauseGateConsistent
    BY DEF IInv
  <1>. QED
    BY <1>1, InductiveInvariant, PTL

-----------------------------------------------------------------------------
(* The stages of a run. *)

AsrPc == {"asr_secret", "asr", "asr_gate"}
SumPc == {"sum_secret", "sum", "sum_gate"}

\* Row s is at the stage of the call a worker at pc makes for it, and the
\* retry it was queued with includes that stage.
Fits(pc, s) ==
  /\ pc \in AsrPc => s.stage = "transcribing" /\ s.recommended \in {"none", "transcribing"}
  /\ pc \in SumPc => s.stage = "summarizing" /\ s.recommended # "writing_final"

\* RetryStageHonoured, for one row.
Honoured(s) ==
  s.status \notin Terminal =>
    /\ s.recommended = "summarizing" => s.stage # "transcribing"
    /\ s.recommended = "writing_final" => s.stage \notin {"transcribing", "summarizing"}

GoodRow(s) == Honoured(s) /\ (s.status = "queued" => s.stage = "queued")

StageInv ==
  /\ \A w \in rows : GoodRow(snap[w])
  /\ \A k \in Workers : worker[k].wf \in rows => Fits(worker[k].pc, snap[worker[k].wf])

\* StageMonotone and CancelBlocksResults, for one row.
Advances(s, n) ==
  /\ n.attempt = s.attempt => StageRank[n.stage] >= StageRank[s.stage]
  /\ s.pending /\ s.status = "running" =>
       /\ n.transcript = s.transcript
       /\ n.status # "completed"
       /\ ~n.pending => n.status \in {"cancelled", "paused"}

RowsAdvance == \A w \in rows \cap rows' : Advances(snap[w], snap'[w])

Kept == StageInv' /\ RowsAdvance

\* The ranks of the stages, in order.
LEMMA RankLemma ==
  /\ \A a \in Stage : StageRank[a] \in 0 .. 6
  /\ StageRank["queued"] = 0 /\ StageRank["preparing"] = 1
  /\ StageRank["transcribing"] = 2 /\ StageRank["transcript_ready"] = 3
  /\ StageRank["summarizing"] = 4 /\ StageRank["writing_final"] = 5
  /\ StageRank["completed"] = 6
  BY DEF StageRank, Stage

\* A row that stays as it is advances.
LEMMA SameLemma ==
  ASSUME NEW s \in Snapshot
  PROVE  Advances(s, s)
  <1>1. s.stage \in Stage
    BY DEF Snapshot
  <1>2. StageRank[s.stage] >= StageRank[s.stage]
    BY <1>1, RankLemma
  <1>. QED
    BY <1>2 DEF Advances

-----------------------------------------------------------------------------
(* How steps change a row. *)

\* Shape 1: row w becomes n, and each worker is outside a call, in one that
\* fits n, or busy elsewhere as before.
LEMMA RowMoves ==
  ASSUME IInv, StageInv,
         NEW w \in rows, NEW n,
         snap' = [snap EXCEPT ![w] = n], rows' = rows,
         GoodRow(n), Advances(snap[w], n),
         \A k \in Workers : \/ worker'[k].pc \notin AsrPc \cup SumPc
                            \/ worker'[k].wf = w /\ Fits(worker'[k].pc, n)
                            \/ worker'[k].wf # w /\ worker'[k] = worker[k]
  PROVE  Kept
  <1>. w \in Workflow /\ snap \in [Workflow -> Snapshot] /\ rows \subseteq Workflow
    BY RowsLemma DEF IInv, TypeOK
  <1>1. snap'[w] = n /\ \A v \in Workflow : v # w => snap'[v] = snap[v]
    OBVIOUS
  <1>2. \A v \in rows' : GoodRow(snap'[v])
    BY <1>1 DEF StageInv
  <1>3. ASSUME NEW k \in Workers, worker'[k].wf \in rows'
        PROVE  Fits(worker'[k].pc, snap'[worker'[k].wf])
    <2>1. CASE worker'[k].pc \notin AsrPc \cup SumPc
      BY <2>1 DEF Fits
    <2>2. CASE worker'[k].wf = w /\ Fits(worker'[k].pc, n)
      BY <2>2, <1>1
    <2>3. CASE worker'[k].wf # w /\ worker'[k] = worker[k]
      BY <2>3, <1>1, <1>3 DEF StageInv
    <2>. QED
      BY <2>1, <2>2, <2>3
  <1>4. RowsAdvance
    BY <1>1, SameLemma DEF RowsAdvance
  <1>. QED
    BY <1>2, <1>3, <1>4 DEF Kept, StageInv

\* Shape 2: no row changes, and each worker is outside a call or in one of
\* the same stage as before.
LEMMA RowsStay ==
  ASSUME IInv, StageInv, UNCHANGED <<rows, snap>>,
         \A k \in Workers : \/ worker'[k].pc \notin AsrPc \cup SumPc
                            \/ /\ worker'[k].wf = worker[k].wf
                               /\ worker'[k].pc \in AsrPc => worker[k].pc \in AsrPc
                               /\ worker'[k].pc \in SumPc => worker[k].pc \in SumPc
  PROVE  Kept
  <1>1. \A w \in rows : snap[w] \in Snapshot
    BY RowsLemma DEF IInv, TypeOK
  <1>2. StageInv'
    BY DEF StageInv, Fits
  <1>3. RowsAdvance
    BY <1>1, SameLemma DEF RowsAdvance
  <1>. QED
    BY <1>2, <1>3 DEF Kept

\* Shape 3: row w keeps its stage and what a retry reads, and each worker
\* leaves its call or stays in one of the same stage.
LEMMA RowTouched ==
  ASSUME IInv, StageInv,
         NEW w \in rows, NEW n \in Snapshot,
         snap' = [snap EXCEPT ![w] = n], rows' = rows,
         n.stage = snap[w].stage, n.recommended = snap[w].recommended,
         n.transcript = snap[w].transcript,
         n.status \in Terminal \/ snap[w].status \notin Terminal \/ n.status = snap[w].status,
         n.status = "queued" => snap[w].status = "queued",
         snap[w].pending /\ snap[w].status = "running" =>
           /\ n.status # "completed"
           /\ ~n.pending => n.status \in {"cancelled", "paused"},
         \A k \in Workers : \/ worker'[k].pc \notin AsrPc \cup SumPc
                            \/ /\ worker'[k].wf = worker[k].wf
                               /\ worker'[k].pc \in AsrPc => worker[k].pc \in AsrPc
                               /\ worker'[k].pc \in SumPc => worker[k].pc \in SumPc
                               /\ worker'[k].wf # w => worker'[k] = worker[k]
  PROVE  Kept
  <1>1. GoodRow(n)
    BY DEF StageInv, GoodRow, Honoured
  <1>2. Advances(snap[w], n)
    <2>1. n.stage \in Stage
      BY DEF Snapshot
    <2>2. StageRank[n.stage] >= StageRank[snap[w].stage]
      BY <2>1, RankLemma
    <2>. QED
      BY <2>2 DEF Advances
  <1>3. ASSUME NEW k \in Workers, worker'[k].pc \in AsrPc \cup SumPc
        PROVE  \/ worker'[k].wf = w /\ Fits(worker'[k].pc, n)
               \/ worker'[k].wf # w /\ worker'[k] = worker[k]
    <2>1. /\ worker'[k].wf = worker[k].wf
          /\ worker'[k].pc \in AsrPc => worker[k].pc \in AsrPc
          /\ worker'[k].pc \in SumPc => worker[k].pc \in SumPc
          /\ worker'[k].wf # w => worker'[k] = worker[k]
      BY <1>3
    <2>2. CASE worker'[k].wf = w
      <3>1. Fits(worker[k].pc, snap[w])
        BY <2>1, <2>2 DEF StageInv
      <3>. QED
        BY <2>1, <2>2, <3>1 DEF Fits
    <2>. QED
      BY <2>1, <2>2
  <1>. QED
    BY <1>1, <1>2, <1>3, RowMoves

\* Shape 4: worker k, which alone holds w, leaves it with a terminal row.
LEMMA RunStops ==
  ASSUME IInv, StageInv,
         NEW k \in Workers, NEW w \in rows, Holds(k, w),
         NEW n \in Snapshot, snap' = [snap EXCEPT ![w] = n], rows' = rows,
         n.status \in Terminal, Advances(snap[w], n),
         worker' = [worker EXCEPT ![k] = Idle]
  PROVE  Kept
  <1>. w \in Workflow
    BY RowsLemma DEF IInv
  <1>1. \A j \in Workers : j # k => ~Runs(j, w)
    BY HeldLemma
  <1>2. GoodRow(n)
    BY DEF GoodRow, Honoured, Terminal
  <1>3. ASSUME NEW j \in Workers, worker'[j].pc \in AsrPc \cup SumPc
        PROVE  worker'[j].wf # w /\ worker'[j] = worker[j]
    <2>1. worker \in [Workers -> WorkerState]
      BY DEF IInv, TypeOK
    <2>2. worker'[k].pc = "idle"
      BY <2>1 DEF Idle
    <2>3. j # k
      BY <1>3, <2>2 DEF AsrPc, SumPc
    <2>4. worker'[j] = worker[j]
      BY <2>1, <2>3
    <2>5. Busy(j)
      BY <1>3, <2>4 DEF Busy, BusyPc, AsrPc, SumPc
    <2>. QED
      BY <1>1, <2>3, <2>4, <2>5 DEF Runs
  <1>. QED
    BY <1>2, <1>3, RowMoves

\* Shape 5: every worker leaves its call, and the rows move to good ones.
LEMMA AllStop ==
  ASSUME \A k \in Workers : worker'[k].pc \notin AsrPc \cup SumPc,
         rows' = rows,
         \A w \in rows : GoodRow(snap'[w]) /\ Advances(snap[w], snap'[w])
  PROVE  Kept
  BY DEF Kept, StageInv, Fits, RowsAdvance

-----------------------------------------------------------------------------
(* The stage and the pending control the snapshot functions return. *)

LEMMA ControlStages ==
  ASSUME NEW s \in Snapshot
  PROVE  /\ CancelRequested(s).stage = s.stage
         /\ CancelRequested(s).pending = (s.status = "running")
         /\ PauseApplied(s).stage = s.stage
         /\ ResumeApplied(s).stage = s.stage
  <1>. DEFINE st == IF s.status = "running" THEN "running" ELSE "cancelled"
  <1>1. CancelRequested(s) =
          [Touch(s) EXCEPT !.status = st, !.pending = (s.status = "running")]
    BY TouchLemma DEF CancelRequested
  <1>. HIDE DEF st
  <1>2. /\ CancelRequested(s).stage = s.stage
        /\ CancelRequested(s).pending = (s.status = "running")
    BY <1>1, TouchLemma DEF Snapshot
  <1>3. PauseApplied(s).stage = s.stage /\ ResumeApplied(s).stage = s.stage
    BY TouchLemma DEF PauseApplied, ResumeApplied, Snapshot
  <1>. QED
    BY <1>2, <1>3

LEMMA RevisionStages ==
  ASSUME NEW s \in Snapshot, NEW affects \in BOOLEAN
  PROVE  /\ TranscriptRevised(s, affects).stage = s.stage
         /\ TranscriptRevised(s, affects).pending = s.pending
         /\ FinalRevised(s).stage = s.stage
         /\ FinalRevised(s).pending = s.pending
  <1>1. Touch(s).checkpoint = s.checkpoint /\ Touch(s).final = s.final
    BY DEF Touch, Snapshot
  <1>2. /\ TranscriptRevised(s, TRUE).stage = s.stage
        /\ TranscriptRevised(s, TRUE).pending = s.pending
    <2>1. TranscriptRevised(s, TRUE) =
            [Touch(s) EXCEPT !.checkpoint = Stale(s.checkpoint), !.final = Stale(s.final)]
      BY <1>1, TouchLemma DEF TranscriptRevised
    <2>. QED
      BY <2>1, TouchLemma DEF Snapshot
  <1>3. /\ TranscriptRevised(s, FALSE).stage = s.stage
        /\ TranscriptRevised(s, FALSE).pending = s.pending
    BY TouchLemma DEF TranscriptRevised
  <1>4. FinalRevised(s).stage = s.stage /\ FinalRevised(s).pending = s.pending
    BY TouchLemma DEF FinalRevised, Snapshot
  <1>. QED
    BY <1>2, <1>3, <1>4

\* A run that ends without a result keeps its stage.
LEMMA EndStages ==
  ASSUME NEW s \in Snapshot
  PROVE  /\ Failed(s).stage = s.stage /\ Failed(s).pending = s.pending
         /\ Interrupted(s).stage = s.stage /\ Interrupted(s).pending = s.pending
         /\ Cancelled(s).stage = s.stage
  BY TouchLemma, InferStageLemma DEF Failed, Interrupted, Cancelled, Snapshot, Status

\* A published artifact moves the stage on.
LEMMA ResultStages ==
  ASSUME NEW s \in Snapshot
  PROVE  /\ TranscriptReady(s).stage = "transcript_ready"
         /\ CheckpointReady(s).stage = "writing_final"
         /\ Completed(s).stage = "completed"
  <1>1. TranscriptReady(s).stage = "transcript_ready"
    <2>1. WithTranscript(s) \in Snapshot
      BY DEF WithTranscript, Snapshot, Stale, Artifact
    <2>2. Touch(WithTranscript(s)) \in Snapshot
      BY <2>1, TouchLemma
    <2>. QED
      BY <2>2 DEF TranscriptReady, Snapshot
  <1>2. CheckpointReady(s).stage = "writing_final"
    BY TouchLemma DEF CheckpointReady, Snapshot
  <1>3. Completed(s).stage = "completed"
    BY TouchLemma DEF Completed, Snapshot
  <1>. QED
    BY <1>1, <1>2, <1>3

\* Before its first await a run is preparing, or at the stage it may skip to.
LEMMA PreparedStages ==
  ASSUME NEW s \in Snapshot
  PROVE  /\ Started(s).stage = "preparing" /\ Planned(s).stage = "preparing"
         /\ Reused(s).stage = "transcript_ready" /\ Writing(s).stage = "writing_final"
         /\ Planned(s) \in Snapshot /\ Reused(s) \in Snapshot /\ Writing(s) \in Snapshot
  <1>1. Started(s) \in Snapshot /\ Planned(s) \in Snapshot /\ Reused(s) \in Snapshot
        /\ Writing(s) \in Snapshot
    BY PreparedLemma
  <1>2. "running" \in Status /\ {"preparing", "transcript_ready", "writing_final"} \subseteq Stage
    BY DEF Status, Stage
  <1>3. Started(s).stage = "preparing"
    BY <1>2, TransitionLemma DEF Started
  <1>4. Planned(s).stage = "preparing"
    BY <1>1, <1>3, TouchLemma DEF Planned
  <1>5. Reused(s).stage = "transcript_ready" /\ Writing(s).stage = "writing_final"
    BY <1>1, <1>2, TransitionLemma DEF Reused, Writing
  <1>. QED
    BY <1>1, <1>3, <1>4, <1>5

-----------------------------------------------------------------------------
(* Requests that touch a row. *)

LEMMA PauseKept ==
  ASSUME IInv, StageInv, NEW w \in Workflow, Pause(w)
  PROVE  Kept
  <1>. DEFINE n == PauseApplied(snap[w])
  <1>1. /\ w \in rows /\ snap[w] \in Snapshot /\ snap[w].status = "running"
        /\ Commit(w, n) /\ UNCHANGED <<rows, worker>>
    BY RowLemma DEF Pause, CanPause, IInv
  <1>2. /\ n \in Snapshot /\ n.sequence > snap[w].sequence /\ n.status = "paused"
        /\ n.stage = snap[w].stage /\ n.recommended = snap[w].recommended
        /\ n.transcript = snap[w].transcript
    BY <1>1, PauseLemma, ControlStages
  <1>. HIDE DEF n
  <1>3. snap' = [snap EXCEPT ![w] = n]
    BY <1>1, <1>2, CommitLemma DEF IInv, TypeOK
  <1>. QED
    BY <1>1, <1>2, <1>3, RowTouched DEF Terminal

LEMMA ResumeKept ==
  ASSUME IInv, StageInv, NEW w \in Workflow, Resume(w)
  PROVE  Kept
  <1>. DEFINE n == ResumeApplied(snap[w])
  <1>1. /\ w \in rows /\ snap[w] \in Snapshot /\ snap[w].status = "paused"
        /\ Commit(w, n) /\ UNCHANGED <<rows, worker>>
    BY RowLemma DEF Resume, CanResume, IInv
  <1>2. /\ n \in Snapshot /\ n.sequence > snap[w].sequence /\ n.status = "running"
        /\ n.stage = snap[w].stage /\ n.recommended = snap[w].recommended
        /\ n.transcript = snap[w].transcript
    BY <1>1, ResumeLemma, ControlStages
  <1>. HIDE DEF n
  <1>3. snap' = [snap EXCEPT ![w] = n]
    BY <1>1, <1>2, CommitLemma DEF IInv, TypeOK
  <1>. QED
    BY <1>1, <1>2, <1>3, RowTouched DEF Terminal

LEMMA CancelKept ==
  ASSUME IInv, StageInv, NEW w \in Workflow, Cancel(w)
  PROVE  Kept
  <1>. DEFINE n == CancelRequested(snap[w])
  <1>1. /\ w \in rows /\ snap[w] \in Snapshot /\ snap[w].status \notin Terminal
        /\ Commit(w, n) /\ UNCHANGED rows
    BY RowLemma DEF Cancel, CanCancel, IInv, Terminal
  <1>2. /\ n \in Snapshot /\ n.sequence > snap[w].sequence
        /\ n.status = IF snap[w].status = "running" THEN "running" ELSE "cancelled"
        /\ n.stage = snap[w].stage /\ n.recommended = snap[w].recommended
        /\ n.transcript = snap[w].transcript
        /\ n.pending = (snap[w].status = "running")
    BY <1>1, CancelLemma, ControlStages
  <1>. HIDE DEF n
  <1>3. snap' = [snap EXCEPT ![w] = n]
    BY <1>1, <1>2, CommitLemma DEF IInv, TypeOK
  <1>4. ASSUME NEW k \in Workers
        PROVE  worker'[k].pc = "raising" \/ worker'[k] = worker[k]
    <2>1. worker[k] \in WorkerState
      BY DEF IInv, TypeOK
    <2>2. [worker[k] EXCEPT !.pc = "raising"].pc = "raising"
      BY <2>1 DEF WorkerState
    <2>. QED
      BY <2>2 DEF Cancel
  <1>5. "raising" \notin AsrPc \cup SumPc
    BY DEF AsrPc, SumPc
  <1>. QED
    BY <1>1, <1>2, <1>3, <1>4, <1>5, RowTouched DEF Terminal

LEMMA ReviseTranscriptKept ==
  ASSUME IInv, StageInv, NEW w \in Workflow, NEW affects \in BOOLEAN,
         ReviseTranscript(w, affects)
  PROVE  Kept
  <1>. DEFINE n == TranscriptRevised(snap[w], affects)
  <1>1. /\ w \in rows /\ snap[w] \in Snapshot
        /\ Commit(w, n) /\ UNCHANGED <<rows, worker>>
    BY RowLemma DEF ReviseTranscript, volatile, IInv
  <1>2. /\ n \in Snapshot /\ n.sequence > snap[w].sequence /\ n.status = snap[w].status
        /\ n.stage = snap[w].stage /\ n.recommended = snap[w].recommended
        /\ n.transcript = snap[w].transcript /\ n.pending = snap[w].pending
    BY <1>1, TranscriptRevisedLemma, RevisionStages
  <1>. HIDE DEF n
  <1>3. snap' = [snap EXCEPT ![w] = n]
    BY <1>1, <1>2, CommitLemma DEF IInv, TypeOK
  <1>. QED
    BY <1>1, <1>2, <1>3, RowTouched

LEMMA ReviseFinalKept ==
  ASSUME IInv, StageInv, NEW w \in Workflow, ReviseFinal(w)
  PROVE  Kept
  <1>. DEFINE n == FinalRevised(snap[w])
  <1>1. /\ w \in rows /\ snap[w] \in Snapshot
        /\ Commit(w, n) /\ UNCHANGED <<rows, worker>>
    BY RowLemma DEF ReviseFinal, volatile, IInv
  <1>2. /\ n \in Snapshot /\ n.sequence > snap[w].sequence /\ n.status = snap[w].status
        /\ n.stage = snap[w].stage /\ n.recommended = snap[w].recommended
        /\ n.transcript = snap[w].transcript /\ n.pending = snap[w].pending
    BY <1>1, FinalRevisedLemma, RevisionStages
  <1>. HIDE DEF n
  <1>3. snap' = [snap EXCEPT ![w] = n]
    BY <1>1, <1>2, CommitLemma DEF IInv, TypeOK
  <1>. QED
    BY <1>1, <1>2, <1>3, RowTouched

LEMMA HeartbeatKept ==
  ASSUME IInv, StageInv, NEW k \in Workers, Heartbeat(k)
  PROVE  Kept
  <1>. DEFINE w == worker[k].wf
              n == Touch(snap[w])
  <1>1. /\ w \in rows /\ Commit(w, n) /\ UNCHANGED <<rows, worker>>
    BY DEF Heartbeat, volatile
  <1>2. w \in Workflow /\ snap[w] \in Snapshot
    BY <1>1, RowsLemma, RowLemma DEF IInv
  <1>3. /\ n \in Snapshot /\ n.sequence > snap[w].sequence /\ n.status = snap[w].status
        /\ n.stage = snap[w].stage /\ n.recommended = snap[w].recommended
        /\ n.transcript = snap[w].transcript /\ n.pending = snap[w].pending
    BY <1>2, TouchLemma
  <1>. HIDE DEF w, n
  <1>4. snap' = [snap EXCEPT ![w] = n]
    BY <1>1, <1>2, <1>3, CommitLemma DEF IInv, TypeOK
  <1>. QED
    BY <1>1, <1>3, <1>4, RowTouched

-----------------------------------------------------------------------------
(* Credential answers and the pause gate. *)

LEMMA GrantKept ==
  ASSUME IInv, StageInv, NEW k \in Workers, Grant(k)
  PROVE  Kept
  <1>. DEFINE w == worker[k].wf
              pc == IF worker[k].pc = "asr_secret" THEN "asr" ELSE "sum"
              n == SecretGranted(snap[w])
  <1>1. /\ worker[k].pc \in {"asr_secret", "sum_secret"}
        /\ worker' = [worker EXCEPT ![k].pc = pc] /\ UNCHANGED <<rows, queue>>
    BY DEF Grant, SecretWait, IInv, TypeOK
  <1>2. Busy(k) /\ pc \in BusyPc /\ w \in Workflow
    BY <1>1, BusyLemma DEF Busy, BusyPc
  <1>3. /\ worker'[k].pc = pc
        /\ \A j \in Workers : j # k => worker'[j] = worker[j]
        /\ \A j \in Workers : worker'[j].wf = worker[j].wf
    <2>. HIDE DEF pc
    <2>. QED
      BY <1>1, <1>2, AwaitChanges DEF IInv
  <1>4. \A j \in Workers : /\ worker'[j].pc \in AsrPc => worker[j].pc \in AsrPc
                           /\ worker'[j].pc \in SumPc => worker[j].pc \in SumPc
                           /\ worker'[j].wf # w => worker'[j] = worker[j]
    BY <1>1, <1>3 DEF AsrPc, SumPc
  <1>5. CASE UNCHANGED snap
    BY <1>1, <1>3, <1>4, <1>5, RowsStay
  <1>6. CASE w \in rows /\ snap[w].status = "waiting_for_secret" /\ Commit(w, n)
    <2>1. snap[w] \in Snapshot /\ snap[w].stage \in Stage
      BY <1>2, RowLemma DEF IInv, Snapshot
    <2>2. /\ n \in Snapshot /\ n.sequence > snap[w].sequence /\ n.status = "running"
          /\ n.stage = snap[w].stage /\ n.recommended = snap[w].recommended
          /\ n.transcript = snap[w].transcript
      BY <2>1, TransitionLemma, CallStageLemma, SMTT(30) DEF SecretGranted
    <2>3. w \in rows /\ snap[w].status = "waiting_for_secret" /\ Commit(w, n)
      BY <1>6
    <2>. HIDE DEF n, w
    <2>4. snap' = [snap EXCEPT ![w] = n]
      BY <1>2, <2>2, <2>3, CommitLemma DEF IInv, TypeOK
    <2>. QED
      BY <1>1, <1>3, <1>4, <2>2, <2>3, <2>4, RowTouched, ZenonT(30) DEF Terminal
  <1>7. \/ UNCHANGED snap
        \/ w \in rows /\ snap[w].status = "waiting_for_secret" /\ Commit(w, n)
    BY DEF Grant
  <1>. QED
    BY <1>5, <1>6, <1>7

LEMMA RejectKept ==
  ASSUME IInv, StageInv, NEW k \in Workers, Reject(k)
  PROVE  Kept
  <1>1. /\ worker[k].pc \in SecretWait
        /\ worker' = [worker EXCEPT ![k].pc = "raising"]
        /\ UNCHANGED <<rows, snap>>
    BY DEF Reject, registry
  <1>2. Busy(k) /\ "raising" \in BusyPc
    BY <1>1 DEF Busy, BusyPc, SecretWait
  <1>3. /\ worker'[k].pc = "raising"
        /\ \A j \in Workers : j # k => worker'[j] = worker[j]
    BY <1>1, <1>2, AwaitChanges DEF IInv
  <1>. QED
    BY <1>1, <1>3, RowsStay DEF AsrPc, SumPc

LEMMA GatePausesKept ==
  ASSUME IInv, StageInv, NEW k \in Workers, NEW stage \in CallStage, GatePauses(k, stage)
  PROVE  Kept
  <1>1. /\ ReachesGate(k, stage) /\ worker[k].pc = CallPc[stage]
        /\ worker' = [worker EXCEPT ![k].pc = GatePc[stage]]
        /\ UNCHANGED <<rows, snap>>
    BY DEF GatePauses, registry
  <1>2. Busy(k) /\ GatePc[stage] \in BusyPc
    BY <1>1, GateLemma DEF GatePc, CallStage, BusyPc
  <1>3. /\ worker'[k].pc = GatePc[stage]
        /\ \A j \in Workers : j # k => worker'[j] = worker[j]
        /\ \A j \in Workers : worker'[j].wf = worker[j].wf
    BY <1>1, <1>2, AwaitChanges DEF IInv
  <1>4. /\ GatePc[stage] \in AsrPc => CallPc[stage] \in AsrPc
        /\ GatePc[stage] \in SumPc => CallPc[stage] \in SumPc
    BY DEF GatePc, CallPc, CallStage, AsrPc, SumPc
  <1>. QED
    BY <1>1, <1>3, <1>4, RowsStay

-----------------------------------------------------------------------------
(* Steps that end a run. *)

\* Who leaves a run makes no call.
LEMMA LeavesLemma ==
  ASSUME IInv, StageInv, NEW k \in Workers, UNCHANGED <<rows, snap>>,
         worker' = [worker EXCEPT ![k] = Idle] \/ worker' = [worker EXCEPT ![k] = Dead]
  PROVE  Kept
  <1>1. worker \in [Workers -> WorkerState]
    BY DEF IInv, TypeOK
  <1>2. worker'[k].pc \in {"idle", "dead"} /\ \A j \in Workers : j # k => worker'[j] = worker[j]
    BY <1>1 DEF Idle, Dead
  <1>. QED
    BY <1>2, RowsStay DEF AsrPc, SumPc

LEMMA TakeSkippedKept ==
  ASSUME IInv, StageInv, NEW k \in Workers, TakeSkipped(k)
  PROVE  Kept
  BY LeavesLemma DEF TakeSkipped, registry, Release

LEMMA GateAbandonsKept ==
  ASSUME IInv, StageInv, NEW k \in Workers, NEW stage \in CallStage, GateAbandons(k, stage)
  PROVE  Kept
  BY LeavesLemma DEF GateAbandons, Release

\* A queued row has no rank to lose and no cancel to honour.
LEMMA QueuedAdvances ==
  ASSUME IInv, StageInv, NEW w \in rows, snap[w].status = "queued", NEW n \in Snapshot
  PROVE  Advances(snap[w], n)
  <1>1. snap[w].stage = "queued" /\ n.stage \in Stage
    BY DEF StageInv, GoodRow, Snapshot
  <1>2. StageRank[n.stage] >= 0
    BY <1>1, RankLemma
  <1>. QED
    BY <1>1, <1>2, RankLemma DEF Advances

LEMMA TakeWriteFinalKept ==
  ASSUME IInv, StageInv, NEW k \in Workers, TakeWriteFinal(k)
  PROVE  Kept
  <1>. DEFINE w == Head(queue).wf
              t == Writing(snap[w])
              n == Completed(t)
  <1>1. /\ Takes(k) /\ queue' = Tail(queue) /\ w \in rows /\ snap[w].status = "queued"
        /\ Commit(w, n) /\ worker' = [worker EXCEPT ![k] = Idle] /\ UNCHANGED rows
    BY DEF TakeWriteFinal, Runnable, Release
  <1>2. w \in Workflow /\ Holds(k, w) /\ snap[w] \in Snapshot
    BY <1>1, TakesLemma, RowLemma DEF IInv
  <1>3. t \in Snapshot /\ t.sequence > snap[w].sequence
    BY <1>2, PreparedLemma
  <1>4. n \in Snapshot /\ n.sequence > t.sequence /\ n.status \in Terminal
    BY <1>3, CompletedLemma DEF Terminal
  <1>. HIDE DEF w, t, n
  <1>5. n.sequence > snap[w].sequence
    BY <1>2, <1>3, <1>4 DEF Snapshot
  <1>6. snap' = [snap EXCEPT ![w] = n]
    BY <1>1, <1>2, <1>4, <1>5, CommitLemma DEF IInv, TypeOK
  <1>7. Advances(snap[w], n)
    BY <1>1, <1>4, QueuedAdvances
  <1>. QED
    BY <1>1, <1>2, <1>4, <1>6, <1>7, RunStops

LEMMA TakeFailsKept ==
  ASSUME IInv, StageInv, NEW k \in Workers, TakeFails(k)
  PROVE  Kept
  <1>. DEFINE w == Head(queue).wf
  <1>1. /\ Takes(k) /\ queue' = Tail(queue) /\ w \in rows /\ snap[w].status = "queued"
        /\ worker' = [worker EXCEPT ![k] = Idle] /\ UNCHANGED rows
    BY DEF TakeFails, Runnable, Release
  <1>2. w \in Workflow /\ Holds(k, w) /\ snap[w] \in Snapshot
    BY <1>1, TakesLemma, RowLemma DEF IInv
  <1>3. PICK s \in Prepared(snap[w], Head(queue).from) : Commit(w, Failed(s))
    BY DEF TakeFails
  <1>4. s \in Snapshot /\ s.sequence > snap[w].sequence
    BY <1>2, PreparedLemma DEF Prepared
  <1>5. /\ Failed(s) \in Snapshot /\ Failed(s).sequence > snap[w].sequence
        /\ Failed(s).status \in Terminal
    BY <1>2, <1>4, FailedAfter
  <1>. HIDE DEF w
  <1>6. snap' = [snap EXCEPT ![w] = Failed(s)]
    BY <1>2, <1>3, <1>5, CommitLemma DEF IInv, TypeOK
  <1>7. Advances(snap[w], Failed(s))
    BY <1>1, <1>5, QueuedAdvances
  <1>. QED
    BY <1>1, <1>2, <1>5, <1>6, <1>7, RunStops

\* A row that ends where it is advances, when a pending cancel ends it cancelled
\* or stays recorded.
LEMMA EndAdvances ==
  ASSUME NEW s \in Snapshot,
         NEW n \in {Failed(s), Cancelled(s), Interrupted(s)}
  PROVE  Advances(s, n)
  <1>1. s.stage \in Stage /\ n.stage = s.stage
    BY EndStages DEF Snapshot
  <1>2. StageRank[n.stage] >= StageRank[s.stage]
    BY <1>1, RankLemma
  <1>3. n.transcript = s.transcript /\ n.status # "completed"
    BY FailedLemma, CancelledLemma, InterruptedLemma
  <1>4. n.status = "cancelled" \/ n.pending = s.pending
    BY EndStages, CancelledLemma
  <1>. QED
    BY <1>2, <1>3, <1>4 DEF Advances

LEMMA GateCancelsKept ==
  ASSUME IInv, StageInv, NEW k \in Workers, NEW stage \in CallStage, GateCancels(k, stage)
  PROVE  Kept
  <1>. DEFINE w == worker[k].wf
              n == Cancelled(snap[w])
  <1>1. /\ ReachesGate(k, stage) /\ w \in rows /\ Commit(w, n)
        /\ worker' = [worker EXCEPT ![k] = Idle] /\ UNCHANGED <<rows, queue>>
    BY DEF GateCancels, Release
  <1>2. w \in Workflow /\ Holds(k, w) /\ snap[w] \in Snapshot
    BY <1>1, GateLemma, BusyLemma
  <1>3. /\ n \in Snapshot /\ (n.sequence > snap[w].sequence \/ n = snap[w])
        /\ n.status \in Terminal /\ Advances(snap[w], n)
    BY <1>2, CancelledLemma, EndAdvances DEF Terminal
  <1>. HIDE DEF w, n
  <1>4. snap' = [snap EXCEPT ![w] = n]
    BY <1>1, <1>2, <1>3, CommitLemma DEF IInv, TypeOK
  <1>. QED
    BY <1>1, <1>2, <1>3, <1>4, RunStops

LEMMA RaiseKept ==
  ASSUME IInv, StageInv, NEW k \in Workers, Busy(k),
         NEW asCancelled \in BOOLEAN, Raise(k, asCancelled), UNCHANGED <<rows, queue>>
  PROVE  Kept
  <1>. DEFINE w == worker[k].wf
              n == Handled(snap[w], asCancelled)
  <1>1. w \in Workflow /\ Holds(k, w) /\ snap[w] \in Snapshot
    BY BusyLemma, RowLemma DEF IInv
  <1>2. CASE w \in rows
    <2>1. /\ n \in Snapshot /\ (n.sequence > snap[w].sequence \/ n = snap[w])
          /\ n.status \in Terminal /\ Advances(snap[w], n)
      <3>1. CASE snap[w].status \in Terminal
        BY <1>1, <3>1, SameLemma DEF Handled
      <3>2. CASE snap[w].status \notin Terminal /\ (snap[w].pending \/ asCancelled)
        <4>1. n = Cancelled(snap[w])
          BY <3>2 DEF Handled
        <4>. QED
          BY <1>1, <4>1, CancelledLemma, EndAdvances DEF Terminal
      <3>3. CASE snap[w].status \notin Terminal /\ ~(snap[w].pending \/ asCancelled)
        <4>1. n = Failed(snap[w])
          BY <3>3 DEF Handled
        <4>. QED
          BY <1>1, <4>1, FailedLemma, EndAdvances DEF Terminal
      <3>. QED
        BY <3>1, <3>2, <3>3
    <2>2. Commit(w, n) /\ worker' = [worker EXCEPT ![k] = Idle]
      BY <1>2 DEF Raise, Release
    <2>. HIDE DEF w, n
    <2>3. snap' = [snap EXCEPT ![w] = n]
      BY <1>1, <2>1, <2>2, CommitLemma DEF IInv, TypeOK
    <2>. QED
      BY <1>1, <1>2, <2>1, <2>2, <2>3, RunStops
  <1>3. CASE w \notin rows
    BY <1>3, LeavesLemma DEF Raise
  <1>. QED
    BY <1>2, <1>3

LEMMA ErrorStepKept ==
  ASSUME IInv, StageInv, NEW k \in Workers, ErrorStep(k)
  PROVE  Kept
  <1>1. ASSUME NEW asCancelled \in BOOLEAN, CallFails(k, asCancelled)
        PROVE  Kept
    <2>1. Busy(k)
      BY <1>1 DEF CallFails, Busy, BusyPc
    <2>. QED
      BY <1>1, <2>1, RaiseKept DEF CallFails
  <1>2. CASE SecretTimeout(k)
    <2>1. Busy(k)
      BY <1>2 DEF SecretTimeout, Busy, BusyPc, SecretWait
    <2>. QED
      BY <1>2, <2>1, RaiseKept DEF SecretTimeout
  <1>3. CASE SecretRaises(k)
    <2>1. Busy(k)
      BY <1>3 DEF SecretRaises, Busy, BusyPc
    <2>. QED
      BY <1>3, <2>1, RaiseKept DEF SecretRaises
  <1>. QED
    BY <1>1, <1>2, <1>3 DEF ErrorStep

-----------------------------------------------------------------------------
(* Steps that enter a call. *)

\* The row a call leaves behind: base, or base waiting for a credential.
LEMMA CallRow ==
  ASSUME snap \in [Workflow -> Snapshot], NEW k, NEW w \in Workflow,
         NEW base \in Snapshot, NEW stage \in CallStage, NEW calls,
         base.sequence > snap[w].sequence \/ base = snap[w],
         base.stage = stage,
         BeginCall(k, w, base, stage, calls)
  PROVE  \E n \in Snapshot, pc \in {CallPc[stage], SecretPc[stage]} :
           /\ snap' = [snap EXCEPT ![w] = n]
           /\ n = base \/ n.status = "waiting_for_secret"
           /\ n.stage = stage /\ n.attempt = base.attempt
           /\ n.recommended = base.recommended
           /\ n.transcript = base.transcript /\ n.pending = base.pending
           /\ worker' = [worker EXCEPT ![k] =
                           [pc |-> pc, wf |-> w, attempt |-> base.attempt, calls |-> calls]]
  <1>1. stage \in Stage /\ "waiting_for_secret" \in Status
    BY DEF CallStage, Stage, Status
  <1>2. CASE NeedsSecret(w, stage)
    <2>. DEFINE n == WaitingForSecret(base, stage)
    <2>1. /\ n \in Snapshot /\ n.sequence > base.sequence
          /\ n.status = "waiting_for_secret" /\ n.stage = stage
          /\ n.attempt = base.attempt /\ n.recommended = base.recommended
          /\ n.transcript = base.transcript /\ n.pending = base.pending
      BY <1>1, TransitionLemma DEF WaitingForSecret
    <2>2. n.sequence > snap[w].sequence
      BY <2>1 DEF Snapshot
    <2>3. Commit(w, n)
      BY <1>2 DEF BeginCall
    <2>4. worker' = [worker EXCEPT ![k] =
                       [pc |-> SecretPc[stage], wf |-> w, attempt |-> base.attempt,
                        calls |-> calls]]
      BY <1>2 DEF BeginCall
    <2>. HIDE DEF n
    <2>5. snap' = [snap EXCEPT ![w] = n]
      BY <2>1, <2>2, <2>3, CommitLemma
    <2>. QED
      BY <2>1, <2>4, <2>5
  <1>3. CASE ~NeedsSecret(w, stage)
    <2>1. snap' = [snap EXCEPT ![w] = base]
      BY <1>3, CommitLemma DEF BeginCall
    <2>2. worker' = [worker EXCEPT ![k] =
                       [pc |-> CallPc[stage], wf |-> w, attempt |-> base.attempt,
                        calls |-> calls]]
      BY <1>3 DEF BeginCall
    <2>. QED
      BY <2>1, <2>2
  <1>. QED
    BY <1>2, <1>3

\* A call may begin when the retry includes its stage, the stage is not an
\* earlier one, and a pending cancel is still pending.
LEMMA BeginCallKept ==
  ASSUME IInv, StageInv,
         NEW k \in Workers, NEW w \in rows, Holds(k, w),
         NEW base \in Snapshot, NEW stage \in CallStage, NEW calls \in Nat,
         base.sequence > snap[w].sequence \/ base = snap[w],
         base.stage = stage, base.status # "queued",
         stage = "transcribing" => base.recommended \in {"none", "transcribing"},
         stage = "summarizing" => base.recommended # "writing_final",
         Advances(snap[w], base),
         snap[w].pending /\ snap[w].status = "running" => base.pending,
         BeginCall(k, w, base, stage, calls), rows' = rows
  PROVE  Kept
  <1>. w \in Workflow
    BY RowsLemma DEF IInv
  <1>1. PICK n \in Snapshot, pc \in {CallPc[stage], SecretPc[stage]} :
           /\ snap' = [snap EXCEPT ![w] = n]
           /\ n = base \/ n.status = "waiting_for_secret"
           /\ n.stage = stage /\ n.attempt = base.attempt
           /\ n.recommended = base.recommended
           /\ n.transcript = base.transcript /\ n.pending = base.pending
           /\ worker' = [worker EXCEPT ![k] =
                           [pc |-> pc, wf |-> w, attempt |-> base.attempt, calls |-> calls]]
    BY CallRow DEF IInv, TypeOK
  <1>2. /\ stage \in {"transcribing", "summarizing"}
        /\ pc \in AsrPc => stage = "transcribing"
        /\ pc \in SumPc => stage = "summarizing"
        /\ pc \in BusyPc
    BY DEF CallStage, CallPc, SecretPc, AsrPc, SumPc, BusyPc
  <1>3. Fits(pc, n)
    BY <1>1, <1>2 DEF Fits
  <1>4. GoodRow(n)
    BY <1>1, <1>2 DEF GoodRow, Honoured
  <1>5. Advances(snap[w], n)
    BY <1>1 DEF Advances
  <1>6. /\ worker'[k].pc = pc /\ worker'[k].wf = w
        /\ \A j \in Workers : j # k => worker'[j] = worker[j]
    <2>1. base.attempt \in Nat /\ worker \in [Workers -> WorkerState]
      BY DEF Snapshot, IInv, TypeOK
    <2>. QED
      BY <1>1, <1>2, <2>1, EnteringWorker
  <1>7. \A j \in Workers : j # k /\ worker[j].pc \in AsrPc \cup SumPc => worker[j].wf # w
    <2>1. \A j \in Workers : j # k => ~Runs(j, w)
      BY HeldLemma
    <2>. QED
      BY <2>1 DEF Runs, Busy, BusyPc, AsrPc, SumPc
  <1>8. ASSUME NEW j \in Workers, worker'[j].pc \in AsrPc \cup SumPc
        PROVE  \/ worker'[j].wf = w /\ Fits(worker'[j].pc, n)
               \/ worker'[j].wf # w /\ worker'[j] = worker[j]
    BY <1>3, <1>6, <1>7, <1>8
  <1>. QED
    BY <1>1, <1>4, <1>5, <1>8, RowMoves

\* The entry a worker takes carries the stage its row recommends.
LEMMA HeadRecommends ==
  ASSUME IInv, NEW k \in Workers, Takes(k), Runnable(Head(queue).wf)
  PROVE  snap[Head(queue).wf].recommended = Head(queue).from
  <1>. DEFINE w == Head(queue).wf
  <1>1. 1 \in DOMAIN queue /\ Head(queue) = queue[1]
    BY DEF Takes, IInv, TypeOK
  <1>2. PICK i \in DOMAIN queue : queue[i] = Entry(w, snap[w].recommended)
    BY DEF Takes, Runnable, IInv, QueuedIsScheduled
  <1>3. i = 1
    BY <1>1, <1>2 DEF Entry, IInv, QueuedIsScheduled
  <1>. QED
    BY <1>1, <1>2, <1>3 DEF Entry

LEMMA TakeTranscribeKept ==
  ASSUME IInv, StageInv, NEW k \in Workers, TakeTranscribe(k)
  PROVE  Kept
  <1>. DEFINE w == Head(queue).wf
              p == Planned(snap[w])
              base == Transition(p, "running", "transcribing")
  <1>1. /\ Takes(k) /\ queue' = Tail(queue) /\ w \in rows /\ snap[w].status = "queued"
        /\ UNCHANGED rows /\ BeginCall(k, w, base, "transcribing", 0)
        /\ snap[w].recommended \in {"none", "transcribing"}
    BY HeadRecommends DEF TakeTranscribe, Runnable
  <1>2. w \in Workflow /\ Holds(k, w) /\ snap[w] \in Snapshot
    BY <1>1, TakesLemma, RowLemma DEF IInv
  <1>3. p \in Snapshot /\ p.sequence > snap[w].sequence /\ p.recommended = snap[w].recommended
    BY <1>2, PreparedLemma
  <1>4. /\ base \in Snapshot /\ base.sequence > p.sequence /\ base.status = "running"
        /\ base.stage = "transcribing" /\ base.recommended = p.recommended
    BY <1>3, TransitionLemma, CallStageLemma
  <1>. HIDE DEF w, p, base
  <1>5. base.sequence > snap[w].sequence
    BY <1>2, <1>3, <1>4 DEF Snapshot
  <1>6. Advances(snap[w], base)
    BY <1>1, <1>4, QueuedAdvances
  <1>. QED
    BY <1>1, <1>2, <1>3, <1>4, <1>5, <1>6, BeginCallKept, CallStageLemma

LEMMA TakeSummarizeKept ==
  ASSUME IInv, StageInv, NEW k \in Workers, TakeSummarize(k)
  PROVE  Kept
  <1>. DEFINE w == Head(queue).wf
              p == Reused(snap[w])
              base == Transition(p, "running", "summarizing")
  <1>1. /\ Takes(k) /\ queue' = Tail(queue) /\ w \in rows /\ snap[w].status = "queued"
        /\ UNCHANGED rows /\ BeginCall(k, w, base, "summarizing", 1)
        /\ snap[w].recommended = "summarizing"
    BY HeadRecommends DEF TakeSummarize, Runnable
  <1>2. w \in Workflow /\ Holds(k, w) /\ snap[w] \in Snapshot
    BY <1>1, TakesLemma, RowLemma DEF IInv
  <1>3. p \in Snapshot /\ p.sequence > snap[w].sequence /\ p.recommended = snap[w].recommended
    BY <1>2, PreparedLemma
  <1>4. /\ base \in Snapshot /\ base.sequence > p.sequence /\ base.status = "running"
        /\ base.stage = "summarizing" /\ base.recommended = p.recommended
    BY <1>3, TransitionLemma, CallStageLemma
  <1>. HIDE DEF w, p, base
  <1>5. base.sequence > snap[w].sequence
    BY <1>2, <1>3, <1>4 DEF Snapshot
  <1>6. Advances(snap[w], base)
    BY <1>1, <1>4, QueuedAdvances
  <1>. QED
    BY <1>1, <1>2, <1>3, <1>4, <1>5, <1>6, BeginCallKept, CallStageLemma

LEMMA NextCallKept ==
  ASSUME IInv, StageInv, NEW k \in Workers, NextCall(k)
  PROVE  Kept
  <1>. DEFINE w == worker[k].wf
  <1>1. worker[k].pc = "sum" /\ UNCHANGED <<rows, queue>>
    BY DEF NextCall
  <1>2. Busy(k) /\ w \in Workflow /\ Holds(k, w) /\ worker[k].calls + 1 \in Nat
    BY <1>1, BusyLemma DEF Busy, BusyPc
  <1>3. CASE w \in rows
    <2>1. /\ snap[w] \in Snapshot /\ snap[w].stage = "summarizing"
          /\ snap[w].recommended # "writing_final" /\ snap[w].status # "queued"
      BY <1>1, <1>2, <1>3, BusyLemma DEF StageInv, Fits, SumPc, Active
    <2>2. BeginCall(k, w, snap[w], "summarizing", worker[k].calls + 1)
      BY <1>3 DEF NextCall
    <2>3. Advances(snap[w], snap[w])
      BY <2>1, SameLemma
    <2>. HIDE DEF w
    <2>. QED
      BY <1>1, <1>2, <1>3, <2>1, <2>2, <2>3, BeginCallKept, CallStageLemma
  <1>4. CASE w \notin rows
    BY <1>1, <1>4, LeavesLemma DEF NextCall, Release
  <1>. QED
    BY <1>3, <1>4

-----------------------------------------------------------------------------
(* Results. *)

\* A worker that passes a gate is at the stage of its row, and no cancel of
\* the row is pending.
LEMMA PassesStage ==
  ASSUME IInv, StageInv, NEW k \in Workers, NEW stage \in CallStage, Passes(k, stage)
  PROVE  /\ ~snap[worker[k].wf].pending
         /\ snap[worker[k].wf].stage = stage
         /\ stage = "transcribing" =>
              snap[worker[k].wf].recommended \in {"none", "transcribing"}
  <1>1. worker[k].wf \in rows /\ worker[k].pc \in {CallPc[stage], GatePc[stage]}
        /\ ~snap[worker[k].wf].pending
    BY DEF Passes, ReachesGate
  <1>2. Fits(worker[k].pc, snap[worker[k].wf])
    BY <1>1 DEF StageInv
  <1>. QED
    BY <1>1, <1>2 DEF CallStage, CallPc, GatePc, Fits, AsrPc, SumPc

\* A step to a later stage of a row without a pending cancel advances it.
LEMMA LaterAdvances ==
  ASSUME NEW s \in Snapshot, NEW n \in Snapshot, ~s.pending,
         StageRank[n.stage] >= StageRank[s.stage]
  PROVE  Advances(s, n)
  BY DEF Advances

LEMMA PublishTranscriptKept ==
  ASSUME IInv, StageInv, NEW k \in Workers, PublishTranscript(k)
  PROVE  Kept
  <1>. DEFINE w == worker[k].wf
              r == TranscriptReady(snap[w])
              base == Transition(r, "running", "summarizing")
  <1>1. /\ Passes(k, "transcribing") /\ UNCHANGED <<rows, queue>>
        /\ BeginCall(k, w, base, "summarizing", 1)
    BY DEF PublishTranscript
  <1>2. w \in Workflow /\ w \in rows /\ Holds(k, w) /\ snap[w] \in Snapshot
    BY <1>1, PassesLemma, CallStageLemma
  <1>3. /\ ~snap[w].pending /\ snap[w].stage = "transcribing"
        /\ snap[w].recommended \in {"none", "transcribing"}
    BY <1>1, PassesStage, CallStageLemma
  <1>4. r \in Snapshot /\ r.sequence > snap[w].sequence /\ r.recommended = snap[w].recommended
    BY <1>2, TranscriptReadyLemma
  <1>5. /\ base \in Snapshot /\ base.sequence > r.sequence /\ base.status = "running"
        /\ base.stage = "summarizing" /\ base.recommended = r.recommended
    BY <1>4, TransitionLemma, CallStageLemma
  <1>. HIDE DEF w, r, base
  <1>6. base.sequence > snap[w].sequence
    BY <1>2, <1>4, <1>5 DEF Snapshot
  <1>7. Advances(snap[w], base)
    <2>1. StageRank[base.stage] >= StageRank[snap[w].stage]
      BY <1>3, <1>5, RankLemma
    <2>. QED
      BY <1>2, <1>3, <1>5, <2>1, LaterAdvances
  <1>. QED
    BY <1>1, <1>2, <1>3, <1>4, <1>5, <1>6, <1>7, BeginCallKept, CallStageLemma

LEMMA PublishSummaryKept ==
  ASSUME IInv, StageInv, NEW k \in Workers, PublishSummary(k)
  PROVE  Kept
  <1>. DEFINE w == worker[k].wf
              r == CheckpointReady(snap[w])
              n == Completed(r)
  <1>1. /\ Passes(k, "summarizing") /\ UNCHANGED <<rows, queue>> /\ Commit(w, n)
        /\ worker' = [worker EXCEPT ![k] = Idle]
    BY DEF PublishSummary, Release
  <1>2. w \in Workflow /\ w \in rows /\ Holds(k, w) /\ snap[w] \in Snapshot
    BY <1>1, PassesLemma, CallStageLemma
  <1>3. ~snap[w].pending /\ snap[w].stage = "summarizing"
    BY <1>1, PassesStage, CallStageLemma
  <1>4. r \in Snapshot /\ r.sequence > snap[w].sequence
    BY <1>2, CheckpointReadyLemma
  <1>5. /\ n \in Snapshot /\ n.sequence > r.sequence /\ n.status \in Terminal
        /\ n.stage = "completed"
    BY <1>4, CompletedLemma, ResultStages DEF Terminal
  <1>. HIDE DEF w, r, n
  <1>6. n.sequence > snap[w].sequence
    BY <1>2, <1>4, <1>5 DEF Snapshot
  <1>7. snap' = [snap EXCEPT ![w] = n]
    BY <1>1, <1>2, <1>5, <1>6, CommitLemma DEF IInv, TypeOK
  <1>8. Advances(snap[w], n)
    <2>1. StageRank[n.stage] >= StageRank[snap[w].stage]
      BY <1>3, <1>5, RankLemma
    <2>. QED
      BY <1>2, <1>3, <1>5, <2>1, LaterAdvances
  <1>. QED
    BY <1>1, <1>2, <1>5, <1>7, <1>8, RunStops

\* The first artifact of a passed gate is of a later stage.
LEMMA FirstCommitLemma ==
  ASSUME NEW s \in Snapshot, NEW stage \in CallStage, s.stage = stage
  PROVE  /\ FirstCommit(s, stage) \in Snapshot
         /\ FirstCommit(s, stage).sequence > s.sequence
         /\ FirstCommit(s, stage).status = s.status
         /\ FirstCommit(s, stage).stage \in {"transcript_ready", "writing_final"}
         /\ StageRank[FirstCommit(s, stage).stage] >= StageRank[s.stage]
  <1>1. CASE stage = "transcribing"
    <2>1. FirstCommit(s, stage) = TranscriptReady(s)
      BY <1>1 DEF FirstCommit
    <2>2. TranscriptReady(s).stage = "transcript_ready"
      BY ResultStages
    <2>3. StageRank[TranscriptReady(s).stage] >= StageRank[s.stage]
      BY <1>1, <2>2, RankLemma
    <2>. QED
      BY <2>1, <2>2, <2>3, TranscriptReadyLemma
  <1>2. CASE stage = "summarizing"
    <2>1. FirstCommit(s, stage) = CheckpointReady(s)
      BY <1>2 DEF FirstCommit
    <2>2. CheckpointReady(s).stage = "writing_final"
      BY ResultStages
    <2>3. StageRank[CheckpointReady(s).stage] >= StageRank[s.stage]
      BY <1>2, <2>2, RankLemma
    <2>. QED
      BY <2>1, <2>2, <2>3, CheckpointReadyLemma
  <1>. QED
    BY <1>1, <1>2 DEF CallStage

LEMMA PublishFailsKept ==
  ASSUME IInv, StageInv, NEW k \in Workers, NEW stage \in CallStage, PublishFails(k, stage)
  PROVE  Kept
  <1>. DEFINE w == worker[k].wf
              f == FirstCommit(snap[w], stage)
  <1>1. /\ Passes(k, stage) /\ UNCHANGED <<rows, queue>>
        /\ worker' = [worker EXCEPT ![k] = Idle]
    BY DEF PublishFails, Release
  <1>2. PICK s \in {snap[w], f} : Commit(w, Failed(s))
    BY DEF PublishFails
  <1>3. w \in Workflow /\ w \in rows /\ Holds(k, w) /\ snap[w] \in Snapshot
    BY <1>1, PassesLemma
  <1>4. ~snap[w].pending /\ snap[w].stage = stage
    BY <1>1, PassesStage
  <1>5. /\ f \in Snapshot /\ f.sequence > snap[w].sequence
        /\ StageRank[f.stage] >= StageRank[snap[w].stage]
    BY <1>3, <1>4, FirstCommitLemma
  <1>. HIDE DEF w, f
  <1>6. /\ Failed(s) \in Snapshot /\ Failed(s).sequence > snap[w].sequence
        /\ Failed(s).status \in Terminal /\ Failed(s).stage = s.stage
    BY <1>3, <1>5, FailedAfter, EndStages
  <1>7. snap' = [snap EXCEPT ![w] = Failed(s)]
    BY <1>2, <1>3, <1>6, CommitLemma DEF IInv, TypeOK
  <1>8. Advances(snap[w], Failed(s))
    <2>1. snap[w].stage \in Stage
      BY <1>3 DEF Snapshot
    <2>2. StageRank[Failed(s).stage] >= StageRank[snap[w].stage]
      BY <1>5, <1>6, <2>1, RankLemma
    <2>. QED
      BY <1>3, <1>4, <1>6, <2>2, LaterAdvances
  <1>. QED
    BY <1>1, <1>3, <1>6, <1>7, <1>8, RunStops

-----------------------------------------------------------------------------
(* Requests that schedule or remove a row. *)

\* A row that is scheduled, for a new workflow or a new attempt.
LEMMA EnqueuedKept ==
  ASSUME IInv, StageInv,
         NEW w \in Workflow, NEW n \in Snapshot,
         \A k \in Workers : ~Runs(k, w),
         n.status = "queued", n.stage = "queued",
         w \in rows => n.attempt # snap[w].attempt /\ snap[w].status # "running",
         snap' = [snap EXCEPT ![w] = n], rows' = rows \cup {w}, UNCHANGED worker
  PROVE  Kept
  <1>1. /\ snap'[w] = n /\ \A v \in Workflow : v # w => snap'[v] = snap[v]
        /\ \A v \in rows : v \in Workflow /\ snap[v] \in Snapshot
    BY RowsLemma DEF IInv, TypeOK
  <1>2. GoodRow(n)
    BY DEF GoodRow, Honoured
  <1>3. \A v \in rows' : GoodRow(snap'[v])
    BY <1>1, <1>2 DEF StageInv
  <1>4. ASSUME NEW k \in Workers, worker'[k].wf \in rows'
        PROVE  Fits(worker'[k].pc, snap'[worker'[k].wf])
    <2>1. CASE worker[k].pc \notin AsrPc \cup SumPc
      BY <2>1 DEF Fits
    <2>2. CASE worker[k].pc \in AsrPc \cup SumPc
      <3>1. worker[k].wf # w
        BY <2>2 DEF Runs, Busy, BusyPc, AsrPc, SumPc
      <3>. QED
        BY <3>1, <1>1, <1>4 DEF StageInv
    <2>. QED
      BY <2>1, <2>2
  <1>5. w \in rows => Advances(snap[w], n)
    BY DEF Advances
  <1>6. RowsAdvance
    BY <1>1, <1>5, SameLemma DEF RowsAdvance
  <1>. QED
    BY <1>3, <1>4, <1>6 DEF Kept, StageInv

\* The stage of the snapshots that are scheduled.
LEMMA ScheduledStages ==
  /\ InitialSnapshot.stage = "queued" /\ ResummarizeSnapshot.stage = "queued"
  /\ \A s \in Snapshot, stage \in RetryStage : RetrySnapshot(s, stage).stage = "queued"
  <1>1. InitialSnapshot.stage = "queued"
    BY DEF InitialSnapshot
  <1>2. ResummarizeSnapshot.stage = "queued"
    BY <1>1, InitialLemma DEF ResummarizeSnapshot, Snapshot
  <1>3. ASSUME NEW s \in Snapshot, NEW stage \in RetryStage
        PROVE  RetrySnapshot(s, stage).stage = "queued"
    <2>. DEFINE q == Transition(s, "queued", "queued")
    <2>1. q \in Snapshot /\ q.stage = "queued"
      BY TransitionLemma DEF Status, Stage
    <2>2. RetrySnapshot(s, stage) = [q EXCEPT !.attempt = q.attempt + 1, !.pending = FALSE,
                                              !.recommended = stage]
      BY <2>1 DEF RetrySnapshot, Snapshot
    <2>. HIDE DEF q
    <2>. QED
      BY <2>1, <2>2 DEF Snapshot
  <1>. QED
    BY <1>1, <1>2, <1>3

\* Nobody runs a workflow that has just been born, and it has no row.
LEMMA UnbornLemma ==
  ASSUME IInv, born < N
  PROVE  /\ born + 1 \in Workflow /\ born + 1 \notin rows
         /\ \A k \in Workers : ~Runs(k, born + 1)
  <1>1. born + 1 \in Workflow /\ born + 1 \notin enqueued
    BY FreshLemma
  <1>2. born \in Nat /\ rows \subseteq 1 .. born
    BY SupervisorAssumption DEF IInv, TypeOK
  <1>3. born + 1 \notin rows
    BY <1>2
  <1>4. \A k \in Workers : ~Runs(k, born + 1)
    BY <1>1 DEF IInv, QueuedIsScheduled
  <1>. QED
    BY <1>1, <1>3, <1>4

LEMMA SubmitKept ==
  ASSUME IInv, StageInv, Submit
  PROVE  Kept
  BY UnbornLemma, InitialLemma, ScheduledStages, EnqueuedKept DEF Submit

LEMMA ResummarizeKept ==
  ASSUME IInv, StageInv, NEW v \in Workflow, Resummarize(v)
  PROVE  Kept
  BY UnbornLemma, ResummarizeLemma, ScheduledStages, EnqueuedKept DEF Resummarize

LEMMA RetryKept ==
  ASSUME IInv, StageInv, NEW w \in Workflow, NEW from \in RetryStage \cup {"auto"},
         Retry(w, from)
  PROVE  Kept
  <1>. DEFINE stage == RetryStageOf(snap[w], from)
              n == RetrySnapshot(snap[w], stage)
  <1>1. /\ w \in rows /\ snap[w].status \in Retryable
        /\ Commit(w, n) /\ UNCHANGED <<rows, worker>>
    BY DEF Retry, MayRetry
  <1>2. snap[w] \in Snapshot /\ snap[w].attempt \in Nat
    BY RowLemma DEF IInv, Snapshot
  <1>3. stage \in RetryStage
    BY <1>2, RetryStageLemma
  <1>4. /\ n \in Snapshot /\ n.sequence > snap[w].sequence /\ n.status = "queued"
        /\ n.stage = "queued" /\ n.attempt = snap[w].attempt + 1
    BY <1>2, <1>3, RetryLemma, ScheduledStages
  <1>5. ASSUME NEW k \in Workers, Runs(k, w)
        PROVE  FALSE
    <2>1. PcOf(snap[w].status) = {}
      BY <1>1, PcOfLemma DEF Retryable
    <2>. QED
      BY <1>1, <1>5, <2>1 DEF IInv, StatusMatchesExecution, Runs
  <1>. HIDE DEF n, stage
  <1>6. snap' = [snap EXCEPT ![w] = n]
    BY <1>1, <1>4, CommitLemma DEF IInv, TypeOK
  <1>7. n.attempt # snap[w].attempt /\ snap[w].status # "running" /\ rows' = rows \cup {w}
    BY <1>1, <1>2, <1>4 DEF Retryable
  <1>. QED
    BY <1>1, <1>4, <1>5, <1>6, <1>7, EnqueuedKept

LEMMA ClearKept ==
  ASSUME IInv, StageInv, NEW w \in Workflow, Clear(w)
  PROVE  Kept
  <1>1. rows' = rows \ {w} /\ UNCHANGED worker /\ snap' = [snap EXCEPT ![w] = InitialSnapshot]
    BY DEF Clear
  <1>2. \A v \in rows' : v \in rows /\ snap'[v] = snap[v] /\ snap[v] \in Snapshot
    BY <1>1, RowsLemma DEF IInv, TypeOK
  <1>3. StageInv'
    BY <1>1, <1>2 DEF StageInv
  <1>4. RowsAdvance
    BY <1>2, SameLemma DEF RowsAdvance
  <1>. QED
    BY <1>3, <1>4 DEF Kept

-----------------------------------------------------------------------------
(* Process steps. *)

\* An interrupted row is good, whatever it was.
LEMMA RecoveredKept ==
  ASSUME NEW s \in Snapshot, GoodRow(s)
  PROVE  GoodRow(Recovered(s)) /\ Advances(s, Recovered(s))
  <1>1. CASE s.status \in Active
    <2>1. Recovered(s) = Interrupted(s) /\ Interrupted(s).status = "interrupted"
      BY <1>1, InterruptedLemma DEF Recovered
    <2>2. GoodRow(Interrupted(s))
      BY <2>1 DEF GoodRow, Honoured, Terminal
    <2>. QED
      BY <2>1, <2>2, EndAdvances
  <1>2. CASE s.status \notin Active
    BY <1>2, SameLemma DEF Recovered
  <1>. QED
    BY <1>1, <1>2

LEMMA IdleCalls ==
  /\ Idle.pc \notin AsrPc \cup SumPc
  /\ \A k \in Workers : [j \in Workers |-> Idle][k] = Idle
  BY DEF Idle, AsrPc, SumPc

\* The rows while the process goes away or recovers: some are interrupted.
LEMMA SomeRecovered ==
  ASSUME IInv, StageInv, NEW R,
         snap' = [w \in Workflow |-> IF w \in R THEN Recovered(snap[w]) ELSE snap[w]],
         UNCHANGED rows,
         \A k \in Workers : worker'[k] = Idle
  PROVE  Kept
  <1>1. \A w \in rows : /\ w \in Workflow /\ snap[w] \in Snapshot /\ GoodRow(snap[w])
                        /\ snap'[w] \in {snap[w], Recovered(snap[w])}
    BY RowsLemma DEF IInv, TypeOK, StageInv
  <1>2. \A w \in rows : GoodRow(snap'[w]) /\ Advances(snap[w], snap'[w])
    BY <1>1, RecoveredKept, SameLemma
  <1>. QED
    BY <1>2, AllStop, IdleCalls

LEMMA GoneKept ==
  ASSUME IInv, StageInv, DrainDone \/ Crash \/ ShutdownInterrupt
  PROVE  Kept
  <1>1. ProcessGone /\ UNCHANGED rows
    BY DEF DrainDone, Crash, ShutdownInterrupt, registry
  <1>2. \A k \in Workers : worker'[k] = Idle
    BY <1>1 DEF ProcessGone
  <1>3. CASE DrainDone \/ Crash
    BY <1>1, <1>2, <1>3, RowsStay, IdleCalls DEF DrainDone, Crash, registry
  <1>4. CASE ShutdownInterrupt
    BY <1>1, <1>2, <1>4, SomeRecovered DEF ShutdownInterrupt
  <1>. QED
    BY <1>3, <1>4

LEMMA CrashInRecoveryKept ==
  ASSUME IInv, StageInv, CrashInRecovery
  PROVE  Kept
  <1>1. PICK last \in Workflow :
          snap' = [w \in Workflow |-> IF w \in rows /\ w >= last
                                        THEN Recovered(snap[w]) ELSE snap[w]]
    BY DEF CrashInRecovery
  <1>2. mode = "down" /\ UNCHANGED <<rows, worker>>
    BY DEF CrashInRecovery, volatile
  <1>3. \A k \in Workers : worker'[k] = Idle
    BY <1>2 DEF IInv, StoppedIsEmpty
  <1>. DEFINE R == {w \in rows : w >= last}
  <1>4. snap' = [w \in Workflow |-> IF w \in R THEN Recovered(snap[w]) ELSE snap[w]]
    BY <1>1
  <1>. HIDE DEF R
  <1>. QED
    BY <1>2, <1>3, <1>4, SomeRecovered

LEMMA StartKept ==
  ASSUME IInv, StageInv, Start
  PROVE  Kept
  <1>1. /\ snap' = [w \in Workflow |-> IF w \in rows THEN Recovered(snap[w]) ELSE snap[w]]
        /\ mode = "down" /\ UNCHANGED <<rows, worker>>
    BY DEF Start
  <1>2. \A k \in Workers : worker'[k] = Idle
    BY <1>1 DEF IInv, StoppedIsEmpty
  <1>. QED
    BY <1>1, <1>2, SomeRecovered

\* A crash after one commit: the row is the old one or the committed one.
LEMMA CommitThenGone ==
  ASSUME IInv, StageInv, NEW w \in rows, NEW n \in Snapshot, Commit(w, n),
         GoodRow(n), Advances(snap[w], n),
         ProcessGone, UNCHANGED rows
  PROVE  Kept
  <1>1. /\ w \in Workflow
        /\ \A v \in rows : v \in Workflow /\ snap[v] \in Snapshot /\ GoodRow(snap[v])
    BY RowsLemma DEF IInv, TypeOK, StageInv
  <1>2. snap'[w] \in {n, snap[w]} /\ \A v \in Workflow : v # w => snap'[v] = snap[v]
    BY <1>1 DEF Commit, Saved, IInv, TypeOK
  <1>3. \A v \in rows : GoodRow(snap'[v]) /\ Advances(snap[v], snap'[v])
    BY <1>1, <1>2, SameLemma
  <1>4. \A k \in Workers : worker'[k] = Idle
    BY DEF ProcessGone
  <1>. QED
    BY <1>3, <1>4, AllStop, IdleCalls

LEMMA CrashBetweenCommitsKept ==
  ASSUME IInv, StageInv, NEW k \in Workers, CrashBetweenCommits(k)
  PROVE  Kept
  <1>1. ProcessGone /\ UNCHANGED rows
    BY DEF CrashBetweenCommits
  <1>2. ASSUME Takes(k), Runnable(Head(queue).wf),
               NEW n \in Prepared(snap[Head(queue).wf], Head(queue).from),
               Commit(Head(queue).wf, n)
        PROVE  Kept
    <2>. DEFINE w == Head(queue).wf
    <2>1. w \in rows /\ snap[w].status = "queued" /\ snap[w] \in Snapshot
      BY <1>2, RowsLemma, RowLemma DEF Runnable, IInv
    <2>2. n \in {Started(snap[w]), Planned(snap[w]), Reused(snap[w]), Writing(snap[w])}
      BY <1>2 DEF Prepared
    <2>3. /\ n \in Snapshot /\ n.status = "running"
          /\ n.stage \in {"preparing", "transcript_ready", "writing_final"}
      BY <2>1, <2>2, PreparedLemma, PreparedStages
    <2>4. Commit(w, n)
      BY <1>2
    <2>. HIDE DEF w
    <2>5. GoodRow(n)
      BY <2>3 DEF GoodRow, Honoured
    <2>6. Advances(snap[w], n)
      BY <2>1, <2>3, QueuedAdvances
    <2>. QED
      BY <1>1, <2>1, <2>3, <2>4, <2>5, <2>6, CommitThenGone
  <1>3. ASSUME NEW stage \in CallStage, Passes(k, stage),
               Commit(worker[k].wf, FirstCommit(snap[worker[k].wf], stage))
        PROVE  Kept
    <2>. DEFINE w == worker[k].wf
                f == FirstCommit(snap[w], stage)
    <2>1. w \in rows /\ snap[w] \in Snapshot
      BY <1>3, RowsLemma, RowLemma DEF Passes, IInv
    <2>2. ~snap[w].pending /\ snap[w].stage = stage
      BY <1>3, PassesStage
    <2>3. /\ f \in Snapshot /\ f.status = snap[w].status
          /\ f.stage \in {"transcript_ready", "writing_final"}
          /\ StageRank[f.stage] >= StageRank[snap[w].stage]
      BY <2>1, <2>2, FirstCommitLemma
    <2>4. snap[w].status # "queued"
      <3>1. GoodRow(snap[w])
        BY <2>1 DEF StageInv
      <3>. QED
        BY <2>2, <3>1 DEF GoodRow, CallStage
    <2>5. Commit(w, f)
      BY <1>3
    <2>. HIDE DEF w, f
    <2>6. GoodRow(f)
      BY <2>3, <2>4 DEF GoodRow, Honoured
    <2>7. Advances(snap[w], f)
      BY <2>1, <2>2, <2>3, LaterAdvances
    <2>. QED
      BY <1>1, <2>1, <2>3, <2>5, <2>6, <2>7, CommitThenGone
  <1>. QED
    BY <1>2, <1>3 DEF CrashBetweenCommits

-----------------------------------------------------------------------------
(* The theorems. *)

LEMMA RequestStepKept ==
  ASSUME IInv, StageInv, NEW w \in Workflow, RequestStep(w)
  PROVE  Kept
  BY ResummarizeKept, PauseKept, ResumeKept, CancelKept, RetryKept, ReviseTranscriptKept,
     ReviseFinalKept, ClearKept DEF RequestStep

LEMMA WorkerStepKept ==
  ASSUME IInv, StageInv, NEW k \in Workers, WorkerStep(k)
  PROVE  Kept
  <1>1. CASE TakeStep(k)
    BY <1>1, TakeSkippedKept, TakeTranscribeKept, TakeSummarizeKept, TakeWriteFinalKept,
       TakeFailsKept DEF TakeStep
  <1>2. CASE NextCall(k)
    BY <1>2, NextCallKept
  <1>3. CASE GateStep(k)
    BY <1>3, GateAbandonsKept, GateCancelsKept, GatePausesKept, PublishFailsKept,
       PublishTranscriptKept, PublishSummaryKept DEF GateStep
  <1>4. CASE ErrorStep(k)
    BY <1>4, ErrorStepKept
  <1>. QED
    BY <1>1, <1>2, <1>3, <1>4 DEF WorkerStep

\* Every step keeps the invariant and moves each row forward.
LEMMA StepKept ==
  ASSUME IInv, StageInv, [Next]_vars
  PROVE  Kept
  <1>1. CASE Submit
    BY <1>1, SubmitKept
  <1>2. CASE \E w \in Workflow : RequestStep(w)
    BY <1>2, RequestStepKept
  <1>3. ASSUME NEW k \in Workers, WorkerStep(k) \/ Grant(k) \/ Reject(k) \/ Heartbeat(k)
        PROVE  Kept
    BY <1>3, WorkerStepKept, GrantKept, RejectKept, HeartbeatKept
  <1>4. CASE \E k \in Workers : CrashBetweenCommits(k)
    BY <1>4, CrashBetweenCommitsKept
  <1>5. CASE ProcessStep
    <2>1. CASE ShutdownDrain
      BY <2>1, RowsStay DEF ShutdownDrain, registry, volatile
    <2>. QED
      BY <1>5, <2>1, StartKept, GoneKept, CrashInRecoveryKept DEF ProcessStep
  <1>6. CASE UNCHANGED vars
    BY <1>6, RowsStay DEF vars
  <1>. QED
    BY <1>1, <1>2, <1>3, <1>4, <1>5, <1>6 DEF Next

LEMMA InitStages == Init => StageInv
  BY DEF Init, StageInv

\* In every reachable state each call is of the stage its row says, and of a
\* stage the retry of the row includes.
THEOREM StagesInvariant == SafetySpec => [](IInv /\ StageInv)
  <1>1. Init => IInv /\ StageInv
    BY InitInv, InitStages
  <1>2. IInv /\ StageInv /\ [Next]_vars => (IInv /\ StageInv)'
    BY StepKeepsInvariant, StepKept DEF Kept
  <1>. QED
    BY <1>1, <1>2, PTL DEF SafetySpec

\* A retry from summarizing never transcribes again, and one from
\* writing_final calls no provider, whatever crashes, restarts, pauses and
\* credential waits its attempt goes through.
THEOREM RetryRunsItsStages == SafetySpec => []RetryStageHonoured
  <1>1. StageInv => RetryStageHonoured
    BY DEF StageInv, GoodRow, Honoured, RetryStageHonoured
  <1>. QED
    BY <1>1, StagesInvariant, PTL

\* The stage that is shown for an attempt never moves back.
THEOREM StagesMoveOn == SafetySpec => StageMonotone
  <1>1. ASSUME IInv, StageInv, [Next]_vars
        PROVE  \A w \in rows \cap rows' : snap'[w].attempt = snap[w].attempt =>
                 StageRank[snap'[w].stage] >= StageRank[snap[w].stage]
    BY <1>1, StepKept DEF Kept, RowsAdvance, Advances
  <1>. QED
    BY <1>1, StagesInvariant, PTL DEF SafetySpec, StageMonotone

\* No result of an attempt is published while its cancel is pending, and the
\* cancel is dropped only by a pause or by reaching cancelled.
THEOREM PendingCancelHolds == SafetySpec => CancelBlocksResults
  <1>1. ASSUME IInv, StageInv, [Next]_vars
        PROVE  \A w \in Workflow : CancelPending(w) /\ w \in rows' =>
                 /\ snap'[w].transcript = snap[w].transcript
                 /\ snap'[w].status # "completed"
                 /\ ~snap'[w].pending => snap'[w].status \in {"cancelled", "paused"}
    BY <1>1, StepKept DEF Kept, RowsAdvance, Advances, CancelPending
  <1>. QED
    BY <1>1, StagesInvariant, PTL DEF SafetySpec, CancelBlocksResults
=============================================================================
