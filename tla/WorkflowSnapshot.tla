------------------------- MODULE WorkflowSnapshot -------------------------
(***************************************************************************)
(* The persisted WorkflowSnapshot and the pure functions that compute the  *)
(* next one: workflow/state_machine.py and the snapshot helpers at the end *)
(* of workflow/supervisor.py.  A snapshot keeps what the supervisor        *)
(* branches on.  Progress ratios, timestamps, the immutable spec and the   *)
(* text of artifacts are left out.  The artifact list is abstracted to     *)
(* what retry selection reads: whether a transcript exists (the code never *)
(* marks one stale), and whether the newest checkpoint and final summary   *)
(* are absent, fresh or stale.                                             *)
(***************************************************************************)
EXTENDS Naturals

Status == {"queued", "running", "paused", "waiting_for_secret", "completed",
           "failed", "cancelled", "interrupted"}

Terminal == {"completed", "failed", "cancelled", "interrupted"}

\* The statuses active_snapshots() lists: a restart interrupts exactly these.
Active == {"running", "paused", "waiting_for_secret"}

Retryable == {"failed", "completed", "interrupted"}

Stage == {"queued", "preparing", "transcribing", "transcript_ready",
          "summarizing", "writing_final", "completed"}

RetryStage == {"transcribing", "summarizing", "writing_final"}

Artifact == {"none", "fresh", "stale"}

Snapshot == [status: Status, stage: Stage, sequence: Nat, attempt: Nat,
             pending: BOOLEAN, recommended: RetryStage \cup {"none"},
             transcript: BOOLEAN, checkpoint: Artifact, final: Artifact]

-----------------------------------------------------------------------------
\* create_initial_snapshot: attempt 1, sequence 1, no artifacts.
InitialSnapshot ==
  [status |-> "queued", stage |-> "queued", sequence |-> 1, attempt |-> 1,
   pending |-> FALSE, recommended |-> "none", transcript |-> FALSE,
   checkpoint |-> "none", final |-> "none"]

\* resummarize: an initial snapshot that already owns a copied transcript.
ResummarizeSnapshot ==
  [InitialSnapshot EXCEPT !.transcript = TRUE, !.recommended = "summarizing"]

\* Mutated form: the stage the run had reached is recommended as it is.
InferStageAsReached(s) == s.stage

\* infer_recovery_stage and _infer_retry_stage, which are the same function.
InferStage(s) ==
  CASE s.checkpoint = "fresh"                   -> "writing_final"
    [] s.checkpoint # "fresh" /\ s.transcript   -> "summarizing"
    [] s.checkpoint # "fresh" /\ ~s.transcript  -> "transcribing"

\* Every save advances the sequence.  One that does no more than that stores
\* the runtime plan or a heartbeat.
Touch(s) == [s EXCEPT !.sequence = @ + 1]

Transition(s, status, stage) == [Touch(s) EXCEPT !.status = status, !.stage = stage]


-----------------------------------------------------------------------------
\* _apply_control, split by action.  A cancel of a running workflow is only
\* recorded; a pause clears whatever was pending.
CanCancel(s) == s.status \in {"queued", "waiting_for_secret", "running", "paused"}

CancelRequested(s) ==
  [Touch(s) EXCEPT !.status = IF @ = "running" THEN "running" ELSE "cancelled",
                   !.pending = (s.status = "running")]

CanPause(s) == s.status = "running"

PauseApplied(s) == [Touch(s) EXCEPT !.status = "paused", !.pending = FALSE]

CanResume(s) == s.status = "paused"

ResumeApplied(s) == [Touch(s) EXCEPT !.status = "running", !.pending = FALSE]

-----------------------------------------------------------------------------
\* mark_interrupted, with the stage infer_recovery_stage recommends.
Interrupted(s) ==
  [Touch(s) EXCEPT !.status = "interrupted", !.recommended = InferStage(s)]

\* _failed_snapshot.
Failed(s) ==
  [Touch(s) EXCEPT !.status = "failed", !.recommended = InferStage(s)]

\* _cancelled_snapshot.
Cancelled(s) ==
  IF s.status = "cancelled" /\ ~s.pending
    THEN s
    ELSE [Touch(s) EXCEPT !.status = "cancelled", !.pending = FALSE]

\* mark_waiting_for_secret: no look at the current status, unlike every
\* other transition.
WaitingForSecret(s, stage) == Transition(s, "waiting_for_secret", stage)

\* Mutated form: every credential is taken for that of the transcription.
SecretGrantedAsTranscribing(s) == Transition(s, "running", "transcribing")

\* mark_secret_granted: the stage is the one the wait was entered in.
SecretGranted(s) == Transition(s, "running", s.stage)

\* retry_snapshot: from is "auto" or a RetryStage.
RetryStageOf(s, from) ==
  CASE from # "auto"                                -> from
    [] from = "auto" /\ s.recommended # "none"      -> s.recommended
    [] from = "auto" /\ s.recommended = "none"      -> InferStage(s)

\* Mutated form: the chosen stage is handed to the queue but not persisted.
RetryWithoutRecommendation(s, stage) ==
  [Transition(s, "queued", "queued") EXCEPT !.attempt = @ + 1, !.pending = FALSE]

RetrySnapshot(s, stage) ==
  [Transition(s, "queued", "queued") EXCEPT
     !.attempt = @ + 1, !.pending = FALSE, !.recommended = stage]

-----------------------------------------------------------------------------
Stale(a) == IF a = "none" THEN "none" ELSE "stale"

\* _add_artifact of a transcript marks every summary artifact stale.
WithTranscript(s) ==
  [s EXCEPT !.transcript = TRUE, !.checkpoint = Stale(@), !.final = Stale(@)]

\* The commit that publishes a transcription result.
TranscriptReady(s) == [Touch(WithTranscript(s)) EXCEPT !.stage = "transcript_ready"]

\* The commit that publishes a summary checkpoint.
CheckpointReady(s) == [Touch(s) EXCEPT !.checkpoint = "fresh", !.stage = "writing_final"]

\* The commit that publishes the final summary and completes the workflow.
Completed(s) ==
  [Touch(s) EXCEPT !.final = "fresh", !.status = "completed", !.stage = "completed"]

\* register_revision of a transcript; affects says whether the edited
\* transcript is an input of the existing summary artifacts.
TranscriptRevised(s, affects) ==
  IF affects
    THEN [Touch(s) EXCEPT !.checkpoint = Stale(@), !.final = Stale(@)]
    ELSE Touch(s)

\* register_revision of a final summary: the edited copy is a fresh artifact
\* even when its source is stale.
FinalRevised(s) == [Touch(s) EXCEPT !.final = "fresh"]
=============================================================================
