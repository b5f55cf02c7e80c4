------------------------ MODULE WorkflowSupervisor ------------------------
(***************************************************************************)
(* workflow/supervisor.py over workflow/registry.py: the persisted rows,   *)
(* the FIFO queue, the worker tasks, pause/resume/cancel, retry, clear,    *)
(* the credential wait, shutdown, crash and restart.                       *)
(*                                                                         *)
(* The supervisor runs on one asyncio loop, so an action is the code       *)
(* between two awaits that really suspend: the queue get, the native       *)
(* transcription, a provider call, the credential wait and the pause       *)
(* event.  The production event sink only appends or writes under an       *)
(* uncontended lock, so publishing an event does not suspend.  A worker's  *)
(* pc names the await it is suspended in:                                  *)
(*   idle        queue.get                                                 *)
(*   asr_secret  credential wait inside transcriber.transcribe             *)
(*   asr         the native or HTTP transcription itself                   *)
(*   asr_gate    _wait_for_control after transcription, while paused       *)
(*   sum_secret, sum, sum_gate   the same for summary_generator.summarize  *)
(*   raising     the awaited credential future already holds an exception  *)
(*   dead        the task ended with an exception its handler raised       *)
(***************************************************************************)
EXTENDS WorkflowSnapshot, Integers, Sequences, FiniteSets

CONSTANTS
  N,              \* workflows a run may create; ids are numbered by creation
  Workers,        \* the max_inflight worker tasks
  Cloud,          \* workflows whose transcription pipeline is the cloud one
  AsrBearer,      \* cloud workflows whose transcription needs a credential
  SummaryBearer,  \* workflows whose summary provider needs a credential
  Inputs,         \* which requests and timer events the environment issues
  MaxAttempts,    \* bound on the attempts of one workflow
  MaxCalls,       \* bound on the provider calls of one summary
  MaxOps,         \* bound on the mutating requests and heartbeats of a run
  MaxStops        \* bound on the crashes and shutdowns of a run

Workflow == 1 .. N

ASSUME SupervisorAssumption ==
  /\ N \in Nat \ {0}
  /\ Cloud \subseteq Workflow
  /\ AsrBearer \subseteq Cloud
  /\ SummaryBearer \subseteq Workflow
  /\ MaxAttempts \in Nat \ {0}
  /\ MaxCalls \in Nat \ {0}
  /\ MaxOps \in Nat
  /\ MaxStops \in Nat

VARIABLES
  rows,       \* registry: workflows that have a row
  snap,       \* registry: the stored snapshot of each row
  born,       \* how many workflow ids have been handed out
  mode,       \* "down", "up" or "draining"
  queue,      \* asyncio.Queue of (workflow_id, retry_stage)
  enqueued,   \* _enqueued_workflows
  control,    \* _control_events: "absent", "set" or "clear"
  worker,     \* the suspended state of each worker task
  tombstones, \* attempts the transcriber was told to cancel
  ops,        \* requests issued so far
  stops       \* crashes and shutdowns so far

registry == <<rows, snap, born>>
volatile == <<queue, enqueued, control, worker, tombstones>>
vars == <<rows, snap, born, mode, queue, enqueued, control, worker, tombstones, ops, stops>>

SecretPc == [transcribing |-> "asr_secret", summarizing |-> "sum_secret"]
CallPc   == [transcribing |-> "asr", summarizing |-> "sum"]
GatePc   == [transcribing |-> "asr_gate", summarizing |-> "sum_gate"]
CallStage == {"transcribing", "summarizing"}

SecretWait == {"asr_secret", "sum_secret"}
BusyPc == {"asr_secret", "asr", "asr_gate", "sum_secret", "sum", "sum_gate", "raising"}

Idle == [pc |-> "idle", wf |-> 0, attempt |-> 0, calls |-> 0]
Dead == [pc |-> "dead", wf |-> 0, attempt |-> 0, calls |-> 0]

Busy(k) == worker[k].pc \in BusyPc
Key(k) == <<worker[k].wf, worker[k].attempt>>

-----------------------------------------------------------------------------
(* Persistence. *)

\* _save_snapshot stores nothing, and save_snapshot reports nothing, unless
\* the sequence is newer than the stored one.
Saved(old, new) == IF new.sequence > old.sequence THEN new ELSE old

Commit(w, s) == snap' = [snap EXCEPT ![w] = Saved(@, s)]

(* The queue. *)

Entry(w, from) == [wf |-> w, from |-> from]

\* _enqueue: a workflow that is already enqueued or executing is not added.
Enqueue(w, from) ==
  IF w \in enqueued
    THEN UNCHANGED <<queue, enqueued>>
    ELSE /\ queue' = Append(queue, Entry(w, from))
         /\ enqueued' = enqueued \cup {w}

\* Mutated form: the workflow is not discarded from the enqueued set.
ReleaseKeepingEnqueued(k, w) ==
  /\ worker' = [worker EXCEPT ![k] = Idle]
  /\ control' = IF w \in rows /\ snap'[w].status \notin Terminal
                  THEN control
                  ELSE [control EXCEPT ![w] = "absent"]
  /\ UNCHANGED enqueued

\* The finally block of _worker_loop, after which the worker waits for work.
Release(k, w) ==
  /\ worker' = [worker EXCEPT ![k] = Idle]
  /\ enqueued' = enqueued \ {w}
  /\ control' = IF w \in rows /\ snap'[w].status \notin Terminal
                  THEN control
                  ELSE [control EXCEPT ![w] = "absent"]

NeedsSecret(w, stage) ==
  IF stage = "transcribing" THEN w \in AsrBearer ELSE w \in SummaryBearer

\* A worker commits base and enters transcribe or a provider call.  When the
\* profile is a bearer one the call first asks for a credential, and
\* mark_waiting_for_secret commits on top of base before the await.
BeginCall(k, w, base, stage, calls) ==
  LET ask == NeedsSecret(w, stage) IN
  /\ Commit(w, IF ask THEN WaitingForSecret(base, stage) ELSE base)
  /\ worker' = [worker EXCEPT ![k] =
                  [pc |-> IF ask THEN SecretPc[stage] ELSE CallPc[stage],
                   wf |-> w, attempt |-> base.attempt, calls |-> calls]]

-----------------------------------------------------------------------------
(* Requests.  Each is one dispatched line of the stdio server.  A request  *)
(* refused by its guard changes nothing and is not an action.              *)

Accepts(input) == mode = "up" /\ ops < MaxOps /\ input \in Inputs

\* workflow.submit with a new operation id.
Submit ==
  /\ Accepts("submit")
  /\ born < N
  /\ LET w == born + 1 IN
       /\ born' = w
       /\ rows' = rows \cup {w}
       /\ snap' = [snap EXCEPT ![w] = InitialSnapshot]
       /\ control' = [control EXCEPT ![w] = "set"]
       /\ Enqueue(w, "none")
  /\ ops' = ops + 1
  /\ UNCHANGED <<mode, worker, tombstones, stops>>

\* workflow.resummarize of v: a new workflow that owns a copy of v's transcript.
Resummarize(v) ==
  /\ Accepts("resummarize")
  /\ born < N
  /\ v \in rows
  /\ snap[v].status \in Retryable
  /\ snap[v].transcript
  /\ LET w == born + 1 IN
       /\ born' = w
       /\ rows' = rows \cup {w}
       /\ snap' = [snap EXCEPT ![w] = ResummarizeSnapshot]
       /\ control' = [control EXCEPT ![w] = "set"]
       /\ Enqueue(w, "summarizing")
  /\ ops' = ops + 1
  /\ UNCHANGED <<mode, worker, tombstones, stops>>

\* Mutated form: the pause event is left set.
PauseWithoutClear(w) ==
  /\ Accepts("pause")
  /\ w \in rows
  /\ CanPause(snap[w])
  /\ Commit(w, PauseApplied(snap[w]))
  /\ control' = [control EXCEPT ![w] = "set"]
  /\ ops' = ops + 1
  /\ UNCHANGED <<rows, born, mode, queue, enqueued, worker, tombstones, stops>>

Pause(w) ==
  /\ Accepts("pause")
  /\ w \in rows
  /\ CanPause(snap[w])
  /\ Commit(w, PauseApplied(snap[w]))
  /\ control' = [control EXCEPT ![w] = "clear"]
  /\ ops' = ops + 1
  /\ UNCHANGED <<rows, born, mode, queue, enqueued, worker, tombstones, stops>>

Resume(w) ==
  /\ Accepts("resume")
  /\ w \in rows
  /\ CanResume(snap[w])
  /\ Commit(w, ResumeApplied(snap[w]))
  /\ control' = [control EXCEPT ![w] = "set"]
  /\ ops' = ops + 1
  /\ UNCHANGED <<rows, born, mode, queue, enqueued, worker, tombstones, stops>>

\* workflow.control cancel.  The server cancels the pending credential
\* request only when the workflow was waiting for it before the control.
Cancel(w) ==
  /\ Accepts("cancel")
  /\ w \in rows
  /\ CanCancel(snap[w])
  /\ Commit(w, CancelRequested(snap[w]))
  /\ control' = [control EXCEPT ![w] = "set"]
  /\ tombstones' = tombstones \cup {<<w, snap[w].attempt>>}
  /\ worker' = [k \in Workers |->
                  IF /\ snap[w].status = "waiting_for_secret"
                     /\ worker[k].pc \in SecretWait
                     /\ Key(k) = <<w, snap[w].attempt>>
                    THEN [worker[k] EXCEPT !.pc = "raising"]
                    ELSE worker[k]]
  /\ ops' = ops + 1
  /\ UNCHANGED <<rows, born, mode, queue, enqueued, stops>>

\* Mutated form: a cancelled workflow may be retried as well.
MayRetryCancelled(s) == s.status \in Retryable \cup {"cancelled"}

MayRetry(s) == s.status \in Retryable

Retry(w, from) ==
  /\ Accepts("retry")
  /\ w \in rows
  /\ MayRetry(snap[w])
  /\ snap[w].attempt < MaxAttempts
  /\ LET stage == RetryStageOf(snap[w], from) IN
       /\ Commit(w, RetrySnapshot(snap[w], stage))
       /\ Enqueue(w, stage)
  /\ control' = [control EXCEPT ![w] = "set"]
  /\ ops' = ops + 1
  /\ UNCHANGED <<rows, born, mode, worker, tombstones, stops>>

\* artifact.register_revision of a transcript, accepted in any status.
ReviseTranscript(w, affects) ==
  /\ Accepts("revise")
  /\ w \in rows
  /\ snap[w].transcript
  /\ Commit(w, TranscriptRevised(snap[w], affects))
  /\ ops' = ops + 1
  /\ UNCHANGED <<rows, born, mode, volatile, stops>>

\* artifact.register_revision of a final summary.
ReviseFinal(w) ==
  /\ Accepts("revise")
  /\ w \in rows
  /\ snap[w].final # "none"
  /\ Commit(w, FinalRevised(snap[w]))
  /\ ops' = ops + 1
  /\ UNCHANGED <<rows, born, mode, volatile, stops>>

\* workflow.clear: the row disappears whether or not a worker still runs it.
Clear(w) ==
  /\ Accepts("clear")
  /\ w \in rows
  /\ snap[w].status \in Terminal
  /\ rows' = rows \ {w}
  /\ snap' = [snap EXCEPT ![w] = InitialSnapshot]
  /\ control' = [control EXCEPT ![w] = "absent"]
  /\ ops' = ops + 1
  /\ UNCHANGED <<born, mode, queue, enqueued, worker, tombstones, stops>>

\* secret.provide for the request worker k is waiting on.
Grant(k) ==
  /\ mode = "up"
  /\ worker[k].pc \in SecretWait
  /\ LET w == worker[k].wf IN
       /\ worker' = [worker EXCEPT ![k].pc = IF @ = "asr_secret" THEN "asr" ELSE "sum"]
       /\ IF w \in rows /\ snap[w].attempt = worker[k].attempt
             /\ snap[w].status = "waiting_for_secret"
            THEN Commit(w, SecretGranted(snap[w]))
            ELSE UNCHANGED snap
  /\ UNCHANGED <<rows, born, mode, queue, enqueued, control, tombstones, ops, stops>>

\* secret.reject for the request worker k is waiting on.
Reject(k) ==
  /\ mode = "up"
  /\ worker[k].pc \in SecretWait
  /\ worker' = [worker EXCEPT ![k].pc = "raising"]
  /\ UNCHANGED <<registry, mode, queue, enqueued, control, tombstones, ops, stops>>

\* _record_transcription_progress, by the heartbeat or a progress callback.
Heartbeat(k) ==
  /\ mode # "down"
  /\ ops < MaxOps
  /\ "heartbeat" \in Inputs
  /\ worker[k].pc \in {"asr_secret", "asr"}
  /\ LET w == worker[k].wf IN
       /\ w \in rows
       /\ snap[w].attempt = worker[k].attempt
       /\ snap[w].status = "running"
       /\ snap[w].stage = "transcribing"
       /\ Commit(w, Touch(snap[w]))
  /\ ops' = ops + 1
  /\ UNCHANGED <<rows, born, mode, volatile, stops>>

-----------------------------------------------------------------------------
(* Worker steps.  _worker_loop takes the head of the queue and runs        *)
(* _run_workflow up to its first suspending await.                         *)

Takes(k) == mode # "down" /\ worker[k].pc = "idle" /\ queue # <<>>

Runnable(w) == w \in rows /\ snap[w].status = "queued"

Started(s) == Transition(s, "running", "preparing")
Planned(s) == Touch(Started(s))
Reused(s)  == Transition(Planned(s), "running", "transcript_ready")
Writing(s) == Transition(Reused(s), "running", "writing_final")

\* The commits a run makes before its first await, or before it completes.
Prepared(s, from) ==
  {Started(s), Planned(s)}
    \cup {n \in {Reused(s)} : from \in {"summarizing", "writing_final"} /\ s.transcript}
    \cup {n \in {Writing(s)} : /\ from = "writing_final" /\ s.transcript
                               /\ "fresh" \in {s.checkpoint, s.final}}

\* The row was cleared or is no longer queued: nothing to run.
TakeSkipped(k) ==
  /\ Takes(k)
  /\ ~Runnable(Head(queue).wf)
  /\ UNCHANGED <<registry, mode, tombstones, ops, stops>>
  /\ queue' = Tail(queue)
  /\ Release(k, Head(queue).wf)

TakeTranscribe(k) ==
  /\ Takes(k)
  /\ LET w == Head(queue).wf IN
       /\ Runnable(w)
       /\ Head(queue).from \in {"none", "transcribing"}
       /\ BeginCall(k, w, Transition(Planned(snap[w]), "running", "transcribing"),
                    "transcribing", 0)
  /\ queue' = Tail(queue)
  /\ UNCHANGED <<rows, born, mode, enqueued, control, tombstones, ops, stops>>

TakeSummarize(k) ==
  /\ Takes(k)
  /\ LET w == Head(queue).wf IN
       /\ Runnable(w)
       /\ Head(queue).from = "summarizing"
       /\ snap[w].transcript
       /\ BeginCall(k, w, Transition(Reused(snap[w]), "running", "summarizing"),
                    "summarizing", 1)
  /\ queue' = Tail(queue)
  /\ UNCHANGED <<rows, born, mode, enqueued, control, tombstones, ops, stops>>

\* A writing_final retry reads the summary from disk and never suspends.
TakeWriteFinal(k) ==
  /\ Takes(k)
  /\ LET w == Head(queue).wf IN
       /\ Runnable(w)
       /\ Head(queue).from = "writing_final"
       /\ snap[w].transcript
       /\ "fresh" \in {snap[w].checkpoint, snap[w].final}
       /\ Commit(w, Completed(Writing(snap[w])))
       /\ Release(k, w)
  /\ queue' = Tail(queue)
  /\ UNCHANGED <<rows, born, mode, tombstones, ops, stops>>

\* The run fails before its first await: no runtime plan (forced CUDA), a
\* changed source, an unreadable transcript or summary, a failed write.
TakeFails(k) ==
  /\ Takes(k)
  /\ LET w == Head(queue).wf IN
       /\ Runnable(w)
       /\ \E s \in Prepared(snap[w], Head(queue).from) : Commit(w, Failed(s))
       /\ Release(k, w)
  /\ queue' = Tail(queue)
  /\ UNCHANGED <<rows, born, mode, tombstones, ops, stops>>

\* A summary that needs several provider calls (chunks, merges, revisions)
\* starts the next one without consulting the control state.
NextCall(k) ==
  /\ mode # "down"
  /\ worker[k].pc = "sum"
  /\ worker[k].calls < MaxCalls
  /\ LET w == worker[k].wf IN
       IF w \in rows
         THEN /\ BeginCall(k, w, snap[w], "summarizing", worker[k].calls + 1)
              /\ UNCHANGED <<enqueued, control>>
         ELSE /\ w \in SummaryBearer   \* mark_waiting_for_secret finds no row
              /\ UNCHANGED snap
              /\ Release(k, w)
  /\ UNCHANGED <<rows, born, mode, queue, tombstones, ops, stops>>

-----------------------------------------------------------------------------
(* _wait_for_control, reached when the call of a stage returns or, for a   *)
(* worker suspended in it, when the pause event is set.  clear() drops the *)
(* event only after the cancel that preceded it has set it.                *)

ReachesGate(k, stage) ==
  /\ mode # "down"
  /\ \/ /\ worker[k].pc = CallPc[stage]
        \* the cloud adapter never returns the result of a cancelled attempt
        /\ ~(stage = "transcribing" /\ worker[k].wf \in Cloud /\ Key(k) \in tombstones)
     \/ /\ worker[k].pc = GatePc[stage]
        /\ control[worker[k].wf] # "clear"

\* Mutated form: a pending cancel does not close the gate.
PassesIgnoringPending(k, stage) ==
  /\ ReachesGate(k, stage)
  /\ worker[k].wf \in rows
  /\ snap[worker[k].wf].status \notin {"cancelled", "paused"}

Passes(k, stage) ==
  /\ ReachesGate(k, stage)
  /\ worker[k].wf \in rows
  /\ ~snap[worker[k].wf].pending
  /\ snap[worker[k].wf].status \notin {"cancelled", "paused"}

\* The row is gone, or the workflow is already cancelled: the run just ends.
GateAbandons(k, stage) ==
  /\ ReachesGate(k, stage)
  /\ LET w == worker[k].wf IN
       /\ w \in rows => snap[w].status = "cancelled" /\ ~snap[w].pending
       /\ UNCHANGED snap
       /\ Release(k, w)
  /\ UNCHANGED <<rows, born, mode, queue, tombstones, ops, stops>>

GateCancels(k, stage) ==
  /\ ReachesGate(k, stage)
  /\ LET w == worker[k].wf IN
       /\ w \in rows
       /\ snap[w].pending
       /\ Commit(w, Cancelled(snap[w]))
       /\ Release(k, w)
  /\ UNCHANGED <<rows, born, mode, queue, tombstones, ops, stops>>

GatePauses(k, stage) ==
  /\ mode # "down"
  /\ ReachesGate(k, stage)
  /\ worker[k].pc = CallPc[stage]
  /\ LET w == worker[k].wf IN w \in rows /\ ~snap[w].pending /\ snap[w].status = "paused"
  /\ worker' = [worker EXCEPT ![k].pc = GatePc[stage]]
  /\ UNCHANGED <<registry, mode, queue, enqueued, control, tombstones, ops, stops>>

\* The transcript is committed and the first provider call starts.  The two
\* gates between these commits are passed without suspending.
PublishTranscript(k) ==
  /\ Passes(k, "transcribing")
  /\ LET w == worker[k].wf IN
       BeginCall(k, w, Transition(TranscriptReady(snap[w]), "running", "summarizing"),
                 "summarizing", 1)
  /\ UNCHANGED <<rows, born, mode, queue, enqueued, control, tombstones, ops, stops>>

\* The checkpoint and then the final summary are committed.
PublishSummary(k) ==
  /\ Passes(k, "summarizing")
  /\ LET w == worker[k].wf IN
       /\ Commit(w, Completed(CheckpointReady(snap[w])))
       /\ Release(k, w)
  /\ UNCHANGED <<rows, born, mode, queue, tombstones, ops, stops>>

\* The snapshot after the first of the commits a passed gate leads to.
FirstCommit(s, stage) ==
  IF stage = "transcribing" THEN TranscriptReady(s) ELSE CheckpointReady(s)

\* Writing the first artifact fails, or the next file operation does after
\* the first artifact has been committed.
PublishFails(k, stage) ==
  /\ Passes(k, stage)
  /\ LET w == worker[k].wf IN
       /\ \E s \in {snap[w], FirstCommit(snap[w], stage)} : Commit(w, Failed(s))
       /\ Release(k, w)
  /\ UNCHANGED <<rows, born, mode, queue, tombstones, ops, stops>>

-----------------------------------------------------------------------------
(* Exceptions that reach the handler of _worker_loop.                      *)

\* The handler re-reads the row and writes cancelled or failed unless the
\* workflow is already terminal.  asCancelled: the exception is a
\* BatchAttemptCancelled or CloudAttemptCancelled.
Handled(s, asCancelled) ==
  CASE s.status \in Terminal                                 -> s
    [] s.status \notin Terminal /\ (s.pending \/ asCancelled)  -> Cancelled(s)
    [] s.status \notin Terminal /\ ~(s.pending \/ asCancelled) -> Failed(s)

\* get_snapshot in the handler raises WorkflowNotFoundError for a cleared
\* row: the finally block runs and the worker task ends for good.
Raise(k, asCancelled) ==
  LET w == worker[k].wf IN
  IF w \in rows
    THEN /\ Commit(w, Handled(snap[w], asCancelled))
         /\ Release(k, w)
    ELSE /\ worker' = [worker EXCEPT ![k] = Dead]
         /\ enqueued' = enqueued \ {w}
         /\ control' = [control EXCEPT ![w] = "absent"]
         /\ UNCHANGED snap

\* The model, the network or the disk fails; a transcription of a cancelled
\* attempt is discarded by its adapter.
CallFails(k, asCancelled) ==
  /\ mode # "down"
  /\ worker[k].pc \in {"asr", "sum"}
  /\ asCancelled => worker[k].pc = "asr" /\ Key(k) \in tombstones
  /\ Raise(k, asCancelled)
  /\ UNCHANGED <<rows, born, mode, queue, tombstones, ops, stops>>

\* Mutated form: the timer is served by the request loop, which a drain stops.
SecretTimeoutWhileUp(k) ==
  /\ mode = "up"
  /\ worker[k].pc \in SecretWait
  /\ Raise(k, FALSE)
  /\ UNCHANGED <<rows, born, mode, queue, tombstones, ops, stops>>

\* CREDENTIAL_TIMEOUT: no grant before expires_at.
SecretTimeout(k) ==
  /\ mode # "down"
  /\ worker[k].pc \in SecretWait
  /\ Raise(k, FALSE)
  /\ UNCHANGED <<rows, born, mode, queue, tombstones, ops, stops>>

\* The exception set on the credential future is raised in the worker.
SecretRaises(k) ==
  /\ mode # "down"
  /\ worker[k].pc = "raising"
  /\ Raise(k, FALSE)
  /\ UNCHANGED <<rows, born, mode, queue, tombstones, ops, stops>>

-----------------------------------------------------------------------------
(* The process: start, shutdown, crash. *)

\* Mutated form: a paused workflow is not among the interrupted ones.
RecoveredExceptPaused(s) ==
  IF s.status \in Active \ {"paused"} THEN Interrupted(s) ELSE s

\* recover_on_startup, for one row.
Recovered(s) == IF s.status \in Active THEN Interrupted(s) ELSE s

QueuedRows == {w \in rows : snap[w].status = "queued"}

\* Everything that lives in the process is lost.
ProcessGone ==
  /\ mode' = "down"
  /\ queue' = <<>>
  /\ enqueued' = {}
  /\ control' = [w \in Workflow |-> "absent"]
  /\ worker' = [k \in Workers |-> Idle]
  /\ tombstones' = {}
  /\ stops' = stops + 1

\* Queued rows are enqueued newest first, as list_snapshots returns them,
\* with their recommended stage; active rows are interrupted.
Start ==
  /\ mode = "down"
  /\ mode' = "up"
  /\ \E order \in [1 .. Cardinality(QueuedRows) -> QueuedRows] :
       /\ \A i, j \in DOMAIN order : i < j => order[i] > order[j]
       /\ \A w \in QueuedRows : \E i \in DOMAIN order : order[i] = w
       /\ queue' = [i \in DOMAIN order |-> Entry(order[i], snap[order[i]].recommended)]
  /\ enqueued' = QueuedRows
  /\ control' = [w \in Workflow |-> IF w \in QueuedRows THEN "set" ELSE "absent"]
  /\ snap' = [w \in Workflow |-> IF w \in rows THEN Recovered(snap[w]) ELSE snap[w]]
  /\ UNCHANGED <<rows, born, worker, tombstones, ops, stops>>

\* runtime.shutdown interrupt, or EOF on stdin: recover_on_startup marks the
\* active rows interrupted and every worker task is cancelled.
ShutdownInterrupt ==
  /\ mode = "up"
  /\ stops < MaxStops
  /\ "interrupt" \in Inputs
  /\ snap' = [w \in Workflow |-> IF w \in rows THEN Recovered(snap[w]) ELSE snap[w]]
  /\ ProcessGone
  /\ UNCHANGED <<rows, born, ops>>

\* runtime.shutdown drain awaits queue.join inside the dispatch of one
\* request line, so no further request is read.
ShutdownDrain ==
  /\ mode = "up"
  /\ stops < MaxStops
  /\ "drain" \in Inputs
  /\ mode' = "draining"
  /\ UNCHANGED <<registry, volatile, ops, stops>>

DrainDone ==
  /\ mode = "draining"
  /\ queue = <<>>
  /\ \A k \in Workers : ~Busy(k)
  /\ ProcessGone
  /\ UNCHANGED <<registry, ops>>

Crash ==
  /\ mode # "down"
  /\ stops < MaxStops
  /\ "crash" \in Inputs
  /\ ProcessGone
  /\ UNCHANGED <<registry, ops>>

\* The process dies between two commits of one uninterrupted run.
CrashBetweenCommits(k) ==
  /\ stops < MaxStops
  /\ "crash" \in Inputs
  /\ \/ /\ Takes(k)
        /\ Runnable(Head(queue).wf)
        /\ \E s \in Prepared(snap[Head(queue).wf], Head(queue).from) : Commit(Head(queue).wf, s)
     \/ \E stage \in CallStage :
          /\ Passes(k, stage)
          /\ Commit(worker[k].wf, FirstCommit(snap[worker[k].wf], stage))
  /\ ProcessGone
  /\ UNCHANGED <<rows, born, ops>>

\* The process dies inside recover_on_startup, after some active rows.  Each
\* such crash leaves fewer of them, so the number of these is not bounded.
CrashInRecovery ==
  /\ mode = "down"
  /\ "crash" \in Inputs
  /\ \E last \in Workflow :
       snap' = [w \in Workflow |-> IF w \in rows /\ w >= last
                                     THEN Recovered(snap[w]) ELSE snap[w]]
  /\ UNCHANGED <<rows, born, mode, volatile, ops, stops>>

-----------------------------------------------------------------------------
Init ==
  /\ rows = {}
  /\ snap = [w \in Workflow |-> InitialSnapshot]
  /\ born = 0
  /\ mode = "up"
  /\ queue = <<>>
  /\ enqueued = {}
  /\ control = [w \in Workflow |-> "absent"]
  /\ worker = [k \in Workers |-> Idle]
  /\ tombstones = {}
  /\ ops = 0
  /\ stops = 0

TakeStep(k) ==
  \/ TakeSkipped(k)
  \/ TakeTranscribe(k)
  \/ TakeSummarize(k)
  \/ TakeWriteFinal(k)
  \/ TakeFails(k)

GateStep(k) ==
  \/ \E stage \in CallStage :
       \/ GateAbandons(k, stage)
       \/ GateCancels(k, stage)
       \/ GatePauses(k, stage)
       \/ PublishFails(k, stage)
  \/ PublishTranscript(k)
  \/ PublishSummary(k)

ErrorStep(k) ==
  \/ \E asCancelled \in BOOLEAN : CallFails(k, asCancelled)
  \/ SecretTimeout(k)
  \/ SecretRaises(k)

WorkerStep(k) == TakeStep(k) \/ NextCall(k) \/ GateStep(k) \/ ErrorStep(k)

RequestStep(w) ==
  \/ Resummarize(w)
  \/ Pause(w)
  \/ Resume(w)
  \/ Cancel(w)
  \/ \E from \in RetryStage \cup {"auto"} : Retry(w, from)
  \/ \E affects \in BOOLEAN : ReviseTranscript(w, affects)
  \/ ReviseFinal(w)
  \/ Clear(w)

ProcessStep ==
  \/ Start
  \/ ShutdownInterrupt
  \/ ShutdownDrain
  \/ DrainDone
  \/ Crash
  \/ CrashInRecovery

Next ==
  \/ Submit
  \/ \E w \in Workflow : RequestStep(w)
  \/ \E k \in Workers : WorkerStep(k) \/ Grant(k) \/ Reject(k) \/ Heartbeat(k)
  \/ \E k \in Workers : CrashBetweenCommits(k)
  \/ ProcessStep

SafetySpec == Init /\ [][Next]_vars

\* The event loop runs every ready task, native calls return (HTTP calls
\* have a timeout), the credential timer fires, the host restarts a worker
\* that exited.  Requests are not fair: a user may never resume or grant.
Fairness ==
  /\ \A k \in Workers : WF_vars(WorkerStep(k))
  /\ WF_vars(Start)
  /\ WF_vars(DrainDone)

Spec == SafetySpec /\ Fairness


-----------------------------------------------------------------------------
(* Properties. *)

Entries == [wf : Workflow, from : RetryStage \cup {"none"}]

WorkerState == [pc : BusyPc \cup {"idle", "dead"}, wf : 0 .. N, attempt : Nat, calls : Nat]

\* The variables hold values of their types, and a busy worker names a workflow.
TypeOK ==
  /\ rows \subseteq 1 .. born
  /\ born \in 0 .. N
  /\ snap \in [Workflow -> Snapshot]
  /\ mode \in {"down", "up", "draining"}
  /\ queue \in Seq(Entries)
  /\ enqueued \subseteq Workflow
  /\ control \in [Workflow -> {"absent", "set", "clear"}]
  /\ worker \in [Workers -> WorkerState]
  /\ tombstones \subseteq Workflow \X Nat
  /\ ops \in Nat
  /\ stops \in Nat
  /\ \A k \in Workers : Busy(k) => worker[k].wf \in Workflow

Runs(k, w) == Busy(k) /\ worker[k].wf = w

\* The awaits a worker may be suspended in while the stored status says s.
PcOf(s) ==
  CASE s = "waiting_for_secret"      -> SecretWait \cup {"raising"}
    [] s \in {"running", "paused"}   -> {"asr", "sum", "asr_gate", "sum_gate"}
    [] s = "cancelled"               -> BusyPc
    [] s \notin Active \cup {"cancelled"} -> {}

\* While the process lives, a row that claims to be executing is executed by
\* a worker suspended in a matching await, and a worker's row says either
\* that it is executing or that it was cancelled under the worker.
StatusMatchesExecution ==
  /\ \A w \in rows :
       mode # "down" /\ snap[w].status \in Active
         => \E k \in Workers : Runs(k, w)
  /\ \A k \in Workers :
       Busy(k) /\ worker[k].wf \in rows => worker[k].pc \in PcOf(snap[worker[k].wf].status)

\* No workflow is executed twice at once, even when it is cancelled, cleared
\* or retried while a worker is still inside a call for it, and a worker only
\* ever executes the current attempt of its workflow.
ExecutionOwnership ==
  /\ \A j, k \in Workers :
       Busy(j) /\ Busy(k) /\ worker[j].wf = worker[k].wf => j = k
  /\ \A k \in Workers :
       Busy(k) /\ worker[k].wf \in rows => worker[k].attempt = snap[worker[k].wf].attempt

InQueue(w) == \E i \in DOMAIN queue : queue[i].wf = w

\* A row that says queued is scheduled: one entry of the in-memory queue
\* names it, with the retry stage the row recommends, so that a restart, which
\* rebuilds the entry from the row, runs the same stages.  No workflow is in
\* the queue twice, or in the queue while it executes, and the set that
\* refuses duplicates holds nothing else: an id left behind in it would make
\* _enqueue drop the next retry silently.
QueuedIsScheduled ==
  /\ mode # "down" =>
       \A w \in rows : snap[w].status = "queued" =>
         \E i \in DOMAIN queue : queue[i] = Entry(w, snap[w].recommended)
  /\ \A i, j \in DOMAIN queue : queue[i].wf = queue[j].wf => i = j
  /\ \A i \in DOMAIN queue, k \in Workers : ~Runs(k, queue[i].wf)
  /\ \A w \in Workflow : w \in enqueued <=> InQueue(w) \/ \E k \in Workers : Runs(k, w)

\* The pause event agrees with the stored status.  A worker that finds its
\* workflow paused really suspends (the event is clear, so the gate is not a
\* busy loop on the shared event loop), and a worker suspended in the gate of
\* a workflow that is no longer paused has been woken.
PauseGateConsistent ==
  /\ \A w \in rows : mode # "down" /\ snap[w].status = "paused" => control[w] = "clear"
  /\ \A k \in Workers :
       /\ worker[k].pc \in {"asr_gate", "sum_gate"}
       /\ worker[k].wf \in rows => snap[worker[k].wf].status # "paused"
       => control[worker[k].wf] # "clear"

\* A retry runs only the stages from the chosen one on: an attempt that was
\* queued to reuse a transcript never transcribes, and one that was queued to
\* rewrite the final file calls no provider.
RetryStageHonoured ==
  \A w \in rows : snap[w].status \notin Terminal =>
    /\ snap[w].recommended = "summarizing" => snap[w].stage # "transcribing"
    /\ snap[w].recommended = "writing_final" =>
         snap[w].stage \notin {"transcribing", "summarizing"}

\* Whether the run of w still owes the user a cancel.
CancelPending(w) == w \in rows /\ snap[w].pending /\ snap[w].status = "running"

\* While a cancel is pending no result is published, and the request is not
\* forgotten: the step that clears it either reaches cancelled or is a pause.
CancelBlocksResults ==
  [][\A w \in Workflow : CancelPending(w) /\ w \in rows' =>
       /\ snap'[w].transcript = snap[w].transcript
       /\ snap'[w].status # "completed"
       /\ ~snap'[w].pending => snap'[w].status \in {"cancelled", "paused"}]_vars

StageRank ==
  [queued |-> 0, preparing |-> 1, transcribing |-> 2, transcript_ready |-> 3,
   summarizing |-> 4, writing_final |-> 5, completed |-> 6]

\* The stage a user sees never moves back within one attempt, although
\* controls, credential waits, heartbeats and stage commits all rewrite it.
StageMonotone ==
  [][\A w \in rows \cap rows' : snap'[w].attempt = snap[w].attempt =>
       StageRank[snap'[w].stage] >= StageRank[snap[w].stage]]_vars

\* docs/worker-contract-v2.md: an accepted cancel of an attempt takes the
\* workflow to cancelled at the next safe point, so that attempt never
\* completes.
AcceptedCancelSticks ==
  \A w \in rows : <<w, snap[w].attempt>> \in tombstones => snap[w].status # "completed"

\* docs/worker-contract-v2.md: cancelled is a final status of the execution
\* and, unlike failed and completed, cannot be retried.
CancelledIsFinal ==
  [][\A w \in rows \cap rows' : snap[w].status = "cancelled" => snap'[w].status = "cancelled"]_vars

\* tests/contract_v2/test_supervisor.py: the failure of one workflow is isolated, so the
\* worker tasks outlive it.
WorkersSurvive == \A k \in Workers : worker[k].pc # "dead"

Queued(w) == w \in rows /\ snap[w].status = "queued"
Paused(w) == w \in rows /\ snap[w].status = "paused"

\* A workflow stays queued for ever only behind workflows that stay paused
\* and so keep their worker slots: it is not stranded by a restart, a drain,
\* a failure or cancel of the workflows before it, or a retry.
QueuedRuns ==
  \A w \in Workflow : <>[]Queued(w) => <>[](\E v \in Workflow : Paused(v))

\* A workflow does not wait for a credential for ever, whether the user
\* answers, rejects, ignores the request or shuts the worker down.
SecretWaitEnds ==
  \A w \in Workflow :
    (w \in rows /\ snap[w].status = "waiting_for_secret")
      ~> (w \in rows => snap[w].status # "waiting_for_secret")

\* A pending cancel takes effect, unless a pause overrides it or the process
\* stops first.
CancelTakesEffect ==
  \A w \in Workflow :
    CancelPending(w)
      ~> (w \in rows => snap[w].status \in {"cancelled", "interrupted", "paused"})

\* docs/worker-contract-v2.md: runtime.shutdown drain waits for the current
\* workflows to finish and then exits.
DrainEnds == (mode = "draining") ~> (mode = "down")

-----------------------------------------------------------------------------
(* The inductive invariant of WorkflowSupervisor_proofs. *)

\* A workflow waits in the queue only while it is queued, or was cancelled
\* there, or was cleared after that.
QueueRowsWait ==
  \A i \in DOMAIN queue :
    queue[i].wf \in rows => snap[queue[i].wf].status \in {"queued", "cancelled"}

\* The queue and the workers only know ids that have been handed out.
ScheduledIsBorn ==
  /\ \A i \in DOMAIN queue : queue[i].wf <= born
  /\ \A k \in Workers : Busy(k) => worker[k].wf <= born

\* A process that is not running holds nothing.
StoppedIsEmpty ==
  mode = "down" => queue = <<>> /\ enqueued = {} /\ worker = [k \in Workers |-> Idle]

IInv ==
  /\ TypeOK
  /\ StatusMatchesExecution
  /\ ExecutionOwnership
  /\ QueuedIsScheduled
  /\ PauseGateConsistent
  /\ QueueRowsWait
  /\ ScheduledIsBorn
  /\ StoppedIsEmpty

-----------------------------------------------------------------------------
\* The lifecycle every client of the worker relies on, of which the rows are
\* the implementation.
Lifecycle ==
  INSTANCE WorkflowLifecycle WITH
    state      <- [w \in Workflow |->
                     IF w \in rows THEN snap[w].status
                     ELSE IF w <= born THEN "cleared" ELSE "absent"],
    attempt    <- [w \in Workflow |-> IF w \in rows THEN snap[w].attempt ELSE 0],
    transcript <- [w \in Workflow |-> w \in rows /\ snap[w].transcript]

ImplementsLifecycle == Lifecycle!Spec
=============================================================================
