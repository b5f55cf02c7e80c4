# ASR Local: specifications

ASR Local is a desktop application that transcribes recordings and summarizes
the transcripts. An Electron front end (`src/apps/desktop-electron`) starts a
Python worker (`src/apps/worker-python/app`) and talks to it over standard input
and output, one JSON line per message (`src/docs/worker-contract-v2.md`).

These TLA+ modules model the logic of the system: which statuses a workflow goes
through when requests, worker tasks, timers, crashes and restarts interleave, how
concurrent transcriptions share one GPU model, how a recording becomes a transcript
and a transcript a summary, which files belong to a workflow, and how the Electron
process keeps one worker running and its window up to date. Paths below are relative to
`src/apps/worker-python/app` unless they begin with another directory.

## Modules and how to read them

| module | what it is |
|---|---|
| `WorkflowSnapshot` | the stored snapshot of one workflow, and the functions from one snapshot to the next |
| `WorkflowSupervisor` | rows, queue, worker tasks, requests, credential waits, shutdown, crash, restart; composes `WorkflowSnapshot` |
| `WorkflowLifecycle` | the abstract status diagram, which `WorkflowSupervisor` implements through the refinement mapping at its end |
| `MCSupervisor` | the TLC instances of `WorkflowSupervisor` |
| `WorkflowSupervisor_proofs` | what every snapshot operator returns, the safety of the supervisor, and theorems about the stages of an attempt and its pending cancel |
| `WorkflowSupervisor_refines` | the proof of the refinement |
| `GpuBatchDispatcher` | the thread that owns the GPU model, and its callers |
| `BatchService` | what that thread promises its callers, without queues or tombstones; `GpuBatchDispatcher` implements it |
| `MCDispatcher`, `GpuBatchDispatcher_proofs` | its TLC instances, and its theorems |
| `RuntimeClient` | the Electron side of the worker process: start, requests, exit, restart, shutdown |
| `MCClient`, `RuntimeClient_proofs` | its TLC instances, and its theorems |
| `LocalTranscriber` | native calls of the local adapter, their cancels, and the bounded close |
| `CloudTranscriber` | blocking requests that cannot be stopped, and the bounded table of tombstones |
| `SecretBroker` | credential requests, grants, rejects, timers, stops |
| `Adapters_proofs` | theorems about these three |
| `TranscriptionJob` | one local transcription: planning segments, chunks, isolation of failures, assembling |
| `SummaryGenerator` | one summary: cutting, merge rounds, audit, revisions, idempotency slots |
| `ArtifactLedger` | the files of one workflow and the artifacts its row names |
| `Results_proofs` | theorems about these three |
| `WorkflowStore`, `WorkflowStore_proofs` | the window's view of the rows, over events, calls and replies that cross; its theorems |
| `MCComponents`, `Components_proofs` | the TLC instance of these seven; what holds of each alone holds of their composition |

`tlc -config supervisor_safety.cfg MCSupervisor`, and so on for every `.cfg`,
checks a model; `tlapm WorkflowSupervisor_proofs.tla` checks the proofs.
`PROJECT.json` maps every definition to the lines it was translated from.
Operators called *Mutated form* are plausible bugs: each stands before the
operator it would replace, nothing uses it, and replacing that operator by it
breaks one of the properties, which shows that the property says something.

## Inventory

### Parts that carry protocol state

| part | state | operations | what makes it correct |
|---|---|---|---|
| workflow supervisor, `workflow/supervisor.py` | FIFO queue of (workflow, retry stage), the set of enqueued ids, a pause event per workflow, `max_inflight` worker tasks, accepting flag | submit, resummarize, pause, resume, cancel, retry, register_revision, clear; worker loop; start, recovery, shutdown | one execution per workflow and attempt; nothing queued is stranded; status tells the truth; a cancel blocks results; controls take effect |
| state machine, `workflow/state_machine.py` | none | create, interrupt, retry, control of a snapshot | a retry runs the stages it was asked to run; stages do not move back |
| registry, `workflow/registry.py` | sqlite rows of snapshots, operation records, artifacts | create, save (only a newer sequence), list, clear | rows survive a crash and never move back; one operation id has one effect |
| stdio server, `supervisor/server.py` | the dispatch loop, pending credential futures | dispatch one line at a time, grant, reject, cancel of an attempt, timer, shutdown, end of input | every credential wait ends; shutdown ends |
| secret broker, `workflow/secrets.py` | requests with expiry, one grant each | request, grant, reject, revoke, expire | a secret is used once, for its request, before its expiry |
| GPU batch dispatcher, `runtime/gpu_batch_scheduler.py` | a queue per attempt, a rotation of attempts per workflow, the order of the workflows, the running batch, futures, tombstones, closing flag | submit, cancel, plan and take a batch, deliver, fail to load, close | every future is resolved once; no result after a cancel; batches keep their budgets; no caller starves; close ends |
| batch isolation, `pipeline/asr_batch.py` | none (recursive) | bisect and retry a failing batch | every item gets exactly one outcome |
| local transcriber, `pipeline/chunked_local.py` | registered calls, cancelled attempts, closing flag | register, call, cancel, bounded close | close ends, once, after the last native call |
| cloud transcriber, `pipeline/cloud_asr.py` | active calls, cancelled attempts, closing flag | call on a daemon thread, cancel, close | a cancelled call returns no result |
| job runner, `pipeline/job_runner.py` | the files of a job | normalize, diarize, transcribe chunk by chunk, export | segments are neither lost nor repeated |
| segment planner, `pipeline/segment_planner.py` | none | cut at pauses, merge | segments cover the speech in order, within their limits |
| summary generator, `summary/openai_compatible.py` | none between calls | chunk, call the provider, merge in rounds, audit | ends within its bound of rounds |
| runtime client, `desktop-electron/electron/workflowRuntimeClient.ts` | child process, pending requests, restart timer, shutdown flag | start, request, line received, exit, restart, shutdown | a request is answered or rejected once; the worker is restarted unless it was shut down |
| renderer store, `desktop-electron/src/stores/workflowStore.ts`, `workflows/reducer.ts` | workflows by id, their last sequence and attempt | apply event, snapshot, list; clear | late, repeated and missing messages never move a workflow back |

The remaining parts (media and export code, the contract codec, model loading,
environment probing, host services, grants of paths, hotword extraction, views,
schemas, scripts) keep no protocol state or only call libraries. `PROJECT.json`
lists every part with its files and why it is or is not modelled.

### How they interact

- The server awaits one dispatched request at a time. The supervisor runs on the
  same asyncio loop, so its code is atomic between two awaits that suspend.
- A worker task takes an entry from the queue, runs `_run_workflow`, and calls
  the transcriber router, which chooses the local or the cloud adapter, and then
  the summary generator. Either may ask for a credential through the server,
  which publishes a request event and waits with a timer.
- The local adapter runs the job in a native thread; the job runner submits
  chunks of segments to the dispatcher thread and blocks on their futures.
- `cancel` sets a flag on the row and forwards the attempt to the router, to the
  credential waits and to the dispatcher.
- The Electron client turns lines into events, the renderer store reduces them.

### What is hard about it

`PROJECT.json` lists the hazards with the lines where they bite and the
properties that watch them; four have no property, because the code does what they
fear and the properties of that part leave the case out by name. The main groups:

- controls (pause, resume, cancel, clear) that arrive while a worker is inside a
  native call, a provider call or a credential wait, each of which rewrites the
  whole row when it goes on;
- retry, queue and the set of enqueued ids, which have to agree although the last
  run is still unwinding;
- crashes and restarts, when the queue is rebuilt from rows;
- shutdown, which waits for workers that may wait for the user;
- cancel, close and load failure of the dispatcher, racing a batch that runs;
- fairness of the batch planner;
- the start, exit, restart and shutdown of worker processes, whose events may
  arrive when another process has taken their place.

## The supervisor

### Correspondence

`WorkflowSnapshot` has one operator per function or block that changes a snapshot.
A snapshot record keeps status, stage, attempt, sequence, the pending cancel, the
recommended retry stage, whether it is a summary of an existing transcript, and
the transcript, summary checkpoint and final file (present, and fresh or stale).
`completed_with_warnings` is merged into `completed`: both are treated alike.

In `WorkflowSupervisor` the variables `rows`, `snap` and `born` are what sqlite
holds and survive a crash; `queue`, `enqueued`, `control`, `worker` and
`tombstones` are `asyncio.Queue`, `_enqueued_workflows`, `_control_events`, the
await every worker task is suspended in, and the attempts the transcriber was
told to cancel. `mode` is the process: down, up or draining.

| actions | code |
|---|---|
| `Submit`, `Resummarize`, `Pause`, `Resume`, `Cancel`, `Retry`, `ReviseTranscript`, `ReviseFinal`, `Clear` | one dispatched request each, with every commit and enqueue it makes |
| `TakeSkipped`, `TakeTranscribe`, `TakeSummarize`, `TakeWriteFinal`, `TakeFails` | `_worker_loop` and `_run_workflow` from `queue.get` to the first suspension or the end, for the stage the entry asks for |
| `NextCall` | the summary generator goes on to its next provider call |
| `GateAbandons`, `GateCancels`, `GatePauses`, `PublishTranscript`, `PublishSummary`, `PublishFails` | a call returned: `_wait_for_control`, and then publishing and the next stage |
| `Raise`, `CallFails`, `SecretTimeout`, `SecretRaises` | the exception paths, down to the handler and the `finally` of `_worker_loop` |
| `Grant`, `Reject`, `Heartbeat` | the credential broker and the progress heartbeat |
| `Start`, `ShutdownInterrupt`, `ShutdownDrain`, `DrainDone`, `Crash`, `CrashBetweenCommits`, `CrashInRecovery` | process start with recovery, the two shutdowns, and a death at any suspension, between two commits of a run, or inside the recovery |

An action is the code between two awaits that really suspend. The production
event sink writes under a lock nobody else holds, so publishing an event does not
suspend. A commit is one sqlite transaction; one that is not newer than the stored
row stores nothing and its caller goes on (`Saved`). A worker with pc `raising`
holds an exception that its credential future was given and has not yet seen.

### What the runs show

| run | instance | what it shows |
|---|---|---|
| `supervisor_safety` | 2 workflows, 2 workers, one cloud with a credential and one local; 2 attempts, 2 provider calls, 4 requests or heartbeats, 1 stop | six invariants and two action properties over every interleaving (775 thousand states) |
| `supervisor_refines` | 2 workflows, 2 workers, 3 attempts, 1 provider call | the rows implement `WorkflowLifecycle` |
| `supervisor_live` | 2 workflows, 1 worker, under `Fairness` | queued work runs unless paused workflows hold the slots; credential waits end; a pending cancel takes effect |
| `supervisor_cancel_sticks`, `supervisor_cancelled_final`, `supervisor_workers_survive`, `supervisor_drain_ends` | 1 workflow, 1 worker | counterexamples, see *Disagreements* |

The properties: `StatusMatchesExecution` (a row that claims to be executing is
executed, in a matching await), `ExecutionOwnership` (one worker per workflow, in
its current attempt), `QueuedIsScheduled` (a queued row has its one entry, with its
retry stage, and the set of enqueued ids is exact), `PauseGateConsistent` (the pause
event agrees with the row), `RetryStageHonoured` (a retry from a stage never runs
an earlier one), `CancelBlocksResults` (nothing is published under a pending
cancel), `StageMonotone` (the shown stage does not move back in an attempt), and the
three liveness properties of `supervisor_live`.

Bounds. Two workflows and two workers are enough for every conflict over the
queue, a slot or a row, since no code relates three workflows; with one worker,
two workflows compete for a slot. Two attempts are one retry, three a retry of a
retry. Two provider calls are enough for a status stored during one call to be
overwritten at the next. `MaxOps` 4 allows submit, pause, cancel and clear or
retry within one run; grants and rejects are not counted. One stop, with the start
after it, covers crash and recovery, and `CrashInRecovery` is not counted. Workers
are symmetric in the safety runs: they run the same loop on one queue. Deadlock is
not checked, because a server without requests is quiescent.

Fairness (`Fairness` of `WorkflowSupervisor`). Weak fairness of each worker task:
the event loop runs every ready task, native calls return, HTTP calls have a
timeout and the credential timer fires. Weak fairness of `Start`: the host restarts
a worker that exited, or the user opens the application again. Weak fairness of
`DrainDone`: the await of `queue.join` goes on when it is done. Requests, grants and
rejects have none: a user may never resume or answer. `supervisor_live` issues no
clear, because of the third disagreement below.

`ImplementsLifecycle` is checked with one provider call per summary: with more,
the second disagreement below takes a cancelled workflow back into execution,
which the diagram does not allow.

### What is proved

For any number of workflows, workers, calls, attempts and stops, under
`SupervisorAssumption` (the constants are of their types, at least one workflow,
attempt and call):

| theorem | states |
|---|---|
| `InductiveInvariant` | `SafetySpec => []IInv` |
| `TypeCorrect` | `SafetySpec => []TypeOK` |
| `StatusIsTrue` | `SafetySpec => []StatusMatchesExecution` |
| `NoDoubleExecution` | `SafetySpec => []ExecutionOwnership` |
| `NothingStranded` | `SafetySpec => []QueuedIsScheduled` |
| `PauseIsEffective` | `SafetySpec => []PauseGateConsistent` |
| `StagesInvariant` | `SafetySpec => [](IInv /\ StageInv)` |
| `RetryRunsItsStages` | `SafetySpec => []RetryStageHonoured` |
| `StagesMoveOn` | `SafetySpec => StageMonotone` |
| `PendingCancelHolds` | `SafetySpec => CancelBlocksResults` |

`IInv` conjoins these five with `QueueRowsWait` (a queue entry whose row is left
has a row that is queued or cancelled), `ScheduledIsBorn` (only ids that were
handed out are scheduled, so a fresh id is in no queue) and `StoppedIsEmpty` (a
stopped process holds nothing). None of the five is inductive alone: that the
next entry's workflow is not already executing needs `QueuedIsScheduled`; that a
retry finds no worker inside the old attempt needs `StatusMatchesExecution`, since
a row that may be retried has no worker; and taking an entry needs to know its
row's status.

The argument reduces the many actions to a few shapes, each a lemma:
`TouchedRow` (a row is rewritten and keeps its status and attempt), `RunEnds` (a
worker releases its workflow in an ended row), `RunEnters` (a worker takes the head
of the queue into a call), `RunsGoOn` (a worker moves from one await to another),
`ProcessGoes` (everything volatile is lost), `EnqueuedInv` (a row becomes queued and
is enqueued) and `ControlInv` (a control changes one row and its event).
The module begins with lemmas that say of every snapshot operator that it returns a
snapshot and what it does to status, attempt and sequence; each action lemma then
shows that its action has one of the shapes.

The last four are the second half of the module. `RetryStageHonoured` alone is not
inductive: a worker that returns from a transcription moves the row to summarizing
whatever the row recommends. `StageInv` therefore also says, of each worker, that
its row is at the stage of the call it makes and that the recommended stage includes
that call, and, of each row, that a queued one is at stage `queued`; taking an
entry keeps this because, by `QueuedIsScheduled`, the entry carries what the row recommends.
`Advances` says how a step may change one row. Each action lemma shows that its
action keeps `StageInv` and that every row advances (`Kept`), through five shapes:
`RowMoves`, `RowsStay`, `RowTouched`, `RunStops` and `AllStop`; `StageMonotone` and
`CancelBlocksResults` are the two halves of `Advances`.

`WorkflowSupervisor_refines` proves the refinement:

| theorem | states |
|---|---|
| `SupervisorImplementsLifecycle` | `SafetySpec => ImplementsLifecycle`, if `OneCredentialPerSummary` |
| `OnlyNextCallDeviates` | without it, every step but `NextCall` is a step of `WorkflowLifecycle` |
| `SummariesHaveTranscripts` | `SafetySpec => [](IInv /\ StageInv /\ SumInv)` |
| `CancelledStays` | `SafetySpec => CancelledIsFinal`, if `OneCredentialPerSummary` |

A step of the supervisor moves every row along an `Edge` of the diagram, or makes a row
appear or disappear (`RowFollows`); `LifecycleStep` turns that into a step of
`WorkflowLifecycle`, and each action lemma shows that its action follows the edges. A
completed row owns a transcript in the diagram although the code that completes it
does not look; `SumInv` says that a worker in a provider call serves a workflow that has
one. The hypothesis `OneCredentialPerSummary` (a summary is one provider call, or no
summary needs a credential) is what the second disagreement below forces: without it
the theorem is false, as `supervisor_cancelled_final` shows, and `OnlyNextCallDeviates`
and `CancelledStays` say that this is the only cause.

Liveness is model-checked only: it and `ENABLED` are beyond the proof system.

## The GPU dispatcher

### Correspondence

Every section under the condition variable is an action: `Submit` and
`SubmitCancelled` (`submit_attempt`), `Cancel`, `Close`, `TakeBatch`
(`_wait_plan_locked`, `_plan_locked` and `_take_locked` in one section), `Finish`
(`_finish`), `Terminate` (`_terminate_with_failure`, when the model does not load),
`Exit` and `Closed` (the end of `_run`). The native call is the time between
`TakeBatch` and the action that ends it. `queues`, `rotation`, `order`, `inflight`,
`futures`, `tombstones`, `marked`, `closing` and `loaded` are the fields of the
dispatcher; `thread` is where its thread is; `seen` is what the caller of an item
knows. A caller submits a chunk of segments, blocks until each future has an
outcome, and goes on unless one says cancelled or discarded, as
`transcribe_audio_batch` does. It may transcribe a segment again: that stands for a
longer recording. `doomed` is a history variable: the items that were pending when
their attempt was cancelled or the dispatcher closed.

The plan is computed as the code does: a seed from the first workflow, rounds over
the first `max_active_workflows`, one item per workflow and round, of the seed's
length bucket and within the budgets. The coalesce window only delays a batch, the
delivery threads only delay a caller; neither has state in the model.
`hard_batch_size` plays no part in planning. Invalid and duplicate items raise
before anything changes.

### What the runs show

| run | instance | what it shows |
|---|---|---|
| `dispatcher` | two attempts of one workflow and one of another, two segments each, one of them over the budget; batches of three; one tombstone | `FuturesAccounted`, `RotationFindsWork`, `NoResultAfterCancel`, `ImplementsBatchService`, `CloseEnds`, `StarvedOnlyByOthers` (30 thousand states) |
| `dispatcher_starvation` | three workflows in three length buckets | a counterexample to `NoStarvation` |

`BatchService` is the abstract specification: no queues, rotations, tombstones, marks or
thread, only what each caller knows, the set of requests that run, those of them that were
given up, and two flags. It says more than the invariants do. A running request is denied
its result *if and only if* its attempt was cancelled or the dispatcher closed since it was
submitted, so neither a dropped tombstone nor one of another attempt makes a difference; no
request overtakes an earlier one of its attempt; a cancel or a close answers at once exactly
those that do not run; no batch starts after a close; and a model that does not load, which
can only be before the first answer, leaves nobody waiting. `Service`, at the end of
`GpuBatchDispatcher`, is the refinement mapping; `MayRun` gives it the batches within the
limits, so that the run checks `BatchWithinLimits` with it. Which cancelled attempts are
turned away when they submit again is not promised, because the table that remembers them
is bounded.

One tombstone (1024 in the code) makes the table overflow as soon as a second
attempt is cancelled, while the batch of the first may run. The lengths are chosen
so that two segments fit a batch and three do not, that two have different
buckets, and that one exceeds the budget. Two workflows and two attempts of one
exercise both levels of the rotation.

Fairness: weak fairness of the dispatcher's thread, which is started by the
constructor and whose native call returns; callers, cancel and close have none.
`StarvedOnlyByOthers` says what fairness the planner does have: a caller waits for
ever only while the thread keeps running batches of others.

### What is proved

For every set of workflows, attempts and segments, all durations, budgets, batch sizes
and table sizes (`DispatcherAssumption`):

| theorem | states |
|---|---|
| `DispatcherTypeOK` | `SafetySpec => []TypeOK` |
| `DispatcherFuturesAccounted` | `SafetySpec => []FuturesAccounted` |
| `DispatcherRotationFindsWork` | `SafetySpec => []RotationFindsWork` |
| `DispatcherBatchWithinLimits` | `SafetySpec => []BatchWithinLimits` |
| `DispatcherBatchNotEmpty` | `SafetySpec => []BatchNotEmpty` |
| `DispatcherNoResultAfterCancel` | `SafetySpec => NoResultAfterCancel` |
| `DispatcherImplementsBatchService` | `SafetySpec => ImplementsBatchService` |

They rest on one inductive invariant. `IInv` adds to the four state properties `ThreadOK`
(what is in flight and what callers wait for agree with where the thread is), `DoomedOK` (an
item that was cancelled before it was answered is in the running batch, and is marked
unless the dispatcher closes) and `BatchNotEmpty`. `DoomedOK` is what
`NoResultAfterCancel` needs: the tombstone may have been dropped from the bounded table by
the time the batch returns, but the item keeps its mark.

The refinement needs `ServInv` on top of it: the queues are in the order of their segments
(`QueuesSorted`), nobody who waits has a later segment of his running before his own
(`NobodyOvertaken`), and whatever `_finish` would discard was given up (`DeniedOnlyDoomed`,
the converse of `DoomedOK`). The last one holds because an attempt with a queue has no
tombstone: what a batch takes is not remembered as cancelled, and a tombstone that comes
later dooms what runs. One lemma per action (`SubmitServes`, ...) shows both that it keeps
`ServInv` and which step of the service it is; `FrontsInOrder` is where the planner enters.

The planner is a recursive function over rounds and turns. What it returns is proved by
induction over its turns (`SetInduction`, see *What proofs can and cannot say*): the items
planned are the fronts of their queues (`Fronts`), the batch is within the limits
(`WithinLimits`), and it is not empty. `Only`, which keeps the entries of a sequence that
pass a test, is proved to keep them all, in order and once.

## The runtime client

### Correspondence

`WorkflowRuntimeClient` runs on one event loop. An action of `RuntimeClient` is one
callback with the promise reactions that follow it, so a rejection of everything
pending (`RejectAll`) includes what the waiting functions do next: the start that is
rolled back and rejects its waiters, and the shutdown whose request failed, which
kills its process and waits for the exit.

| actions | code |
|---|---|
| `Request`, `Settled` | `request` with `ensureStarted`, `start` up to the hello, `send`; a response, a failed write or the timer |
| `Greeted`, `RolledBack` | the two ends of `start` |
| `Exit`, `SpawnFails` | the exit and error handlers of a process, with `scheduleAutomaticRestart` |
| `Restart` | the callback of the restart timer |
| `Shutdown`, `Told`, `GivesUp` | `shutdown` up to its request, its answer or timeout, and the two seconds it waits for the exit |

`child`, `pending`, `rollback`, `timer`, `attempted` and `shuttingDown` are the fields;
`this.starting` is set exactly while the hello is pending. `proc` is what the
operating system knows: a killed process ends without an exit code (`signalled`),
which matters because a shutdown that finds `exitCode` null waits for an event that
has been delivered already. `greeted`, `restarts` and `overtaken` are history
variables. A caller that tries again after a rejection does so in a later action.
Status events, stderr and the texts of messages are left out, and so is an
interpreter path that does not exist, which fails before anything changes.

### What the runs show

| run | instance | what it shows |
|---|---|---|
| `client` | one caller, two shutdowns, four processes | `NobodyWaitsForTheDead`, `HandshakeFirst`, `RestartsBounded`, `ReadyWorkerIsCovered`, `RequestsSettle`, `ShutdownEnds` (382 thousand states) |
| `client_retry` | one caller, two processes | a counterexample to `CleanRetry` |

Four processes are what it takes to use up the restarts: a worker dies, a caller
starts the next one before the restart timer fires, which completes its handshake
and dies as well, the timer starts the third, and a new timer the fourth. One caller
finds every state of this.child, and also waits for a start that the timer made; two
shutdowns overlap. That any number of callers does no harm is proved below. After the
last process nothing can start, which is why deadlock is not checked.

Fairness: the hello, every request and the wait for an exit have a timer, so
`Handshake`, `Settled`, `Told` and `GivesUp` are weakly fair. A process need not
exit and the restart timer has no fairness.

### What is proved

For any number of callers, shutdowns and processes, from `ClientAssumption` (callers,
shutdowns and the hello are different requesters): `TypeCorrect`, `NobodyIsStranded`
(`NobodyWaitsForTheDead`), `HandshakeComesFirst` (`HandshakeFirst`), `NoCrashLoop`
(`RestartsBounded`) and `ReadyWorkerKeepsRestart` (`ReadyWorkerIsCovered`).

`IInv` conjoins the first three with `ChildIsReady`: a `this.child` that is not being
started has completed its handshake. It is needed because a caller that finds no
start in progress sends to `this.child` at once. `RejectLemma`, `RejectedInv` and
`StartLemma` say what rejecting everything and starting do; each action lemma uses
them.

`BudgetInv` carries the last two. `Budget` counts what is left of the automatic
restarts for each setting of the timer and the flag. `ProcessesOwned` says that a
running process is `this.child` or was rolled back, unless a shutdown was overtaken, so
that an exit which sets the flag is that of `this.child`, and no ready worker is left
beside it. The attempt to prove one restart per outage failed on a timer that outlives
a handshake; four processes show it (see *Disagreements*), and the bound is two.
Liveness is model-checked only.

## The components on their own

The seven components below keep no state that another of them reads: the supervisor
calls them and sees how they end, and `WorkflowSupervisor` allows each of those ends.
`MCComponents` puts them side by side: `part` chooses one of them in the initial
state, and a behaviour takes the steps of that one. The run `components` is thus seven
exhaustive explorations (573 thousand states), and each property speaks of one of
them. Deadlock is not checked: a part that has ended stops. No name is shared between
the parts, so the modules also stand alone, and those with theorems have a
specification of their own (`LocalSpec`, `SecretSpec`, `CloudSpec`, `JobSpec`, `SumSpec`,
`LedgerSpec`, `StoreSpec`).

### The local transcriber

`LocalTranscriber` is `pipeline/chunked_local.py`: `Register`, `StartThread`,
`NativeReturns`, `Finish` and `NativeCloses` follow one native call, `Deliver` and
`Abandon` its coroutine, `CancelLocal` and `ForwardCancel` a cancel, which marks the
attempt under the lock and tells the dispatcher outside of it, and `CloseBegins`,
`CloseCancels`, `CloseWaits`, `CloseTimesOut` and `CloserCloses` a `close()`. One action is
one section under the lifecycle lock. The job that a call runs is `TranscriptionJob`;
the dispatcher is reduced to the set of attempts it was told to cancel and to being
closed.

`ActiveCallsAreStale`: whoever waits for the calls has cancelled them, so that the wait
is for one batch. `DispatcherOutlivesCalls`: one close, after the last call, although two
closers, a closer that timed out and the last call compete for it.
`DispatcherReleased`: a close that began ends in a closed dispatcher. Two attempts and two
closers are a call of each kind and every pair of competitors. Fairness: the threads
run (`NativeStep`, `CloserStep`), a native call returns, and the wait of a closer is timed;
coroutines and cancels have none.

Proved for any number of attempts and closers: `DispatcherClosedLast`
(`DispatcherOutlivesCalls`) and `CloseWaitsForCancelled` (`ActiveCallsAreStale`), from
`LInv`. It adds `ClosingIsFlagged` (a close in progress has set the flag, so that no
call is registered behind its snapshot), `OneClaim` (whoever is about to close the
dispatcher is the only one and has claimed it) and `CancelsReach` (a mark has reached
the dispatcher or is on its way, and what a closer has gone through is cancelled).
No assumption on the constants is needed. (`Adapters_proofs`.)

### The cloud transcriber

`CloudTranscriber` is `pipeline/cloud_asr.py` with the fan-out of `pipeline/router.py`: the
coroutine asks for its credential, checks the tombstone and registers, starts a daemon
thread, and goes on when the thread has posted its outcome; a tombstone turns every
outcome into a cancellation. The router tells both adapters of every cancel, so
attempts of the local one fill the same bounded table (`Remember`, with the entry that
an attempt cleared and the order that still holds it). `NoTranscriptAfterCancel`: an
attempt that was cancelled, or was in flight at the close, returns no transcript unless
as many cancels of others followed as the table holds. The table holds two (1024 in
the code); three attempts can cancel, so it overflows.

Proved for any set of attempts and any size of the table: `CancelledGivesNoTranscript`
(`NoTranscriptAfterCancel`). `CloudInv` adds `TableOK` (the order of the entries is bounded, and
every tombstone has an entry in it) and `TombstoneKept`: behind the
tombstone of a call that was cancelled stand no more entries than others were cancelled
after it, so that it is not dropped before the table has been filled once more. `RememberAll`, the loop of the close over the active calls, is a recursive
function over the sequence of their keys; its effect is proved by induction.

### The secret broker

`SecretBroker` is `workflow/secrets.py` and the waiting in `supervisor/server.py`. That a
future is resolved and that its coroutine goes on are two steps, between which a grant,
a reject, a cancel, the timer or a stop may come: `Grant`, `Reject`, `CancelRequest`,
`TimerFires`, `TaskStopped`, `GoesOn`. `expired` is the wall clock's view of a request
that the timer measures with another clock. `SecretsAreTransient`: a secret is held only
for a request whose call has not gone on. `SecretBroker.consume` is called by tests
only and is left out. Proved for any number of calls: `SecretsDoNotLinger`, from the
type invariant and the property itself, which is inductive.

### The transcription job

`TranscriptionJob` is `run_job` with `segment_planner.py`, `asr_batch.py` and what the
diarization provider makes of the turns. `PlanSegments` and what it is made of are pure
functions; `TakeChunk`, `BatchAnswered`, `BatchFailed` (the recursion of
`transcribe_with_isolation`, as a stack of batches), `Submit`, `OutcomeArrives`,
`OutcomeEndsJob` and `Assemble` follow the chunks on the CPU and through the dispatcher.
The branches for a cloud backend and for control files are never reached from
`chunked_local.py` and are left out.

`PlanCoversSpeech`: every moment of a turn is in a segment of its speaker, within the
limits. `EverySegmentAccounted`: a segment that was transcribed has its text and no warning;
one whose transcription is an empty text (`silent`) has an empty item and no warning
either, for the code warns of a missing transcription only (`job_runner.py:790`,
`:846`); and one without a transcription has such an item and one warning; all
in order; on the CPU a failure costs only the segment it is of. An answer is a text,
empty or not, with pieces or without (`Answers`); the text is what remains when no piece
lies in the segment (`Transcribed`). `BisectionEnds`: at most
2n - 1 calls for n segments. The inputs are every pair of turns of two speakers over
five units of time, every three that do not overlap, a recording shorter than the
turns, and one of length zero; segments of two units, so that turns are split,
clipped, merged and kept; chunks of three, so that bisecting leaves unequal halves and
a fourth segment makes a second chunk.

Two things the properties leave open because the code does them: turns of one
speaker that overlap but are separated, in their order, by one of another are not
merged and their common part is transcribed twice; and a dispatcher that is
closed makes `submit_attempt` raise, which is treated like any failure, so that a job
in progress at shutdown ends with an empty transcript and warnings.

Proved in `Results_proofs`, for any number of turns and speakers, any length and any
limits: `PlansCoverSpeech` (`PlanCoversSpeech`) and `BisectionIsBounded`
(`BisectionEnds`). The planner is a chain of functions over sequences, and each has a
lemma by induction over its input: `Sorted` permutes the turns, `Clip` keeps what lies in
the recording, `Merged` covers what its turns cover and does not overlap if they do not,
`Split` covers its input with pieces no longer than the limit. `PlanInv` carries the
result through the run. For the bisection, `BisectInv` gives every batch of n segments on
the stack 2n - 1 calls (`Affordable`, with `Cuts` counting the segments below each batch):
a failing batch of n spends one and leaves its halves 2n - 2 between them.
`JobAssumption` says that a set of turns is finite and made of speakers and natural times.

`TranscriptAccountsForEverySegment` proves `EverySegmentAccounted` and the type invariant for
every length, plan and size of batch. The property speaks of a job that is done, so the
invariant has to say what has been achieved on the way. `AccountInv` does, on top of `PlanInv`
and `BisectInv`:

- `Recorded`: of every segment before `next`, the items and warnings so far have text
  inside its bounds and no warning (`HasText`), one empty item and one warning
  (`HasPlaceholder`), or, when it is in `silent` and only then, one empty item and no warning
  (`HasSilence`); and they speak of no other segment.
- a segment of the chunk on the CPU is in `good`, is to blame for a failure of its own, or is in
  a batch that still waits (`Pending`); when the chunk is assembled none waits.
- from the sort on, the items are in the order of the recording.

A failing batch keeps the second part because its halves hold all of its segments (`HalvesKeep`),
and one that cannot be halved is a single segment, which is to blame. `Assemble` is the
loop over the chunk as a function of the number of its turns (`SegmentDone` is one turn);
`AssembleRecords` shows by induction that each turn records one more segment and leaves the
others as they were (`RecordText`, `RecordPlaceholder`, `RecordKept`). The sort inserts one item after the other behind the
last one it does not come before (`Inserted`, `Chronological`): it gives a permutation
that is in order (`FirstOnes`, `InTime`), and `RecordedInOrder` shows that records do not depend on the order.

### The summary generator

`SummaryGenerator` is the control of `summary/openai_compatible.py`: `SumBegins` resolves
the strategy and cuts the transcript (`ChunkText`, with the binary search `LongestFit` and
the cut at a paragraph break, `Cut`), `Call` sends one piece, `MergeRound` joins the
replies and cuts them again until they fit, `Draft`, `Revise` and `Repair` are the audit
of a legacy policy. A character counts one token or a quarter of one, as in
`_estimate_prompt_tokens`; what prompts say and what the audit looks for are left out.

`PiecesCoverText`: what a round sends is, in order, all of what it had, and fits the
budget. `RequestsDistinct`: no idempotency key is used twice in an attempt. The texts are
all up to three characters and some longer ones with breaks where a cut may fall, the
budgets reach from too small for one character to enough for two; one merge round is
allowed before giving up (eight in the code), so both ends of the loop are reached. A
revision sends the whole transcript and the draft whatever the budget; no property
promises otherwise.

Proved in `Results_proofs`: `RequestKeysDistinct` (`RequestsDistinct`), from `RequestInv`:
chunks are numbered below the next index across all rounds, revisions up to the number
made.

`PiecesCoverWholeText` proves `PiecesCoverText` and the type invariant, for every text, budget
and size of the fixed parts of a prompt. The invariant `SumInv` adds to `RequestInv` only the
types and the property itself; the work is in what the cutting computes. The loops are
functions from the number of turns to the state of the loop, with one turn as an operator
(`SearchNext`, `ChunkNext`):

- `PromptTokens` grows with the text (`FitsPart`), so a part of what fits, fits: what is left
  when a chunk is cut back to a paragraph break and stripped of newlines.
- `LongestFitLemma`: the search returns 0 or the length of a prefix that fits, by the
  invariant of its loop. That it is the longest does not matter to the property, and is not proved.
- `CutLemma`: the cut is after the cursor and not past what fits, so the loop ends within as many turns as there
  are characters.
- `ChunkNextLemma`, `ChunkTextLemma`: after each turn the chunks hold, in order, the characters
  before the cursor that are not newlines, and each fits.

### The artifacts

`ArtifactLedger` is `_add_artifact`, `register_revision`, retry and clear seen from the
files: a file is put in place (`Generate`, `RegisterRevision`) and the row that names it
is committed (`Save`), or the commit raises (`RunStops`, `EditStops`) or the process dies
(`Dies`) in between. The number of a write stands for the bytes. `LedgerSound` has two
parts. `CommittedFilesIntact`: a committed file is never overwritten, which
`docs/PRD_Codebase_Stabilization_Optimization_Cleanup_2026-08.md` promises (line 120), though
numbers whose commit failed are given again. `StaleFollowsEdits`: a summary that is not stale was
made from no transcript that was edited or replaced after it. Two attempts and five
files allow an edit of an edit, a retry from each stage, and a lost file.

Proved in `Results_proofs` for any numbers of attempts and files: `LedgerIsSound`
(`LedgerSound`). `LedgerInv` adds that all names refer to something that exists
(`NamesExist`), that revisions are never higher than there are artifacts, and that the
file of an artifact in the making is in place (`UnsavedInPlace`). The heart of it is that
the next revision is one more than the largest of its kind (`MaxLemma`), so that the file
it names is nobody's.

What it does not promise: a process that dies between the move and the commit loses
the staged edit; a summary in flight while its transcript is edited is published
fresh (the revision marks the summaries there are, and the next one names the edited
transcript as its input); the completion of a run removes the staging directory with an edit that the
desktop has put there and not yet registered; and a retry of the final stage combines the newest
transcript with a checkpoint that may have been made from another.

### The window's view

`WorkflowStore` is `stores/workflowStore.ts` with `workflows/reducer.ts`: `EventArrives`,
`Applies` and `AskFor` are the window; `Commits`, `Answer`, `Stops` and `Ready` are the worker
and the main process as the window meets them. Calls and replies overtake each other,
events do not; a worker that exits loses the calls it has not answered and the events
it has not written, and marks rows when it starts.

`ViewConverges`: with nothing on the way, the window shows the rows as they are.
`ClearedStaysCleared`: a cleared workflow stays away. Both except three cases in which the
code does not keep it, and which history variables name: an older list or unguarded
reply that comes after a clear puts the workflow back, an older reply changes a row
under a list that was asked for later (both `overtaken`), and a reconciliation in
progress swallows that of a restart (`swallowed`). One workflow, since the reducer
treats each by itself; three commits, so that a gap can be seen; three calls, so that
a list, a get and a clear cross; two exits, so that a restart meets the
reconciliation of the one before.

Proved in `WorkflowStore_proofs` for any number of workflows, commits, calls and exits
(`StoreAssumption`): `ViewsConverge` (`ViewConverges`) and `ClearedStaysAway`
(`ClearedStaysCleared`). Neither is inductive; `StoreInv` says where everything is that has
not arrived. Its parts:

- `UnknownUnseen`: before an id is handed out nothing speaks of it.
- `StoredIsLatest`: what is shown of a row, or on its way, is no later than the row, and
  equal to it if its sequence is; so events and replies in any order end at the row.
- `ClearsKnow`, `ListsMiss`: an answered clear, or a list that does not name a row which
  was known when it was asked for, means that the row is gone, and that no event of it is
  left behind the list.
- `LeftForGood`: a cleared row that has left the view is guarded by `clearedIds` or has no
  event left, and no reply on its way would show it.
- `OnTheWay`: for a live row that is not up to date there is an event with its state or a
  reconciliation (`Settles`); for a cleared row still in view there is the reply to the
  clear or a reconciliation that was asked for after every reply that names it (`Leaves`).

The two exceptions enter where the proof needs them: `overtaken` in `AppliesInv`, when a
reply is applied that another one undoes, and `swallowed` in `ReadyInv`. `StoreTypesCorrect`
proves the type invariant on top of `StoreInv`: no row is retried more often than it is committed
(`AttemptsBelow`), and no reply waits for more events than are queued.

## Disagreements between the code and what is said of it

1. `supervisor_cancel_sticks`: a pause that is accepted while a cancel is pending
   resets it (`supervisor.py:1214`), and after a resume the attempt completes. The
   contract says that an accepted cancel reaches `cancelled` at the safe point.
2. `supervisor_cancelled_final`: `mark_waiting_for_secret` (`supervisor.py:479`) does
   not look at the status, so a workflow paused and then cancelled during a provider
   call comes back as `waiting_for_secret` at the next call of its summary. The
   contract calls `cancelled` final.
3. `supervisor_workers_survive`: the handler of a failed run reads the row again
   (`supervisor.py:515`); a workflow cancelled while paused and then cleared during
   the call has none, and the worker task ends. A test says that failures are
   isolated.
4. `supervisor_drain_ends`: the drain of `runtime.shutdown` waits for the queue inside
   the dispatch of a line, so a paused workflow, which waits for a later line, makes
   it wait for ever. The contract says that the drain ends and that the command loop
   goes on reading.
5. `dispatcher_starvation`: the round-robin order is rotated after exhausted
   workflows have left it (`gpu_batch_scheduler.py:377-379`), so the workflow that
   moved to the front goes to the back unserved. With two others that submit their
   next chunk while a batch runs, a workflow in a length bucket of its own is never
   served. The class is called a fair dispatcher and a test says no workflow starves.
6. `client_retry`: the exit handler of a process rejects every pending request
   (`workflowRuntimeClient.ts:96`). When a hello fails and a caller retries before
   the killed process has exited, the late exit event rejects the hello of the
   replacement, which is killed as well. A test promises a clean retry, and
   `docs/PRD_Codebase_Stabilization_Optimization_Cleanup_2026-08.md` a clean restart.

Smaller ones, noted while modelling and checked by no run:

- A pause stores `paused` at once and not at a safe point; a second cancel of a
  cancelled workflow is refused although the contract calls cancel idempotent, and so
  is a cancel of an interrupted one; a failed run may recommend `writing_final` from a
  stale checkpoint.
- The transcript of a summary is chosen before the provider call (`supervisor.py:646`),
  and a revision that is registered meanwhile marks the summaries in the row only
  (`supervisor.py:430`), so the one in flight is published fresh although its input has
  been edited; the contract (line 565) says that summaries of an old revision are marked
  stale. Nor does a revision mark summaries made from another edit of the same transcript.
  A retry of the final stage may write a final file from the newest
  transcript and a checkpoint made from another.
- A batch discarded by a close is reported to its caller as cancelled.
- A comment at `workflowRuntimeClient.ts:147` says that the automatic retry is bounded to
  one attempt for an outage. A handshake renews the budget but leaves the restart
  timer of the outage before running, so the next outage gets two
  (`RestartsBounded` allows for it; with three processes it cannot happen).
- The exit of a worker that comes after its shutdown gave up counts as an outage, so
  it uses up the automatic restart of a worker that has taken its place
  (`ReadyWorkerIsCovered` excludes it by `overtaken`); and a shutdown that ends when
  another worker has been started sets `this.child` to null, so that this worker is
  neither used nor stopped.
- A list that was answered before a clear and arrives after it puts the cleared workflow
  back into the window (`workflowStore.ts:64`), and `reconcileRuntime` returns at once when one is
  in progress (`workflowStore.ts:108`), so that what a second restart changed is not
  fetched until something else asks.
- Publishing a credential request happens outside the `try` that revokes it
  (`server.py:45`), so a request whose publication failed is never removed; no
  secret can be granted for it.

## What proofs can and cannot say

Proved, for every value of the constants: all state invariants of the passing runs, the
action properties of the supervisor and the dispatcher, and the refinements of
`WorkflowLifecycle` and `BatchService`. What is proved of a component by itself holds of the composition
that `components.cfg` checks: by `ComponentsRunAlone` each of its behaviours is one of every component's own
specification, in which the steps of the others stutter. `ComponentsTypesCorrect` follows from it. The assumptions are those of the modules (`ASSUME`, evaluated by
every run) and `OneCredentialPerSummary` where it is named.

Left to TLC:

- liveness under fairness, and `ENABLED`: `QueuedRuns`, `SecretWaitEnds`,
  `CancelTakesEffect`, `CloseEnds`, `StarvedOnlyByOthers`, `RequestsSettle`,
  `ShutdownEnds`, `DispatcherReleased`. The prover has no rule for fairness.

Induction needs a detour. The library's induction theorems take an operator as a
parameter, which the provers cannot instantiate. `SetInduction` (in each module that
needs it; `NumberInduction` in `Adapters_proofs`) says the same of a set: one that contains 0 and the successor of each of its
numbers contains every number. It follows from `NatLessThanWellFounded` and `WFMin`. A
statement about a recursive function is then proved by showing that the numbers for which
it holds are such a set; that a function with the recursive equations exists is proved in
the same way, before anything is said of its values. To be in reach of this, loops over
sequences are written as functions from the number of steps to the state of the loop
(`Merged`, `Split`, `RememberAll`, `LongestFit`, `ChunkText`, `Chronological`, the rounds of
the planner), with the step as an operator of its own (`MergeNext`, `SplitNext`, `SearchNext`,
`ChunkNext`, `Inserted`), and not as `RECURSIVE` operators.

## Plan

What the project has left, in this order:

1. `RuntimeClient`: an abstract pool of requests, each settled once, that it implements.
2. `LocalTranscriber` over `BatchService`, with a job as the caller, so that the
   wait of a close is for one batch by a liveness property.
3. `WorkflowStore` with `WorkflowLifecycle` as the source of its messages.

The instances stay at two or three actors; what needs more is left to proofs.

## Not modelled

- Texts, prompts, audio samples, file formats and the layout of exports: the models
  know that a text or a file is there and what it was made from. What the audit of a
  summary looks for is reduced to two faults.
- The JSON codec and its validation, paths and their grants, hotword extraction, device
  probing, model downloads and loading (beyond that it may fail), windows and views:
  they keep no protocol state or only call libraries.
- Time appears only as events that may happen (timers, heartbeats, expiry, the coalesce
  window), except in `TranscriptionJob`, where it is the position in a recording.
- `WorkflowSupervisor` has one worker process at a time. `RuntimeClient` shows that a
  process which was killed or given up may overlap with its successor for a while; what
  the two then do to the same registry is not modelled.
- Scripts, and the fake runtime that stands in for the worker in tests.
