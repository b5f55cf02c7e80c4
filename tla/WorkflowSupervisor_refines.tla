---------------------- MODULE WorkflowSupervisor_refines ----------------------
(***************************************************************************)
(* Machine-checked proof that the supervisor implements WorkflowLifecycle, *)
(* for any number of workflows and worker tasks, when every summary is one *)
(* provider call or no provider needs a credential.  Without that          *)
(* hypothesis it does not: the credential wait before the second call of a *)
(* summary takes a cancelled row back to waiting_for_secret                *)
(* (CancelledIsFinal).                                                     *)
(*                                                                         *)
(* A step changes one row, schedules one, removes one, or interrupts some  *)
(* while the process goes away.  Edge says how it may change a row.  The   *)
(* invariant SumInv, on top of IInv and StageInv, is needed because a row  *)
(* completes without looking at the transcript.                            *)
(***************************************************************************)
EXTENDS WorkflowSupervisor_proofs

\* A worker in a provider call has begun at least one, for a workflow that
\* owns a transcript.
SumInv ==
  \A k \in Workers : worker[k].pc \in SumPc =>
    /\ worker[k].calls >= 1
    /\ worker[k].wf \in rows => snap[worker[k].wf].transcript

\* One call per summary, or summaries without a credential.
OneCredentialPerSummary == MaxCalls = 1 \/ SummaryBearer = {}

-----------------------------------------------------------------------------
(* The lifecycle, row by row. *)

\* The run of row s starts, goes on or ends, as row n.
RunEdge(s, n) ==
  /\ s.status \in {"queued"} \cup Active
  /\ n.status \in Active \cup Terminal
  /\ s.status = "queued" => n.status \notin {"paused", "interrupted"}
  /\ n.status = "completed" => s.status \in {"queued", "running"} /\ n.transcript
  /\ n.attempt = s.attempt
  /\ s.transcript => n.transcript

RetryEdge(s, n) ==
  /\ s.status \in Retryable
  /\ n.status = "queued"
  /\ n.attempt = s.attempt + 1
  /\ n.transcript = s.transcript

SameEdge(s, n) ==
  n.status = s.status /\ n.attempt = s.attempt /\ n.transcript = s.transcript

Edge(s, n) == RunEdge(s, n) \/ RetryEdge(s, n) \/ SameEdge(s, n)

\* What a step does to workflow w.
RowFollows(w) ==
  \/ w \in rows /\ w \in rows' /\ Edge(snap[w], snap'[w])
  \/ w \in rows /\ w \notin rows' /\ snap[w].status \in Terminal /\ w <= born'
  \/ /\ w \notin rows /\ w \in rows' /\ ~(w <= born)
     /\ snap'[w].status = "queued" /\ snap'[w].attempt = 1
  \/ w \notin rows /\ w \notin rows' /\ (w <= born <=> w <= born')

Follows == SumInv' /\ \A w \in Workflow : RowFollows(w)

\* Rows that follow the edges are a step of the lifecycle.
LEMMA LifecycleStep ==
  ASSUME IInv, \A w \in Workflow : RowFollows(w)
  PROVE  Lifecycle!Next
  <1>1. ASSUME NEW w \in Workflow
        PROVE  \/ Lifecycle!Appears(w) \/ Lifecycle!Advances(w) \/ Lifecycle!Restarts(w)
               \/ Lifecycle!Disappears(w) \/ Lifecycle!Stays(w)
    <2>1. CASE w \in rows /\ w \in rows' /\ RunEdge(snap[w], snap'[w])
      BY <2>1 DEF RunEdge, Lifecycle!Advances, Lifecycle!Becomes, Lifecycle!KeepsAttempt,
         Lifecycle!MayGainTranscript, Lifecycle!Executing, Lifecycle!Ended, Active, Terminal
    <2>2. CASE w \in rows /\ w \in rows' /\ RetryEdge(snap[w], snap'[w])
      BY <2>2 DEF RetryEdge, Lifecycle!Restarts, Lifecycle!Becomes,
         Lifecycle!KeepsTranscript, Lifecycle!Restartable, Retryable
    <2>3. CASE w \in rows /\ w \in rows' /\ SameEdge(snap[w], snap'[w])
      BY <2>3 DEF SameEdge, Lifecycle!Stays, Lifecycle!KeepsAttempt,
         Lifecycle!KeepsTranscript
    <2>4. CASE w \in rows /\ w \notin rows' /\ snap[w].status \in Terminal /\ w <= born'
      BY <2>4 DEF Lifecycle!Disappears, Lifecycle!Becomes, Lifecycle!Ended, Terminal
    <2>5. CASE /\ w \notin rows /\ w \in rows' /\ ~(w <= born)
               /\ snap'[w].status = "queued" /\ snap'[w].attempt = 1
      BY <2>5 DEF Lifecycle!Appears, Lifecycle!Becomes
    <2>6. CASE w \notin rows /\ w \notin rows' /\ (w <= born <=> w <= born')
      BY <2>6 DEF Lifecycle!Stays, Lifecycle!KeepsAttempt, Lifecycle!KeepsTranscript
    <2>. QED
      BY <2>1, <2>2, <2>3, <2>4, <2>5, <2>6 DEF RowFollows, Edge
  <1>. QED
    BY <1>1 DEF Lifecycle!Next

-----------------------------------------------------------------------------
(* The shapes of steps. *)

LEMMA SameRow ==
  ASSUME NEW s
  PROVE  Edge(s, s)
  BY DEF Edge, SameEdge

\* No edge loses a transcript.
LEMMA EdgeKeepsTranscript ==
  ASSUME NEW s, NEW n, Edge(s, n), s.transcript
  PROVE  n.transcript
  BY DEF Edge, RunEdge, RetryEdge, SameEdge

\* Worker k makes no provider call, or goes on with the one it made.
NoNewCall(k) ==
  \/ worker'[k].pc \notin SumPc
  \/ /\ worker[k].pc \in SumPc
     /\ worker'[k].wf = worker[k].wf
     /\ worker'[k].calls = worker[k].calls

\* Shape 1: row w becomes n, and a provider call that is begun is for it.
LEMMA RowChanges ==
  ASSUME IInv, SumInv,
         NEW w \in rows, NEW n,
         snap' = [snap EXCEPT ![w] = n], UNCHANGED <<rows, born>>,
         Edge(snap[w], n),
         \A k \in Workers : \/ NoNewCall(k)
                            \/ worker'[k].wf = w /\ worker'[k].calls >= 1 /\ n.transcript
  PROVE  Follows
  <1>1. /\ w \in Workflow /\ snap'[w] = n
        /\ \A v \in Workflow : v # w => snap'[v] = snap[v]
        /\ rows \subseteq Workflow
    BY RowsLemma DEF IInv, TypeOK
  <1>2. \A v \in Workflow : RowFollows(v)
    BY <1>1, SameRow DEF RowFollows
  <1>3. ASSUME NEW k \in Workers, worker'[k].pc \in SumPc
        PROVE  /\ worker'[k].calls >= 1
               /\ worker'[k].wf \in rows' => snap'[worker'[k].wf].transcript
    <2>1. CASE NoNewCall(k)
      <3>1. /\ worker'[k].wf = worker[k].wf /\ worker'[k].calls = worker[k].calls
            /\ worker[k].calls >= 1
            /\ worker[k].wf \in rows => snap[worker[k].wf].transcript
        BY <2>1, <1>3 DEF NoNewCall, SumInv
      <3>2. worker[k].wf = w => n.transcript
        BY <3>1, EdgeKeepsTranscript
      <3>. QED
        BY <1>1, <3>1, <3>2
    <2>2. CASE worker'[k].wf = w /\ worker'[k].calls >= 1 /\ n.transcript
      BY <2>2, <1>1
    <2>. QED
      BY <2>1, <2>2
  <1>. QED
    BY <1>2, <1>3 DEF Follows, SumInv

\* Shape 2: no row changes.
LEMMA RowsKept ==
  ASSUME SumInv, UNCHANGED registry, \A k \in Workers : NoNewCall(k)
  PROVE  Follows
  <1>1. \A v \in Workflow : RowFollows(v)
    BY SameRow DEF RowFollows, registry
  <1>2. SumInv'
    BY DEF SumInv, NoNewCall, registry
  <1>. QED
    BY <1>1, <1>2 DEF Follows

\* Shape 3: a new workflow gets a row.
LEMMA RowAppears ==
  ASSUME IInv, SumInv, born < N, NEW n,
         n.status = "queued", n.attempt = 1,
         snap' = [snap EXCEPT ![born + 1] = n],
         rows' = rows \cup {born + 1}, born' = born + 1, UNCHANGED worker
  PROVE  Follows
  <1>. DEFINE w == born + 1
  <1>1. /\ w \in Workflow /\ w \notin rows /\ \A k \in Workers : ~Runs(k, w)
        /\ rows \subseteq Workflow
    BY UnbornLemma, RowsLemma DEF IInv
  <1>2. /\ snap'[w] = n /\ \A v \in Workflow : v # w => snap'[v] = snap[v]
        /\ rows' = rows \cup {w}
    BY <1>1 DEF IInv, TypeOK
  <1>3. born \in Nat /\ ~(w <= born) /\ \A v \in Workflow : v # w => (v <= born <=> v <= born')
    BY SupervisorAssumption DEF IInv, TypeOK, Workflow
  <1>. HIDE DEF w
  <1>4. \A v \in Workflow : RowFollows(v)
    BY <1>1, <1>2, <1>3, SameRow DEF RowFollows
  <1>5. ASSUME NEW k \in Workers, worker'[k].pc \in SumPc
        PROVE  /\ worker'[k].calls >= 1
               /\ worker'[k].wf \in rows' => snap'[worker'[k].wf].transcript
    <2>1. worker'[k] = worker[k] /\ worker[k].wf # w
      BY <1>1, <1>5 DEF Runs, Busy, BusyPc, SumPc
    <2>. QED
      BY <1>1, <1>2, <1>5, <2>1 DEF SumInv
  <1>. QED
    BY <1>4, <1>5 DEF Follows, SumInv

\* Shape 4: nobody is in a call, and the rows follow their edges.
LEMMA AllRowsChange ==
  ASSUME UNCHANGED <<rows, born>>,
         \A k \in Workers : worker'[k] = Idle,
         \A w \in rows : Edge(snap[w], snap'[w])
  PROVE  Follows
  <1>1. \A v \in Workflow : RowFollows(v)
    BY DEF RowFollows
  <1>2. SumInv'
    BY IdleCalls DEF SumInv
  <1>. QED
    BY <1>1, <1>2 DEF Follows

\* A worker that leaves its run, while the others stay.
LEMMA LeaverCalls ==
  ASSUME IInv, NEW k \in Workers,
         worker' = [worker EXCEPT ![k] = Idle] \/ worker' = [worker EXCEPT ![k] = Dead]
  PROVE  \A j \in Workers : NoNewCall(j)
  <1>1. worker \in [Workers -> WorkerState]
    BY DEF IInv, TypeOK
  <1>2. worker'[k].pc \in {"idle", "dead"} /\ \A j \in Workers : j # k => worker'[j] = worker[j]
    BY <1>1 DEF Idle, Dead
  <1>. QED
    BY <1>2 DEF NoNewCall, SumPc

\* A worker that changes its await within a call.
LEMMA AwaitCalls ==
  ASSUME IInv, NEW k \in Workers, Busy(k), NEW pc \in BusyPc,
         worker' = [worker EXCEPT ![k].pc = pc],
         pc \in SumPc => worker[k].pc \in SumPc
  PROVE  \A j \in Workers : NoNewCall(j)
  <1>1. worker \in [Workers -> WorkerState] /\ worker[k] \in WorkerState
    BY DEF IInv, TypeOK
  <1>2. /\ worker'[k].pc = pc /\ worker'[k].wf = worker[k].wf
        /\ worker'[k].calls = worker[k].calls
        /\ \A j \in Workers : j # k => worker'[j] = worker[j]
    BY <1>1 DEF WorkerState
  <1>. QED
    BY <1>2 DEF NoNewCall

-----------------------------------------------------------------------------
(* Requests. *)

LEMMA PauseFollows ==
  ASSUME IInv, SumInv, NEW w \in Workflow, Pause(w)
  PROVE  Follows
  <1>. DEFINE n == PauseApplied(snap[w])
  <1>1. /\ w \in rows /\ snap[w] \in Snapshot /\ snap[w].status = "running"
        /\ Commit(w, n) /\ UNCHANGED <<rows, born, worker>>
    BY RowLemma DEF Pause, CanPause, IInv
  <1>2. /\ n \in Snapshot /\ n.sequence > snap[w].sequence /\ n.status = "paused"
        /\ n.attempt = snap[w].attempt /\ n.transcript = snap[w].transcript
    BY <1>1, PauseLemma
  <1>. HIDE DEF n
  <1>3. snap' = [snap EXCEPT ![w] = n]
    BY <1>1, <1>2, CommitLemma DEF IInv, TypeOK
  <1>4. Edge(snap[w], n)
    BY <1>1, <1>2 DEF Edge, RunEdge, Active
  <1>. QED
    BY <1>1, <1>3, <1>4, RowChanges DEF NoNewCall

LEMMA ResumeFollows ==
  ASSUME IInv, SumInv, NEW w \in Workflow, Resume(w)
  PROVE  Follows
  <1>. DEFINE n == ResumeApplied(snap[w])
  <1>1. /\ w \in rows /\ snap[w] \in Snapshot /\ snap[w].status = "paused"
        /\ Commit(w, n) /\ UNCHANGED <<rows, born, worker>>
    BY RowLemma DEF Resume, CanResume, IInv
  <1>2. /\ n \in Snapshot /\ n.sequence > snap[w].sequence /\ n.status = "running"
        /\ n.attempt = snap[w].attempt /\ n.transcript = snap[w].transcript
    BY <1>1, ResumeLemma
  <1>. HIDE DEF n
  <1>3. snap' = [snap EXCEPT ![w] = n]
    BY <1>1, <1>2, CommitLemma DEF IInv, TypeOK
  <1>4. Edge(snap[w], n)
    BY <1>1, <1>2 DEF Edge, RunEdge, Active
  <1>. QED
    BY <1>1, <1>3, <1>4, RowChanges DEF NoNewCall

LEMMA CancelFollows ==
  ASSUME IInv, SumInv, NEW w \in Workflow, Cancel(w)
  PROVE  Follows
  <1>. DEFINE n == CancelRequested(snap[w])
  <1>1. /\ w \in rows /\ snap[w] \in Snapshot
        /\ snap[w].status \in {"queued"} \cup Active
        /\ Commit(w, n) /\ UNCHANGED <<rows, born>>
    BY RowLemma DEF Cancel, CanCancel, IInv, Active
  <1>2. /\ n \in Snapshot /\ n.sequence > snap[w].sequence
        /\ n.status = IF snap[w].status = "running" THEN "running" ELSE "cancelled"
        /\ n.attempt = snap[w].attempt /\ n.transcript = snap[w].transcript
    BY <1>1, CancelLemma
  <1>. HIDE DEF n
  <1>3. snap' = [snap EXCEPT ![w] = n]
    BY <1>1, <1>2, CommitLemma DEF IInv, TypeOK
  <1>4. Edge(snap[w], n)
    BY <1>1, <1>2 DEF Edge, RunEdge, Active, Terminal
  <1>5. ASSUME NEW k \in Workers
        PROVE  NoNewCall(k)
    <2>1. worker[k] \in WorkerState
      BY DEF IInv, TypeOK
    <2>2. worker'[k].pc = "raising" \/ worker'[k] = worker[k]
      BY <2>1 DEF Cancel, WorkerState
    <2>. QED
      BY <2>2 DEF NoNewCall, SumPc
  <1>. QED
    BY <1>1, <1>3, <1>4, <1>5, RowChanges

LEMMA RetryFollows ==
  ASSUME IInv, SumInv, NEW w \in Workflow, NEW from \in RetryStage \cup {"auto"},
         Retry(w, from)
  PROVE  Follows
  <1>. DEFINE stage == RetryStageOf(snap[w], from)
              n == RetrySnapshot(snap[w], stage)
  <1>1. /\ w \in rows /\ snap[w].status \in Retryable
        /\ Commit(w, n) /\ UNCHANGED <<rows, born, worker>>
    BY DEF Retry, MayRetry
  <1>2. snap[w] \in Snapshot
    BY RowLemma DEF IInv
  <1>3. stage \in RetryStage
    BY <1>2, RetryStageLemma
  <1>4. /\ n \in Snapshot /\ n.sequence > snap[w].sequence /\ n.status = "queued"
        /\ n.attempt = snap[w].attempt + 1 /\ n.transcript = snap[w].transcript
    BY <1>2, <1>3, RetryLemma
  <1>. HIDE DEF n, stage
  <1>5. snap' = [snap EXCEPT ![w] = n]
    BY <1>1, <1>4, CommitLemma DEF IInv, TypeOK
  <1>6. Edge(snap[w], n)
    BY <1>1, <1>4 DEF Edge, RetryEdge
  <1>. QED
    BY <1>1, <1>5, <1>6, RowChanges DEF NoNewCall

\* A row whose status, attempt and transcript stay.
LEMMA TouchFollows ==
  ASSUME IInv, SumInv, NEW w \in rows, NEW n \in Snapshot, Commit(w, n),
         n.sequence > snap[w].sequence, SameEdge(snap[w], n),
         UNCHANGED <<rows, born, worker>>
  PROVE  Follows
  <1>1. w \in Workflow
    BY RowsLemma DEF IInv
  <1>2. snap' = [snap EXCEPT ![w] = n]
    BY <1>1, CommitLemma DEF IInv, TypeOK
  <1>. QED
    BY <1>2, RowChanges DEF Edge, NoNewCall

LEMMA ReviseTranscriptFollows ==
  ASSUME IInv, SumInv, NEW w \in Workflow, NEW affects \in BOOLEAN,
         ReviseTranscript(w, affects)
  PROVE  Follows
  <1>. DEFINE n == TranscriptRevised(snap[w], affects)
  <1>1. /\ w \in rows /\ snap[w] \in Snapshot
        /\ Commit(w, n) /\ UNCHANGED <<rows, born, worker>>
    BY RowLemma DEF ReviseTranscript, volatile, IInv
  <1>2. n \in Snapshot /\ n.sequence > snap[w].sequence /\ SameEdge(snap[w], n)
    BY <1>1, TranscriptRevisedLemma DEF SameEdge
  <1>. QED
    BY <1>1, <1>2, TouchFollows

LEMMA ReviseFinalFollows ==
  ASSUME IInv, SumInv, NEW w \in Workflow, ReviseFinal(w)
  PROVE  Follows
  <1>. DEFINE n == FinalRevised(snap[w])
  <1>1. /\ w \in rows /\ snap[w] \in Snapshot
        /\ Commit(w, n) /\ UNCHANGED <<rows, born, worker>>
    BY RowLemma DEF ReviseFinal, volatile, IInv
  <1>2. n \in Snapshot /\ n.sequence > snap[w].sequence /\ SameEdge(snap[w], n)
    BY <1>1, FinalRevisedLemma DEF SameEdge
  <1>. QED
    BY <1>1, <1>2, TouchFollows

LEMMA HeartbeatFollows ==
  ASSUME IInv, SumInv, NEW k \in Workers, Heartbeat(k)
  PROVE  Follows
  <1>. DEFINE w == worker[k].wf
              n == Touch(snap[w])
  <1>1. /\ w \in rows /\ Commit(w, n) /\ UNCHANGED <<rows, born, worker>>
    BY DEF Heartbeat, volatile
  <1>2. w \in Workflow /\ snap[w] \in Snapshot
    BY <1>1, RowsLemma, RowLemma DEF IInv
  <1>3. n \in Snapshot /\ n.sequence > snap[w].sequence /\ SameEdge(snap[w], n)
    BY <1>2, TouchLemma DEF SameEdge
  <1>. QED
    BY <1>1, <1>3, TouchFollows

LEMMA ClearFollows ==
  ASSUME IInv, SumInv, NEW w \in Workflow, Clear(w)
  PROVE  Follows
  <1>1. /\ w \in rows /\ snap[w].status \in Terminal /\ rows' = rows \ {w}
        /\ snap' = [snap EXCEPT ![w] = InitialSnapshot] /\ UNCHANGED <<worker, born>>
    BY DEF Clear
  <1>2. \A v \in Workflow : v # w => snap'[v] = snap[v]
    BY <1>1 DEF IInv, TypeOK
  <1>3. w <= born'
    BY <1>1 DEF IInv, TypeOK
  <1>4. \A v \in Workflow : RowFollows(v)
    BY <1>1, <1>2, <1>3, SameRow DEF RowFollows
  <1>5. SumInv'
    <2>1. rows \subseteq Workflow
      BY RowsLemma DEF IInv
    <2>. QED
      BY <1>1, <1>2, <2>1 DEF SumInv
  <1>. QED
    BY <1>4, <1>5 DEF Follows

LEMMA SubmitFollows ==
  ASSUME IInv, SumInv, Submit
  PROVE  Follows
  BY InitialLemma, RowAppears DEF Submit

LEMMA ResummarizeFollows ==
  ASSUME IInv, SumInv, NEW v \in Workflow, Resummarize(v)
  PROVE  Follows
  BY ResummarizeLemma, RowAppears DEF Resummarize

-----------------------------------------------------------------------------
(* Credential answers and the pause gate. *)

LEMMA GrantFollows ==
  ASSUME IInv, SumInv, NEW k \in Workers, Grant(k)
  PROVE  Follows
  <1>. DEFINE w == worker[k].wf
              pc == IF worker[k].pc = "asr_secret" THEN "asr" ELSE "sum"
              n == SecretGranted(snap[w])
  <1>1. /\ worker[k].pc \in {"asr_secret", "sum_secret"}
        /\ worker' = [worker EXCEPT ![k].pc = pc] /\ UNCHANGED <<rows, born, queue>>
    BY DEF Grant, SecretWait, IInv, TypeOK
  <1>2. /\ Busy(k) /\ pc \in BusyPc /\ w \in Workflow
        /\ pc \in SumPc => worker[k].pc \in SumPc
    BY <1>1, BusyLemma DEF Busy, BusyPc, SumPc
  <1>3. \A j \in Workers : NoNewCall(j)
    <2>. HIDE DEF pc
    <2>. QED
      BY <1>1, <1>2, AwaitCalls
  <1>4. CASE UNCHANGED snap
    BY <1>1, <1>3, <1>4, RowsKept DEF registry
  <1>5. CASE w \in rows /\ snap[w].status = "waiting_for_secret" /\ Commit(w, n)
    <2>1. snap[w] \in Snapshot /\ snap[w].stage \in Stage
      BY <1>2, RowLemma DEF IInv, Snapshot
    <2>2. /\ n \in Snapshot /\ n.sequence > snap[w].sequence /\ n.status = "running"
          /\ n.attempt = snap[w].attempt /\ n.transcript = snap[w].transcript
      BY <2>1, TransitionLemma, CallStageLemma, SMTT(30) DEF SecretGranted
    <2>3. w \in rows /\ snap[w].status = "waiting_for_secret" /\ Commit(w, n)
      BY <1>5
    <2>. HIDE DEF n, w
    <2>4. snap' = [snap EXCEPT ![w] = n]
      BY <1>2, <2>2, <2>3, CommitLemma DEF IInv, TypeOK
    <2>5. Edge(snap[w], n)
      BY <2>2, <2>3 DEF Edge, RunEdge, Active
    <2>. QED
      BY <1>1, <1>3, <2>3, <2>4, <2>5, RowChanges
  <1>6. \/ UNCHANGED snap
        \/ w \in rows /\ snap[w].status = "waiting_for_secret" /\ Commit(w, n)
    BY DEF Grant
  <1>. QED
    BY <1>4, <1>5, <1>6

LEMMA RejectFollows ==
  ASSUME IInv, SumInv, NEW k \in Workers, Reject(k)
  PROVE  Follows
  <1>1. /\ worker[k].pc \in SecretWait
        /\ worker' = [worker EXCEPT ![k].pc = "raising"]
        /\ UNCHANGED registry
    BY DEF Reject
  <1>2. Busy(k) /\ "raising" \in BusyPc /\ "raising" \notin SumPc
    BY <1>1 DEF Busy, BusyPc, SecretWait, SumPc
  <1>. QED
    BY <1>1, <1>2, AwaitCalls, RowsKept

LEMMA GatePausesFollows ==
  ASSUME IInv, SumInv, NEW k \in Workers, NEW stage \in CallStage, GatePauses(k, stage)
  PROVE  Follows
  <1>1. /\ ReachesGate(k, stage) /\ worker[k].pc = CallPc[stage]
        /\ worker' = [worker EXCEPT ![k].pc = GatePc[stage]]
        /\ UNCHANGED registry
    BY DEF GatePauses
  <1>2. /\ Busy(k) /\ GatePc[stage] \in BusyPc
        /\ GatePc[stage] \in SumPc => worker[k].pc \in SumPc
    BY <1>1, GateLemma DEF GatePc, CallPc, CallStage, BusyPc, SumPc
  <1>. QED
    BY <1>1, <1>2, AwaitCalls, RowsKept

-----------------------------------------------------------------------------
(* Steps that end a run. *)

\* Worker k leaves the run of w, whose row becomes n.
LEMMA RunLeaves ==
  ASSUME IInv, SumInv, NEW k \in Workers, NEW w \in rows, NEW n \in Snapshot,
         n.sequence > snap[w].sequence \/ n = snap[w], Commit(w, n),
         Edge(snap[w], n), worker' = [worker EXCEPT ![k] = Idle],
         UNCHANGED <<rows, born>>
  PROVE  Follows
  <1>1. w \in Workflow
    BY RowsLemma DEF IInv
  <1>2. snap' = [snap EXCEPT ![w] = n]
    BY <1>1, CommitLemma DEF IInv, TypeOK
  <1>. QED
    BY <1>2, LeaverCalls, RowChanges

LEMMA TakeSkippedFollows ==
  ASSUME IInv, SumInv, NEW k \in Workers, TakeSkipped(k)
  PROVE  Follows
  BY LeaverCalls, RowsKept DEF TakeSkipped, Release

LEMMA GateAbandonsFollows ==
  ASSUME IInv, SumInv, NEW k \in Workers, NEW stage \in CallStage, GateAbandons(k, stage)
  PROVE  Follows
  BY LeaverCalls, RowsKept DEF GateAbandons, Release, registry

LEMMA TakeWriteFinalFollows ==
  ASSUME IInv, SumInv, NEW k \in Workers, TakeWriteFinal(k)
  PROVE  Follows
  <1>. DEFINE w == Head(queue).wf
              t == Writing(snap[w])
              n == Completed(t)
  <1>1. /\ Takes(k) /\ queue' = Tail(queue) /\ w \in rows /\ snap[w].status = "queued"
        /\ snap[w].transcript /\ Commit(w, n)
        /\ worker' = [worker EXCEPT ![k] = Idle] /\ UNCHANGED <<rows, born>>
    BY DEF TakeWriteFinal, Runnable, Release
  <1>2. snap[w] \in Snapshot
    BY <1>1, TakesLemma, RowLemma DEF IInv
  <1>3. /\ t \in Snapshot /\ t.sequence > snap[w].sequence
        /\ t.attempt = snap[w].attempt /\ t.transcript = snap[w].transcript
    BY <1>2, PreparedLemma
  <1>4. /\ n \in Snapshot /\ n.sequence > t.sequence /\ n.status = "completed"
        /\ n.attempt = t.attempt /\ n.transcript = t.transcript
    BY <1>3, CompletedLemma
  <1>. HIDE DEF w, t, n
  <1>5. n.sequence > snap[w].sequence
    BY <1>2, <1>3, <1>4 DEF Snapshot
  <1>6. Edge(snap[w], n)
    BY <1>1, <1>3, <1>4 DEF Edge, RunEdge, Terminal
  <1>. QED
    BY <1>1, <1>4, <1>5, <1>6, RunLeaves

LEMMA TakeFailsFollows ==
  ASSUME IInv, SumInv, NEW k \in Workers, TakeFails(k)
  PROVE  Follows
  <1>. DEFINE w == Head(queue).wf
  <1>1. /\ Takes(k) /\ queue' = Tail(queue) /\ w \in rows /\ snap[w].status = "queued"
        /\ worker' = [worker EXCEPT ![k] = Idle] /\ UNCHANGED <<rows, born>>
    BY DEF TakeFails, Runnable, Release
  <1>2. snap[w] \in Snapshot
    BY <1>1, TakesLemma, RowLemma DEF IInv
  <1>3. PICK s \in Prepared(snap[w], Head(queue).from) : Commit(w, Failed(s))
    BY DEF TakeFails
  <1>4. /\ s \in Snapshot /\ s.sequence > snap[w].sequence
        /\ s.attempt = snap[w].attempt /\ s.transcript = snap[w].transcript
    BY <1>2, PreparedLemma DEF Prepared
  <1>5. /\ Failed(s) \in Snapshot /\ Failed(s).sequence > snap[w].sequence
        /\ Failed(s).status = "failed"
        /\ Failed(s).attempt = s.attempt /\ Failed(s).transcript = s.transcript
    BY <1>2, <1>4, FailedAfter, FailedLemma
  <1>. HIDE DEF w
  <1>6. Edge(snap[w], Failed(s))
    BY <1>1, <1>4, <1>5 DEF Edge, RunEdge, Terminal
  <1>. QED
    BY <1>1, <1>3, <1>5, <1>6, RunLeaves

LEMMA GateCancelsFollows ==
  ASSUME IInv, SumInv, NEW k \in Workers, NEW stage \in CallStage, GateCancels(k, stage)
  PROVE  Follows
  <1>. DEFINE w == worker[k].wf
              n == Cancelled(snap[w])
  <1>1. /\ ReachesGate(k, stage) /\ w \in rows /\ Commit(w, n)
        /\ worker' = [worker EXCEPT ![k] = Idle] /\ UNCHANGED <<rows, born, queue>>
    BY DEF GateCancels, Release
  <1>2. snap[w] \in Snapshot /\ snap[w].status \in Active \cup {"cancelled"}
    BY <1>1, GateLemma, BusyLemma
  <1>3. /\ n \in Snapshot /\ (n.sequence > snap[w].sequence \/ n = snap[w])
        /\ n.status = "cancelled" /\ n.attempt = snap[w].attempt
        /\ n.transcript = snap[w].transcript
    BY <1>2, CancelledLemma
  <1>. HIDE DEF w, n
  <1>4. Edge(snap[w], n)
    BY <1>2, <1>3 DEF Edge, RunEdge, SameEdge, Active, Terminal
  <1>. QED
    BY <1>1, <1>3, <1>4, RunLeaves

LEMMA RaiseFollows ==
  ASSUME IInv, SumInv, NEW k \in Workers, Busy(k),
         NEW asCancelled \in BOOLEAN, Raise(k, asCancelled),
         UNCHANGED <<rows, born, queue>>
  PROVE  Follows
  <1>. DEFINE w == worker[k].wf
              n == Handled(snap[w], asCancelled)
  <1>1. CASE w \in rows
    <2>1. snap[w] \in Snapshot /\ snap[w].status \in Active \cup {"cancelled"}
      BY <1>1, BusyLemma
    <2>2. /\ n \in Snapshot /\ (n.sequence > snap[w].sequence \/ n = snap[w])
          /\ \/ n = snap[w]
             \/ /\ snap[w].status \notin Terminal
                /\ n.status \in {"cancelled", "failed"}
                /\ n.attempt = snap[w].attempt /\ n.transcript = snap[w].transcript
      BY <2>1, CancelledLemma, FailedLemma DEF Handled
    <2>3. Commit(w, n) /\ worker' = [worker EXCEPT ![k] = Idle]
      BY <1>1 DEF Raise, Release
    <2>. HIDE DEF w, n
    <2>4. Edge(snap[w], n)
      BY <2>1, <2>2, SameRow DEF Edge, RunEdge, Active, Terminal
    <2>. QED
      BY <1>1, <2>2, <2>3, <2>4, RunLeaves
  <1>2. CASE w \notin rows
    BY <1>2, LeaverCalls, RowsKept DEF Raise, registry
  <1>. QED
    BY <1>1, <1>2

LEMMA ErrorStepFollows ==
  ASSUME IInv, SumInv, NEW k \in Workers, ErrorStep(k)
  PROVE  Follows
  <1>1. ASSUME NEW asCancelled \in BOOLEAN, CallFails(k, asCancelled)
        PROVE  Follows
    <2>1. Busy(k)
      BY <1>1 DEF CallFails, Busy, BusyPc
    <2>. QED
      BY <1>1, <2>1, RaiseFollows DEF CallFails
  <1>2. CASE SecretTimeout(k)
    <2>1. Busy(k)
      BY <1>2 DEF SecretTimeout, Busy, BusyPc, SecretWait
    <2>. QED
      BY <1>2, <2>1, RaiseFollows DEF SecretTimeout
  <1>3. CASE SecretRaises(k)
    <2>1. Busy(k)
      BY <1>3 DEF SecretRaises, Busy, BusyPc
    <2>. QED
      BY <1>3, <2>1, RaiseFollows DEF SecretRaises
  <1>. QED
    BY <1>1, <1>2, <1>3 DEF ErrorStep

\* The first artifact of a passed gate never takes a transcript away.
LEMMA FirstCommitRow ==
  ASSUME NEW s \in Snapshot, NEW stage \in CallStage
  PROVE  /\ FirstCommit(s, stage) \in Snapshot
         /\ FirstCommit(s, stage).sequence > s.sequence
         /\ FirstCommit(s, stage).status = s.status
         /\ FirstCommit(s, stage).attempt = s.attempt
         /\ s.transcript => FirstCommit(s, stage).transcript
  BY TranscriptReadyLemma, CheckpointReadyLemma DEF FirstCommit

LEMMA PublishFailsFollows ==
  ASSUME IInv, SumInv, NEW k \in Workers, NEW stage \in CallStage, PublishFails(k, stage)
  PROVE  Follows
  <1>. DEFINE w == worker[k].wf
              f == FirstCommit(snap[w], stage)
  <1>1. /\ Passes(k, stage) /\ UNCHANGED <<rows, born, queue>>
        /\ worker' = [worker EXCEPT ![k] = Idle]
    BY DEF PublishFails, Release
  <1>2. PICK s \in {snap[w], f} : Commit(w, Failed(s))
    BY DEF PublishFails
  <1>3. w \in rows /\ snap[w] \in Snapshot /\ snap[w].status = "running"
    BY <1>1, PassesLemma
  <1>4. /\ f \in Snapshot /\ f.sequence > snap[w].sequence /\ f.attempt = snap[w].attempt
        /\ snap[w].transcript => f.transcript
    BY <1>3, FirstCommitRow
  <1>. HIDE DEF w, f
  <1>5. /\ Failed(s) \in Snapshot /\ Failed(s).sequence > snap[w].sequence
        /\ Failed(s).status = "failed" /\ Failed(s).attempt = s.attempt
        /\ Failed(s).transcript = s.transcript
    BY <1>3, <1>4, FailedAfter, FailedLemma
  <1>6. Edge(snap[w], Failed(s))
    BY <1>3, <1>4, <1>5 DEF Edge, RunEdge, Active, Terminal
  <1>. QED
    BY <1>1, <1>2, <1>3, <1>5, <1>6, RunLeaves

\* A summary is published by a provider call, so its workflow owns a transcript.
LEMMA PublishSummaryFollows ==
  ASSUME IInv, SumInv, NEW k \in Workers, PublishSummary(k)
  PROVE  Follows
  <1>. DEFINE w == worker[k].wf
              r == CheckpointReady(snap[w])
              n == Completed(r)
  <1>1. /\ Passes(k, "summarizing") /\ UNCHANGED <<rows, born, queue>> /\ Commit(w, n)
        /\ worker' = [worker EXCEPT ![k] = Idle]
    BY DEF PublishSummary, Release
  <1>2. w \in rows /\ snap[w] \in Snapshot /\ snap[w].status = "running"
    BY <1>1, PassesLemma, CallStageLemma
  <1>3. snap[w].transcript
    BY <1>1, <1>2 DEF SumInv, Passes, ReachesGate, CallPc, GatePc, SumPc
  <1>4. /\ r \in Snapshot /\ r.sequence > snap[w].sequence
        /\ r.attempt = snap[w].attempt /\ r.transcript = snap[w].transcript
    BY <1>2, CheckpointReadyLemma
  <1>5. /\ n \in Snapshot /\ n.sequence > r.sequence /\ n.status = "completed"
        /\ n.attempt = r.attempt /\ n.transcript = r.transcript
    BY <1>4, CompletedLemma
  <1>. HIDE DEF w, r, n
  <1>6. n.sequence > snap[w].sequence
    BY <1>2, <1>4, <1>5 DEF Snapshot
  <1>7. Edge(snap[w], n)
    BY <1>2, <1>3, <1>4, <1>5 DEF Edge, RunEdge, Active, Terminal
  <1>. QED
    BY <1>1, <1>2, <1>5, <1>6, <1>7, RunLeaves

-----------------------------------------------------------------------------
(* Steps that enter a call. *)

\* A call may begin when its row follows an edge into execution, and a
\* provider call when the row owns a transcript.
LEMMA CallFollows ==
  ASSUME IInv, SumInv,
         NEW k \in Workers, NEW w \in rows,
         NEW base \in Snapshot, NEW stage \in CallStage, NEW calls \in Nat,
         base.sequence > snap[w].sequence,
         base.stage = stage, base.status = "running",
         base.attempt = snap[w].attempt, snap[w].transcript => base.transcript,
         snap[w].status \in {"queued"} \cup Active,
         stage = "summarizing" => calls >= 1 /\ base.transcript,
         BeginCall(k, w, base, stage, calls), UNCHANGED <<rows, born>>
  PROVE  Follows
  <1>. w \in Workflow /\ worker \in [Workers -> WorkerState]
    BY RowsLemma DEF IInv, TypeOK
  <1>1. PICK n \in Snapshot, pc \in {CallPc[stage], SecretPc[stage]} :
           /\ snap' = [snap EXCEPT ![w] = n]
           /\ n = base \/ n.status = "waiting_for_secret"
           /\ n.stage = stage /\ n.attempt = base.attempt
           /\ n.recommended = base.recommended
           /\ n.transcript = base.transcript /\ n.pending = base.pending
           /\ worker' = [worker EXCEPT ![k] =
                           [pc |-> pc, wf |-> w, attempt |-> base.attempt, calls |-> calls]]
    BY CallRow DEF IInv, TypeOK
  <1>2. pc \in SumPc => stage = "summarizing"
    BY DEF CallStage, CallPc, SecretPc, SumPc
  <1>3. /\ worker'[k].pc = pc /\ worker'[k].wf = w /\ worker'[k].calls = calls
        /\ \A j \in Workers : j # k => worker'[j] = worker[j]
    BY <1>1
  <1>4. Edge(snap[w], n)
    BY <1>1 DEF Edge, RunEdge, Active
  <1>5. \A j \in Workers : \/ NoNewCall(j)
                           \/ worker'[j].wf = w /\ worker'[j].calls >= 1 /\ n.transcript
    BY <1>1, <1>2, <1>3 DEF NoNewCall
  <1>. QED
    BY <1>1, <1>4, <1>5, RowChanges

LEMMA TakeTranscribeFollows ==
  ASSUME IInv, SumInv, NEW k \in Workers, TakeTranscribe(k)
  PROVE  Follows
  <1>. DEFINE w == Head(queue).wf
              p == Planned(snap[w])
              base == Transition(p, "running", "transcribing")
  <1>1. /\ Takes(k) /\ queue' = Tail(queue) /\ w \in rows /\ snap[w].status = "queued"
        /\ UNCHANGED <<rows, born>> /\ BeginCall(k, w, base, "transcribing", 0)
    BY DEF TakeTranscribe, Runnable
  <1>2. snap[w] \in Snapshot
    BY <1>1, TakesLemma, RowLemma DEF IInv
  <1>3. /\ p \in Snapshot /\ p.sequence > snap[w].sequence
        /\ p.attempt = snap[w].attempt /\ p.transcript = snap[w].transcript
    BY <1>2, PreparedLemma
  <1>4. /\ base \in Snapshot /\ base.sequence > p.sequence /\ base.status = "running"
        /\ base.stage = "transcribing"
        /\ base.attempt = p.attempt /\ base.transcript = p.transcript
    BY <1>3, TransitionLemma, CallStageLemma
  <1>. HIDE DEF w, p, base
  <1>5. base.sequence > snap[w].sequence
    BY <1>2, <1>3, <1>4 DEF Snapshot
  <1>. QED
    BY <1>1, <1>3, <1>4, <1>5, CallFollows, CallStageLemma

LEMMA TakeSummarizeFollows ==
  ASSUME IInv, SumInv, NEW k \in Workers, TakeSummarize(k)
  PROVE  Follows
  <1>. DEFINE w == Head(queue).wf
              p == Reused(snap[w])
              base == Transition(p, "running", "summarizing")
  <1>1. /\ Takes(k) /\ queue' = Tail(queue) /\ w \in rows /\ snap[w].status = "queued"
        /\ snap[w].transcript
        /\ UNCHANGED <<rows, born>> /\ BeginCall(k, w, base, "summarizing", 1)
    BY DEF TakeSummarize, Runnable
  <1>2. snap[w] \in Snapshot
    BY <1>1, TakesLemma, RowLemma DEF IInv
  <1>3. /\ p \in Snapshot /\ p.sequence > snap[w].sequence
        /\ p.attempt = snap[w].attempt /\ p.transcript = snap[w].transcript
    BY <1>2, PreparedLemma
  <1>4. /\ base \in Snapshot /\ base.sequence > p.sequence /\ base.status = "running"
        /\ base.stage = "summarizing"
        /\ base.attempt = p.attempt /\ base.transcript = p.transcript
    BY <1>3, TransitionLemma, CallStageLemma
  <1>. HIDE DEF w, p, base
  <1>5. base.sequence > snap[w].sequence
    BY <1>2, <1>3, <1>4 DEF Snapshot
  <1>6. base.transcript
    BY <1>1, <1>3, <1>4
  <1>. QED
    BY <1>1, <1>3, <1>4, <1>5, <1>6, CallFollows, CallStageLemma

LEMMA PublishTranscriptFollows ==
  ASSUME IInv, SumInv, NEW k \in Workers, PublishTranscript(k)
  PROVE  Follows
  <1>. DEFINE w == worker[k].wf
              r == TranscriptReady(snap[w])
              base == Transition(r, "running", "summarizing")
  <1>1. /\ Passes(k, "transcribing") /\ UNCHANGED <<rows, born, queue>>
        /\ BeginCall(k, w, base, "summarizing", 1)
    BY DEF PublishTranscript
  <1>2. w \in rows /\ snap[w] \in Snapshot /\ snap[w].status = "running"
    BY <1>1, PassesLemma, CallStageLemma
  <1>3. /\ r \in Snapshot /\ r.sequence > snap[w].sequence
        /\ r.attempt = snap[w].attempt /\ r.transcript
    BY <1>2, TranscriptReadyLemma
  <1>4. /\ base \in Snapshot /\ base.sequence > r.sequence /\ base.status = "running"
        /\ base.stage = "summarizing"
        /\ base.attempt = r.attempt /\ base.transcript
    BY <1>3, TransitionLemma, CallStageLemma
  <1>. HIDE DEF w, r, base
  <1>5. base.sequence > snap[w].sequence
    BY <1>2, <1>3, <1>4 DEF Snapshot
  <1>. QED
    BY <1>1, <1>2, <1>3, <1>4, <1>5, CallFollows, CallStageLemma DEF Active

\* The next call of a summary: there is none, or it needs no credential, and
\* the row stays as it is whatever it says.
LEMMA NextCallFollows ==
  ASSUME OneCredentialPerSummary, IInv, SumInv, NEW k \in Workers, NextCall(k)
  PROVE  Follows
  <1>. DEFINE w == worker[k].wf
  <1>1. /\ worker[k].pc = "sum" /\ worker[k].calls < MaxCalls
        /\ UNCHANGED <<rows, born, queue>>
    BY DEF NextCall
  <1>2. /\ w \in Workflow /\ worker[k].calls \in Nat /\ worker[k].calls >= 1
        /\ worker \in [Workers -> WorkerState]
        /\ w \in rows => snap[w] \in Snapshot /\ snap[w].transcript
    BY <1>1, BusyLemma DEF Busy, BusyPc, SumInv, SumPc, IInv, TypeOK
  <1>3. SummaryBearer = {}
    BY <1>1, <1>2 DEF OneCredentialPerSummary
  <1>4. w \in rows
    BY <1>3 DEF NextCall
  <1>5. BeginCall(k, w, snap[w], "summarizing", worker[k].calls + 1)
    BY <1>4 DEF NextCall
  <1>6. ~NeedsSecret(w, "summarizing")
    BY <1>3 DEF NeedsSecret
  <1>7. snap' = [snap EXCEPT ![w] = snap[w]]
    BY <1>2, <1>4, <1>5, <1>6, CommitLemma DEF BeginCall, IInv, TypeOK
  <1>8. worker' = [worker EXCEPT ![k] = [pc |-> "sum", wf |-> w, attempt |-> snap[w].attempt,
                                         calls |-> worker[k].calls + 1]]
    BY <1>5, <1>6 DEF BeginCall, CallPc
  <1>9. /\ worker'[k].wf = w /\ worker'[k].calls = worker[k].calls + 1
        /\ \A j \in Workers : j # k => worker'[j] = worker[j]
    BY <1>2, <1>8
  <1>10. worker'[k].calls >= 1
    BY <1>2, <1>9
  <1>. HIDE DEF w
  <1>11. \A j \in Workers : \/ NoNewCall(j)
                            \/ /\ worker'[j].wf = w /\ worker'[j].calls >= 1
                               /\ snap[w].transcript
    BY <1>2, <1>4, <1>9, <1>10 DEF NoNewCall
  <1>. QED
    BY <1>1, <1>4, <1>7, <1>11, RowChanges, SameRow

-----------------------------------------------------------------------------
(* Process steps. *)

\* A row that is active is interrupted, any other is left alone.
LEMMA RecoveredEdge ==
  ASSUME NEW s \in Snapshot
  PROVE  Edge(s, Recovered(s))
  BY InterruptedLemma, SameRow DEF Recovered, Edge, RunEdge, Active, Terminal

LEMMA RecoveredRows ==
  ASSUME IInv, NEW R,
         snap' = [w \in Workflow |-> IF w \in R THEN Recovered(snap[w]) ELSE snap[w]],
         UNCHANGED <<rows, born>>,
         \A k \in Workers : worker'[k] = Idle
  PROVE  Follows
  <1>1. \A w \in rows : w \in Workflow /\ snap[w] \in Snapshot
    BY RowsLemma DEF IInv, TypeOK
  <1>2. \A w \in rows : Edge(snap[w], snap'[w])
    BY <1>1, RecoveredEdge, SameRow
  <1>. QED
    BY <1>2, AllRowsChange

LEMMA GoneFollows ==
  ASSUME IInv, DrainDone \/ Crash \/ ShutdownInterrupt
  PROVE  Follows
  <1>1. ProcessGone /\ UNCHANGED <<rows, born>>
    BY DEF DrainDone, Crash, ShutdownInterrupt, registry
  <1>2. \A k \in Workers : worker'[k] = Idle
    BY <1>1 DEF ProcessGone
  <1>3. CASE DrainDone \/ Crash
    BY <1>1, <1>2, <1>3, AllRowsChange, SameRow DEF DrainDone, Crash, registry
  <1>4. CASE ShutdownInterrupt
    BY <1>1, <1>2, <1>4, RecoveredRows DEF ShutdownInterrupt
  <1>. QED
    BY <1>3, <1>4

LEMMA CrashInRecoveryFollows ==
  ASSUME IInv, CrashInRecovery
  PROVE  Follows
  <1>1. PICK last \in Workflow :
          snap' = [w \in Workflow |-> IF w \in rows /\ w >= last
                                        THEN Recovered(snap[w]) ELSE snap[w]]
    BY DEF CrashInRecovery
  <1>2. mode = "down" /\ UNCHANGED <<rows, born, worker>>
    BY DEF CrashInRecovery, volatile
  <1>3. \A k \in Workers : worker'[k] = Idle
    BY <1>2 DEF IInv, StoppedIsEmpty
  <1>. DEFINE R == {w \in rows : w >= last}
  <1>4. snap' = [w \in Workflow |-> IF w \in R THEN Recovered(snap[w]) ELSE snap[w]]
    BY <1>1
  <1>. HIDE DEF R
  <1>. QED
    BY <1>2, <1>3, <1>4, RecoveredRows

LEMMA StartFollows ==
  ASSUME IInv, Start
  PROVE  Follows
  <1>1. /\ snap' = [w \in Workflow |-> IF w \in rows THEN Recovered(snap[w]) ELSE snap[w]]
        /\ mode = "down" /\ UNCHANGED <<rows, born, worker>>
    BY DEF Start
  <1>2. \A k \in Workers : worker'[k] = Idle
    BY <1>1 DEF IInv, StoppedIsEmpty
  <1>. QED
    BY <1>1, <1>2, RecoveredRows

\* A crash after one commit: the row is the old one or the committed one.
LEMMA CommittedThenGone ==
  ASSUME IInv, NEW w \in rows, NEW n, Commit(w, n), Edge(snap[w], n),
         ProcessGone, UNCHANGED <<rows, born>>
  PROVE  Follows
  <1>1. rows \subseteq Workflow
    BY RowsLemma DEF IInv
  <1>2. snap'[w] \in {n, snap[w]} /\ \A v \in Workflow : v # w => snap'[v] = snap[v]
    BY <1>1 DEF Commit, Saved, IInv, TypeOK
  <1>3. \A v \in rows : Edge(snap[v], snap'[v])
    BY <1>1, <1>2, SameRow
  <1>4. \A k \in Workers : worker'[k] = Idle
    BY DEF ProcessGone
  <1>. QED
    BY <1>3, <1>4, AllRowsChange

LEMMA CrashBetweenCommitsFollows ==
  ASSUME IInv, StageInv, SumInv, NEW k \in Workers, CrashBetweenCommits(k)
  PROVE  Follows
  <1>1. ProcessGone /\ UNCHANGED <<rows, born>>
    BY DEF CrashBetweenCommits
  <1>2. ASSUME Takes(k), Runnable(Head(queue).wf),
               NEW n \in Prepared(snap[Head(queue).wf], Head(queue).from),
               Commit(Head(queue).wf, n)
        PROVE  Follows
    <2>. DEFINE w == Head(queue).wf
    <2>1. w \in rows /\ snap[w].status = "queued" /\ snap[w] \in Snapshot
      BY <1>2, RowsLemma, RowLemma DEF Runnable, IInv
    <2>2. n \in {Started(snap[w]), Planned(snap[w]), Reused(snap[w]), Writing(snap[w])}
      BY <1>2 DEF Prepared
    <2>3. /\ n.status = "running" /\ n.attempt = snap[w].attempt
          /\ n.transcript = snap[w].transcript
      BY <2>1, <2>2, PreparedLemma
    <2>4. Commit(w, n)
      BY <1>2
    <2>. HIDE DEF w
    <2>5. Edge(snap[w], n)
      BY <2>1, <2>3 DEF Edge, RunEdge, Active
    <2>. QED
      BY <1>1, <2>1, <2>4, <2>5, CommittedThenGone
  <1>3. ASSUME NEW stage \in CallStage, Passes(k, stage),
               Commit(worker[k].wf, FirstCommit(snap[worker[k].wf], stage))
        PROVE  Follows
    <2>. DEFINE w == worker[k].wf
                f == FirstCommit(snap[w], stage)
    <2>1. /\ w \in rows /\ snap[w] \in Snapshot
          /\ snap[w].status \in {"running", "waiting_for_secret"} \cup Terminal \cup {"queued"}
      BY <1>3, RowsLemma, RowLemma DEF Passes, IInv, Snapshot, Status, Terminal
    <2>2. snap[w].status = "running"
      <3>1. worker[k].pc \in PcOf(snap[w].status) /\ worker[k].pc \in {"asr", "sum", "asr_gate", "sum_gate"}
        BY <1>3, <2>1, GateLemma DEF Passes, IInv, StatusMatchesExecution
      <3>2. snap[w].status # "cancelled"
        BY <1>3 DEF Passes
      <3>. HIDE DEF w
      <3>. QED
        BY <2>1, <3>1, <3>2, PcOfLemma DEF Terminal
    <2>3. /\ f.status = snap[w].status /\ f.attempt = snap[w].attempt
          /\ snap[w].transcript => f.transcript
      BY <2>1, FirstCommitRow
    <2>4. Commit(w, f)
      BY <1>3
    <2>. HIDE DEF w, f
    <2>5. Edge(snap[w], f)
      BY <2>2, <2>3 DEF Edge, RunEdge, Active
    <2>. QED
      BY <1>1, <2>1, <2>4, <2>5, CommittedThenGone
  <1>. QED
    BY <1>2, <1>3 DEF CrashBetweenCommits

-----------------------------------------------------------------------------
(* The theorems. *)

LEMMA RequestStepFollows ==
  ASSUME IInv, SumInv, NEW w \in Workflow, RequestStep(w)
  PROVE  Follows
  BY ResummarizeFollows, PauseFollows, ResumeFollows, CancelFollows, RetryFollows,
     ReviseTranscriptFollows, ReviseFinalFollows, ClearFollows DEF RequestStep

LEMMA WorkerStepFollows ==
  ASSUME IInv, SumInv, NEW k \in Workers, WorkerStep(k),
         NextCall(k) => OneCredentialPerSummary
  PROVE  Follows
  <1>1. CASE TakeStep(k)
    BY <1>1, TakeSkippedFollows, TakeTranscribeFollows, TakeSummarizeFollows,
       TakeWriteFinalFollows, TakeFailsFollows DEF TakeStep
  <1>2. CASE NextCall(k)
    BY <1>2, NextCallFollows
  <1>3. CASE GateStep(k)
    BY <1>3, GateAbandonsFollows, GateCancelsFollows, GatePausesFollows,
       PublishFailsFollows, PublishTranscriptFollows, PublishSummaryFollows DEF GateStep
  <1>4. CASE ErrorStep(k)
    BY <1>4, ErrorStepFollows
  <1>. QED
    BY <1>1, <1>2, <1>3, <1>4 DEF WorkerStep

SomeNextCall == \E k \in Workers : NextCall(k)

\* Every step moves each row along an edge, but for the credential wait
\* before a further call of a summary.
LEMMA StepFollows ==
  ASSUME IInv, StageInv, SumInv, [Next]_vars,
         SomeNextCall => OneCredentialPerSummary
  PROVE  Follows
  <1>1. CASE Submit
    BY <1>1, SubmitFollows
  <1>2. CASE \E w \in Workflow : RequestStep(w)
    BY <1>2, RequestStepFollows
  <1>3. ASSUME NEW k \in Workers, WorkerStep(k) \/ Grant(k) \/ Reject(k) \/ Heartbeat(k)
        PROVE  Follows
    BY <1>3, WorkerStepFollows, GrantFollows, RejectFollows, HeartbeatFollows
    DEF SomeNextCall
  <1>4. CASE \E k \in Workers : CrashBetweenCommits(k)
    BY <1>4, CrashBetweenCommitsFollows
  <1>5. CASE ProcessStep
    <2>1. CASE ShutdownDrain
      BY <2>1, RowsKept DEF ShutdownDrain, volatile, NoNewCall
    <2>. QED
      BY <1>5, <2>1, StartFollows, GoneFollows, CrashInRecoveryFollows DEF ProcessStep
  <1>6. CASE UNCHANGED vars
    BY <1>6, RowsKept DEF vars, registry, NoNewCall
  <1>. QED
    BY <1>1, <1>2, <1>3, <1>4, <1>5, <1>6 DEF Next

\* A further call of a summary is one of a workflow that owns a transcript,
\* with or without a credential.
LEMMA NextCallSums ==
  ASSUME IInv, StageInv, SumInv, NEW k \in Workers, NextCall(k)
  PROVE  SumInv'
  <1>. DEFINE w == worker[k].wf
  <1>1. worker[k].pc = "sum" /\ UNCHANGED <<rows, queue>>
    BY DEF NextCall
  <1>2. /\ w \in Workflow /\ worker[k].calls \in Nat
        /\ worker \in [Workers -> WorkerState] /\ rows \subseteq Workflow
        /\ w \in rows => snap[w] \in Snapshot /\ snap[w].transcript
    BY <1>1, BusyLemma, RowsLemma DEF Busy, BusyPc, SumInv, SumPc, IInv, TypeOK
  <1>3. CASE w \in rows
    <2>1. snap[w].stage = "summarizing"
      BY <1>1, <1>3 DEF StageInv, Fits, SumPc
    <2>2. BeginCall(k, w, snap[w], "summarizing", worker[k].calls + 1)
      BY <1>3 DEF NextCall
    <2>3. PICK n \in Snapshot, pc \in {CallPc["summarizing"], SecretPc["summarizing"]} :
            /\ snap' = [snap EXCEPT ![w] = n]
            /\ n.transcript = snap[w].transcript
            /\ worker' = [worker EXCEPT ![k] =
                            [pc |-> pc, wf |-> w, attempt |-> snap[w].attempt,
                             calls |-> worker[k].calls + 1]]
      <3>. HIDE DEF w
      <3>. QED
        BY <1>2, <1>3, <2>1, <2>2, CallRow, CallStageLemma DEF IInv, TypeOK
    <2>4. /\ worker'[k].wf = w /\ worker'[k].calls = worker[k].calls + 1
          /\ \A j \in Workers : j # k => worker'[j] = worker[j]
      BY <1>2, <2>3
    <2>5. worker'[k].calls >= 1
      BY <1>2, <2>4
    <2>6. snap'[w].transcript /\ \A v \in Workflow : v # w => snap'[v] = snap[v]
      BY <1>2, <1>3, <2>3 DEF IInv, TypeOK
    <2>. HIDE DEF w
    <2>. QED
      BY <1>1, <1>2, <2>4, <2>5, <2>6 DEF SumInv
  <1>4. CASE w \notin rows
    BY <1>1, <1>4, LeaverCalls DEF NextCall, Release, SumInv, NoNewCall
  <1>. QED
    BY <1>3, <1>4

LEMMA StepKeepsSums ==
  ASSUME IInv, StageInv, SumInv, [Next]_vars
  PROVE  SumInv'
  BY StepFollows, NextCallSums DEF Follows, SomeNextCall

LEMMA InitSums == Init => SumInv
  BY DEF Init, SumInv, Idle, SumPc

\* Before the first submit no workflow has a status.
LEMMA InitLifecycle == Init => Lifecycle!Init
  <1>1. \A w \in Workflow : ~(w <= 0)
    BY SupervisorAssumption DEF Workflow
  <1>. QED
    BY <1>1, ZenonT(30) DEF Init, Lifecycle!Init

\* A worker that talks to a provider does so for a workflow that owns a
\* transcript, so that what it publishes completes one.
THEOREM SummariesHaveTranscripts == SafetySpec => [](IInv /\ StageInv /\ SumInv)
  <1>1. Init => IInv /\ StageInv /\ SumInv
    BY InitInv, InitStages, InitSums
  <1>2. IInv /\ StageInv /\ SumInv /\ [Next]_vars => (IInv /\ StageInv /\ SumInv)'
    BY StepKeepsInvariant, StepKept, StepKeepsSums DEF Kept
  <1>. QED
    BY <1>1, <1>2, PTL DEF SafetySpec

\* Whatever the summaries need, the only step that may leave the lifecycle is
\* the next call of one.
THEOREM OnlyNextCallDeviates == SafetySpec => [][Lifecycle!Next \/ SomeNextCall]_vars
  <1>1. IInv /\ StageInv /\ SumInv /\ [Next]_vars => Lifecycle!Next \/ SomeNextCall
    BY StepFollows, LifecycleStep DEF Follows
  <1>. QED
    BY <1>1, SummariesHaveTranscripts, PTL DEF SafetySpec

\* The statuses, attempts and transcripts of the rows move as the lifecycle
\* says, through every interleaving of requests, workers, crashes and restarts.
THEOREM SupervisorImplementsLifecycle ==
  ASSUME OneCredentialPerSummary
  PROVE  SafetySpec => ImplementsLifecycle
  <1>1. IInv /\ StageInv /\ SumInv /\ [Next]_vars => Lifecycle!Next
    BY StepFollows, LifecycleStep DEF Follows
  <1>. QED
    BY <1>1, InitLifecycle, SummariesHaveTranscripts, PTL
    DEF SafetySpec, ImplementsLifecycle, Lifecycle!Spec

\* Under the same hypothesis cancelled is final: no request, answer or step of
\* a worker that is still inside a call takes it back.
THEOREM CancelledStays ==
  ASSUME OneCredentialPerSummary
  PROVE  SafetySpec => CancelledIsFinal
  <1>1. ASSUME IInv, StageInv, SumInv, [Next]_vars
        PROVE  \A w \in rows \cap rows' :
                 snap[w].status = "cancelled" => snap'[w].status = "cancelled"
    <2>. SUFFICES ASSUME NEW w \in rows \cap rows', snap[w].status = "cancelled"
                  PROVE  snap'[w].status = "cancelled"
      OBVIOUS
    <2>1. w \in Workflow
      BY <1>1, RowsLemma DEF IInv
    <2>2. Edge(snap[w], snap'[w])
      BY <1>1, <2>1, StepFollows DEF Follows, RowFollows
    <2>. QED
      BY <2>2 DEF Edge, RunEdge, RetryEdge, SameEdge, Active, Retryable
  <1>. QED
    BY <1>1, SummariesHaveTranscripts, PTL DEF SafetySpec, CancelledIsFinal
=============================================================================
