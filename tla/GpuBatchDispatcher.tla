------------------------ MODULE GpuBatchDispatcher ------------------------
(***************************************************************************)
(* runtime/gpu_batch_scheduler.py: the thread that owns the one CUDA model *)
(* and packs the segments of concurrent transcriptions into micro-batches, *)
(* with cancellation, close and a model that fails to load.                *)
(*                                                                         *)
(* Every section under the dispatcher's condition variable is one action.  *)
(* The native call runs outside the lock, between TakeBatch and the action *)
(* that ends it.  The coalesce window only decides when TakeBatch happens, *)
(* and the delivery threads only delay a caller that has its outcome, so   *)
(* neither has state here.                                                 *)
(***************************************************************************)
EXTENDS Integers, Sequences, FiniteSets, SequencesExt

CONSTANTS
  Workflow,       \* workflows that transcribe on the GPU
  Attempts,       \* Attempts[w]: how many attempts of w there are
  Segments,       \* segments of one recording are numbered 1 .. Segments
  Duration,       \* Duration[w][i]: length of segment i of the recording of w
  ChunkSize,      \* segments a caller submits before it waits (ASR_SEGMENT_BATCH_SIZE)
  TargetBatch,    \* target_batch_size
  MaxActive,      \* max_active_workflows
  Bucket,         \* length_bucket_ms
  MaxTotal,       \* max_total_audio_ms
  MaxProduct,     \* max_duration_times_count_ms
  MaxTombstones   \* _max_cancelled_tombstones

Segment == 1 .. Segments

ASSUME DispatcherAssumption ==
  /\ {Segments, ChunkSize, TargetBatch, MaxActive, Bucket, MaxTotal, MaxProduct,
      MaxTombstones} \subseteq Nat \ {0}
  /\ IsFiniteSet(Workflow)
  /\ Attempts \in [Workflow -> Nat]
  /\ Duration \in [Workflow -> [Segment -> Nat]]

\* _attempt_queues is keyed by (workflow, attempt), a future by its item.
AttemptOf(w) == 1 .. Attempts[w]
Key == UNION {{w} \X AttemptOf(w) : w \in Workflow}

ItemOf(key, seg) == [wf |-> key[1], attempt |-> key[2], seg |-> seg]
KeyOf(i) == <<i.wf, i.attempt>>
Item == {ItemOf(key, seg) : key \in Key, seg \in Segment}
Length(i) == Duration[i.wf][i.seg]

VARIABLES
  queues,      \* _attempt_queues; an absent queue is the empty one
  rotation,    \* _workflow_attempts: the attempts of a workflow with a queue
  order,       \* _workflow_order: the round-robin order of the workflows
  inflight,    \* _inflight, in batch order
  futures,     \* _futures (and _items and _seen, which hold the same items)
  tombstones,  \* _cancelled_tombstone_order; _cancelled_attempts is its set
  marked,      \* _cancelled_identities
  thread,      \* "waiting", "processing", "exiting" or "closed"
  closing,     \* _closing
  loaded,      \* _model_loaded
  seen,        \* what the caller of an item knows: "idle" before it submits and
               \* after an answer, "pending", "cancelled" or "discarded"
  doomed       \* history: pending items whose attempt was cancelled since, or
               \* whose dispatcher was closed

lists == <<queues, rotation, order>>
vars == <<queues, rotation, order, inflight, futures, tombstones, marked, thread,
          closing, loaded, seen, doomed>>

Queued == {i \in Item : Contains(queues[KeyOf(i)], i.seg)}
Inflight == ToSet(inflight)

-----------------------------------------------------------------------------
\* _prepare_completion_locked and _deliver for the items that outcome maps,
\* of which those in newly are doomed from now on.
Resolve(outcome, newly) ==
  /\ futures' = futures \ DOMAIN outcome
  /\ seen' = [i \in Item |-> IF i \in DOMAIN outcome \cap futures THEN outcome[i] ELSE seen[i]]
  /\ doomed' = (doomed \cup newly) \ DOMAIN outcome

ItemsOf(key) == {ItemOf(key, queues[key][n]) : n \in DOMAIN queues[key]}

\* Mutated form: the oldest tombstone is never dropped.
RememberForever(key) ==
  IF Contains(tombstones, key) THEN tombstones ELSE Append(tombstones, key)

\* _remember_cancelled_locked.
Remember(key) ==
  IF Contains(tombstones, key) THEN tombstones
  ELSE LET longer == Append(tombstones, key) IN
         IF Len(longer) > MaxTombstones THEN Tail(longer) ELSE longer

\* The elements of s that are kept, in their order: what deque.remove of all
\* others leaves.  (A recursive function, because nothing can be proved about
\* an operator that takes an operator, such as SelectSeq.)
Only(s, kept) ==
  LET only[n \in 0 .. Len(s)] ==
        IF n = 0 THEN <<>>
        ELSE IF s[n] \in kept THEN Append(only[n - 1], s[n]) ELSE only[n - 1]
  IN  only[Len(s)]

\* _prune_workflows_locked, of an order and the rotations that are left.
Pruned(s, left) == Only(s, {w \in Workflow : left[w] # <<>>})

\* _remove_attempt_from_workflow_locked, then _prune_workflows_locked.
DropAttempts(keys) ==
  /\ rotation' = [w \in Workflow |-> Only(rotation[w], {a \in AttemptOf(w) : <<w, a>> \notin keys})]
  /\ order' = Pruned(order, rotation')

-----------------------------------------------------------------------------
(* Callers.  job_runner submits one chunk of an attempt, waits for every   *)
(* future of it, and goes on unless an outcome says cancelled or discarded.*)

Consecutive(lo, hi) == [n \in 1 .. hi - lo + 1 |-> lo + n - 1]
Chunks == {Consecutive(c[1], c[2]) :
             c \in {b \in Segment \X Segment : b[2] - b[1] \in 0 .. ChunkSize - 1}}

MaySubmit(key) ==
  /\ ~closing
  /\ \A seg \in Segment : seen[ItemOf(key, seg)] = "idle"

Await(key, chunk, state) ==
  seen' = [i \in Item |-> IF KeyOf(i) = key /\ Contains(chunk, i.seg) THEN state ELSE seen[i]]

\* submit_attempt.
Submit(key, chunk) ==
  /\ MaySubmit(key)
  /\ ~Contains(tombstones, key)
  /\ queues' = [queues EXCEPT ![key] = @ \o chunk]
  /\ rotation' = [rotation EXCEPT ![key[1]] = IF queues[key] = <<>> THEN Append(@, key[2]) ELSE @]
  /\ order' = IF Contains(order, key[1]) THEN order ELSE Append(order, key[1])
  /\ futures' = futures \cup {ItemOf(key, seg) : seg \in ToSet(chunk)}
  /\ Await(key, chunk, "pending")
  /\ UNCHANGED <<inflight, tombstones, marked, thread, closing, loaded, doomed>>

\* submit_attempt of an attempt that is remembered as cancelled.
SubmitCancelled(key, chunk) ==
  /\ MaySubmit(key)
  /\ Contains(tombstones, key)
  /\ Await(key, chunk, "cancelled")
  /\ UNCHANGED <<lists, inflight, futures, tombstones, marked, thread, closing, loaded, doomed>>

\* Mutated form: items in flight are left to the tombstone of their attempt.
CancelQueuedOnly(key) ==
  /\ tombstones' = Remember(key)
  /\ Resolve([i \in ItemsOf(key) |-> "cancelled"],
             {i \in futures : KeyOf(i) = key})
  /\ queues' = [queues EXCEPT ![key] = <<>>]
  /\ DropAttempts({key})
  /\ UNCHANGED <<inflight, marked, thread, closing, loaded>>

\* cancel: queued items are resolved, items in flight are marked.
Cancel(key) ==
  /\ tombstones' = Remember(key)
  /\ Resolve([i \in ItemsOf(key) |-> "cancelled"],
             {i \in futures : KeyOf(i) = key})
  /\ queues' = [queues EXCEPT ![key] = <<>>]
  /\ DropAttempts({key})
  /\ marked' = marked \cup {i \in Inflight : KeyOf(i) = key}
  /\ UNCHANGED <<inflight, thread, closing, loaded>>

\* Keys that are remembered together, in the order of their queues, which is
\* not kept here: any order.
RememberAll(keys) ==
  {LET all == tombstones \o s IN
     IF Len(all) > MaxTombstones
       THEN SubSeq(all, Len(all) - MaxTombstones + 1, Len(all)) ELSE all : s \in SetToSeqs(keys)}

Waiting == {key \in Key : queues[key] # <<>>}
NoQueues == [key \in Key |-> <<>>]

\* Mutated form: the queues are emptied but not deleted from the table.
CloseKeepingQueues ==
  /\ ~closing
  /\ closing' = TRUE
  /\ tombstones' \in RememberAll(Waiting)
  /\ Resolve([i \in Queued |-> "discarded"], futures)
  /\ DropAttempts(Waiting)
  /\ UNCHANGED <<queues, inflight, marked, thread, loaded>>

\* The locked section of close; the caller then joins the thread.
Close ==
  /\ ~closing
  /\ closing' = TRUE
  /\ tombstones' \in RememberAll(Waiting)
  /\ Resolve([i \in Queued |-> "discarded"], futures)
  /\ queues' = NoQueues
  /\ DropAttempts(Waiting)
  /\ UNCHANGED <<inflight, marked, thread, loaded>>

-----------------------------------------------------------------------------
(* Planning: _plan_locked and _take_locked, in one critical section.       *)

\* The first attempt of a workflow with a queue, and the item at its head.
Seed == LET w == order[1]  a == rotation[w][1] IN ItemOf(<<w, a>>, queues[<<w, a>>][1])

OverBudget(i) == Length(i) > MaxTotal \/ Length(i) > MaxProduct

SumOf(batch) ==
  LET sum[n \in 0 .. Len(batch)] == IF n = 0 THEN 0 ELSE sum[n - 1] + Length(batch[n])
  IN  sum[Len(batch)]

LongestOf(batch) == CHOOSE d \in {Length(batch[n]) : n \in DOMAIN batch} :
                      \A n \in DOMAIN batch : Length(batch[n]) <= d

\* _fits, of the batch with the new item.
Fits(batch) ==
  /\ Len(batch) <= TargetBatch
  /\ SumOf(batch) <= MaxTotal
  /\ LongestOf(batch) * Len(batch) <= MaxProduct

SameBucket(i, j) == Length(i) \div Bucket = Length(j) \div Bucket

\* The item of an attempt after those that are already in the batch.
Offset(batch, key) == Cardinality({n \in DOMAIN batch : KeyOf(batch[n]) = key})
Candidate(batch, key) == ItemOf(key, queues[key][Offset(batch, key) + 1])
MayAdd(batch, key) ==
  /\ Offset(batch, key) < Len(queues[key])
  /\ SameBucket(Candidate(batch, key), Seed)
  /\ Fits(Append(batch, Candidate(batch, key)))

\* One workflow's turn in a round adds the item of its first attempt that may.
AddFrom(batch, w) ==
  LET may == Only(rotation[w], {a \in AttemptOf(w) : MayAdd(batch, <<w, a>>)}) IN
  IF may = <<>> THEN batch ELSE Append(batch, Candidate(batch, <<w, may[1]>>))

Eligible == SubSeq(order, 1, IF Len(order) < MaxActive THEN Len(order) ELSE MaxActive)

\* Rounds over the eligible workflows until the batch is full or a round adds
\* nothing; further rounds then add nothing either.  ("one" is bound so that TLC
\* evaluates it once.)
Turns == TargetBatch * Len(Eligible)
TurnOf(n) == Eligible[((n - 1) % Len(Eligible)) + 1]
RoundRobin ==
  LET batch[n \in 0 .. Turns] ==
        IF n = 0 THEN <<>>
        ELSE CHOOSE more \in {AddFrom(one, TurnOf(n)) : one \in {batch[n - 1]}} : TRUE
  IN  batch[Turns]

Plan == IF OverBudget(Seed) THEN <<Seed>> ELSE RoundRobin

Rotated(s) == IF s = <<>> THEN s ELSE Append(Tail(s), Head(s))

Served(batch, w) == {a \in AttemptOf(w) : \E n \in DOMAIN batch : KeyOf(batch[n]) = <<w, a>>}

\* Mutated form: an attempt whose queue is not exhausted is not put back.
TakeDroppingAttempt(batch) ==
  /\ queues' = [key \in Key |-> SubSeq(queues[key], Offset(batch, key) + 1, Len(queues[key]))]
  /\ rotation' = [w \in Workflow |-> Only(rotation[w], AttemptOf(w) \ Served(batch, w))]
  /\ order' = Rotated(Pruned(order, rotation'))

\* _take_locked: what is planned is the front of each queue.  An attempt that
\* was served goes behind the other attempts of its workflow or, with its
\* queue exhausted, leaves; then the order of the workflows is rotated.
Take(batch) ==
  /\ queues' = [key \in Key |-> SubSeq(queues[key], Offset(batch, key) + 1, Len(queues[key]))]
  /\ rotation' = [w \in Workflow |->
                    Only(rotation[w], AttemptOf(w) \ Served(batch, w))
                      \o Only(rotation[w], {a \in Served(batch, w) : queues'[<<w, a>>] # <<>>})]
  /\ order' = Rotated(Pruned(order, rotation'))

TakeBatch ==
  /\ thread = "waiting"
  /\ order # <<>>
  /\ \E batch \in {Plan} : Take(batch) /\ inflight' = batch
  /\ thread' = "processing"
  /\ UNCHANGED <<futures, tombstones, marked, closing, loaded, seen, doomed>>

-----------------------------------------------------------------------------
(* The native call: _ensure_model and _process.                            *)

\* Mutated form: a tombstone counts for every attempt of its workflow.
DiscardedByWorkflow(i) ==
  (\E a \in AttemptOf(i.wf) : Contains(tombstones, <<i.wf, a>>)) \/ i \in marked \/ closing

Discarded(i) == Contains(tombstones, KeyOf(i)) \/ i \in marked \/ closing

\* _finish: the caller may go on when it gets a result, and also when its
\* item alone failed, which transcribe_with_isolation reports as an error.
Finish ==
  /\ thread = "processing"
  /\ Resolve([i \in Inflight |-> IF Discarded(i) THEN "cancelled" ELSE "idle"], {})
  /\ marked' = marked \ Inflight
  /\ inflight' = <<>>
  /\ loaded' = TRUE
  /\ thread' = "waiting"
  /\ UNCHANGED <<lists, tombstones, closing>>

\* Mutated form: only the failed batch is resolved, not what is queued.
TerminateBatchOnly ==
  /\ thread = "processing"
  /\ ~loaded
  /\ closing' = TRUE
  /\ Resolve([i \in Inflight |-> "discarded"], {})
  /\ marked' = marked \ Inflight
  /\ inflight' = <<>>
  /\ queues' = NoQueues
  /\ DropAttempts(Waiting)
  /\ thread' = "exiting"
  /\ UNCHANGED <<tombstones, loaded>>

\* _terminate_with_failure: the model does not load, and the thread ends.
Terminate ==
  /\ thread = "processing"
  /\ ~loaded
  /\ closing' = TRUE
  /\ Resolve([i \in Queued \cup Inflight |->
                IF i \in Inflight /\ Contains(tombstones, KeyOf(i)) THEN "cancelled" ELSE "discarded"], {})
  /\ marked' = marked \ Inflight
  /\ inflight' = <<>>
  /\ queues' = NoQueues
  /\ DropAttempts(Waiting)
  /\ thread' = "exiting"
  /\ UNCHANGED <<tombstones, loaded>>

\* _wait_plan_locked returns nothing: the loop of the thread ends.
Exit ==
  /\ thread = "waiting"
  /\ closing
  /\ Waiting = {}
  /\ thread' = "exiting"
  /\ UNCHANGED <<lists, inflight, futures, tombstones, marked, closing, loaded, seen, doomed>>

\* The end of _run: the model is closed and every collection cleared.
Closed ==
  /\ thread = "exiting"
  /\ thread' = "closed"
  /\ queues' = NoQueues
  /\ rotation' = [w \in Workflow |-> <<>>]
  /\ order' = <<>>
  /\ inflight' = <<>>
  /\ futures' = {}
  /\ tombstones' = <<>>
  /\ marked' = {}
  /\ UNCHANGED <<closing, loaded, seen, doomed>>

-----------------------------------------------------------------------------
Init ==
  /\ queues = NoQueues
  /\ rotation = [w \in Workflow |-> <<>>]
  /\ order = <<>>
  /\ inflight = <<>>
  /\ futures = {}
  /\ tombstones = <<>>
  /\ marked = {}
  /\ thread = "waiting"
  /\ closing = FALSE
  /\ loaded = FALSE
  /\ seen = [i \in Item |-> "idle"]
  /\ doomed = {}

SomeSubmit ==
  \E key \in Key, chunk \in Chunks : Submit(key, chunk) \/ SubmitCancelled(key, chunk)

ThreadStep ==
  \/ TakeBatch
  \/ Finish
  \/ Terminate
  \/ Exit
  \/ Closed

Next ==
  \/ SomeSubmit
  \/ \E key \in Key : Cancel(key)
  \/ Close
  \/ ThreadStep

SafetySpec == Init /\ [][Next]_vars

\* The thread runs, and a native call returns.  Callers owe nothing.
Spec == SafetySpec /\ WF_vars(ThreadStep)

-----------------------------------------------------------------------------
(* Properties. *)

Known == {"idle", "pending", "cancelled", "discarded"}

\* The variables hold values of their types.
TypeOK ==
  /\ queues \in [Key -> Seq(Segment)]
  /\ rotation \in [Workflow -> Seq(Nat)] /\ \A w \in Workflow : rotation[w] \in Seq(AttemptOf(w))
  /\ order \in Seq(Workflow)
  /\ inflight \in Seq(Item)
  /\ futures \subseteq Item
  /\ tombstones \in Seq(Key) /\ Len(tombstones) <= MaxTombstones
  /\ marked \subseteq Item
  /\ thread \in {"waiting", "processing", "exiting", "closed"}
  /\ closing \in BOOLEAN /\ loaded \in BOOLEAN
  /\ seen \in [Item -> Known]
  /\ doomed \subseteq Item

NoDuplicates(s) == \A m, n \in DOMAIN s : s[m] = s[n] => m = n

\* Every caller that waits for an item waits for something: the item is in
\* one queue or in the running batch, exactly once, and nothing else is; so
\* no future is resolved twice or forgotten, whatever races the batch.
FuturesAccounted ==
  /\ futures = {i \in Item : seen[i] = "pending"}
  /\ futures = Queued \cup Inflight
  /\ Queued \cap Inflight = {}
  /\ NoDuplicates(inflight) /\ \A key \in Key : NoDuplicates(queues[key])

\* The planner finds all queued work: an attempt with a queue is in the
\* rotation of its workflow once, the workflow is in the order once, and
\* neither holds anything else.  An attempt remembered as cancelled has no
\* queue, and only items of the running batch are marked.
RotationFindsWork ==
  /\ NoDuplicates(order) /\ \A w \in Workflow : NoDuplicates(rotation[w])
  /\ \A w \in Workflow : Contains(order, w) <=> rotation[w] # <<>>
  /\ \A key \in Key : Contains(rotation[key[1]], key[2]) <=> queues[key] # <<>>
  /\ \A key \in Waiting : ~Contains(tombstones, key)
  /\ marked \subseteq Inflight

\* A caller whose attempt was cancelled, or whose dispatcher was closed, while
\* an item was pending never gets a result for it, even when the batch was
\* already running and the tombstone of the attempt has been dropped since.
NoResultAfterCancel == [][\A i \in doomed : seen'[i] # "idle"]_vars

KeepsLimits(b) ==
  /\ Len(b) <= TargetBatch
  /\ Len(b) > 1 =>
       /\ SumOf(b) <= MaxTotal
       /\ LongestOf(b) * Len(b) <= MaxProduct
       /\ \A m, n \in DOMAIN b : SameBucket(b[m], b[n])
  /\ Cardinality({i.wf : i \in ToSet(b)}) <= MaxActive

\* A running batch keeps to the size and audio budgets and to one length
\* bucket, and comes from at most MaxActive workflows.  A segment over the
\* budgets runs alone.
BatchWithinLimits == KeepsLimits(inflight)

\* The batches that may run: without repetition, and within the limits.
MayRun == {ToSet(b) : b \in {s \in BoundedSeq(Item, TargetBatch) : NoDuplicates(s) /\ KeepsLimits(s)}}

Service == INSTANCE BatchService WITH
  Caller <- Key, Request <- Item, Batch <- MayRun,
  CallerOf <- [i \in Item |-> KeyOf(i)], Place <- [i \in Item |-> i.seg],
  answer <- seen, running <- Inflight, closed <- closing, proven <- loaded

\* The dispatcher keeps the promise of BatchService: its queues, rotations,
\* bounded tombstones and marks amount to exactly this.  A running request is
\* denied its result if and only if it was cancelled or closed since it was
\* submitted, the segments of an attempt are served in order, a batch keeps to
\* the limits and does not start after a close, and a model that does not load leaves no caller waiting.
ImplementsBatchService == Service!Spec

\* A close ends the thread, also when the model does not load or a batch runs.
CloseEnds == closing ~> (thread = "closed")

Pending(i) == seen[i] = "pending"

\* A caller waits for ever only while the thread goes on running the batches
\* of others: no order of submissions, cancels and batches loses its turn.
StarvedOnlyByOthers ==
  \A i \in Item : <>[]Pending(i) => []<>(thread = "waiting") /\ []<>(thread = "processing")

\* "Fair micro-batch dispatcher": no caller waits for ever.
NoStarvation == \A i \in Item : Pending(i) ~> ~Pending(i)
=============================================================================
