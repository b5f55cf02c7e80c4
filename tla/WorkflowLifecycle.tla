------------------------- MODULE WorkflowLifecycle -------------------------
(***************************************************************************)
(* What the worker promises about the status of a workflow, to a client    *)
(* that lists rows and follows events: the edges of the status diagram in  *)
(* docs/worker-contract-v2.md section 7, read off the code.  One step may  *)
(* move several workflows (a restart interrupts all active ones) and may   *)
(* contain several commits of the same workflow when the worker does not   *)
(* suspend between them, so an edge may skip intermediate statuses.        *)
(***************************************************************************)
EXTENDS Naturals

CONSTANT Workflow

VARIABLES
  state,      \* the status, or "absent" before and "cleared" after the row
  attempt,    \* the number of the current attempt, 0 without a row
  transcript  \* whether the workflow owns a transcript

\* The statuses an execution may show, and may move between freely.
Executing == {"running", "paused", "waiting_for_secret"}

Ended == {"completed", "failed", "cancelled", "interrupted"}

\* cancelled is not here: it is the one end a user cannot take back.
Restartable == {"completed", "failed", "interrupted"}

Init ==
  /\ state = [w \in Workflow |-> "absent"]
  /\ attempt = [w \in Workflow |-> 0]
  /\ transcript = [w \in Workflow |-> FALSE]

Becomes(w, from, to) == state[w] \in from /\ state'[w] \in to

KeepsAttempt(w) == attempt'[w] = attempt[w]

\* A transcript is gained by execution only and is never lost.
KeepsTranscript(w) == transcript'[w] = transcript[w]
MayGainTranscript(w) == transcript[w] => transcript'[w]

\* Submitted, or resummarized with a copied transcript.
Appears(w) == Becomes(w, {"absent"}, {"queued"}) /\ attempt'[w] = 1

\* A run starts, goes on and ends.  A run that completes owns a transcript.
Advances(w) ==
  /\ Becomes(w, {"queued"} \cup Executing, Executing \cup Ended)
  /\ state[w] = "queued" => state'[w] \notin {"paused", "interrupted"}
  /\ state'[w] = "completed" => state[w] \in {"queued", "running"} /\ transcript'[w]
  /\ KeepsAttempt(w)
  /\ MayGainTranscript(w)

\* A retry is the only way back into the queue, and always a new attempt.
Restarts(w) ==
  /\ Becomes(w, Restartable, {"queued"})
  /\ attempt'[w] = attempt[w] + 1
  /\ KeepsTranscript(w)

\* Only an ended workflow is cleared, and its id is not used again.
Disappears(w) == Becomes(w, Ended, {"cleared"}) /\ attempt'[w] = 0

Stays(w) == state'[w] = state[w] /\ KeepsAttempt(w) /\ KeepsTranscript(w)

Next ==
  \A w \in Workflow :
    Appears(w) \/ Advances(w) \/ Restarts(w) \/ Disappears(w) \/ Stays(w)

Spec == Init /\ [][Next]_<<state, attempt, transcript>>
=============================================================================
