---------------------------- MODULE BatchService ----------------------------
(***************************************************************************)
(* What the GPU dispatcher promises to its callers, without queues,        *)
(* rotations, tombstones or a thread: one batch runs at a time, a caller's *)
(* requests run in their order, and a request gets its result unless its   *)
(* caller was cancelled, or the service closed, while it waited.           *)
(***************************************************************************)
EXTENDS Naturals

CONSTANTS
  Caller,    \* who asks
  Request,   \* what is asked
  CallerOf,  \* CallerOf[r]: who asks for r
  Place,     \* Place[r]: the place of r in the order of its caller
  Batch      \* the sets of requests that may run together

VARIABLES
  answer,    \* what the caller of a request knows: "idle" before it asks and after
             \* an answer it may go on with, "pending", "cancelled" or "discarded"
  running,   \* the requests of the batch that runs
  doomed,    \* running requests that were cancelled, or closed, since they began
  closed,    \* nothing is accepted any more
  proven     \* a batch has been answered, so the model does load

vars == <<answer, running, doomed, closed, proven>>

Pending == {r \in Request : answer[r] = "pending"}
Of(c) == {r \in Request : CallerOf[r] = c}

\* The requests of R get the answer a, and no other does.
Tell(R, a) == answer' = [r \in Request |-> IF r \in R THEN a ELSE answer[r]]

Init ==
  /\ answer = [r \in Request |-> "idle"]
  /\ running = {}
  /\ doomed = {}
  /\ closed = FALSE
  /\ proven = FALSE

\* A caller asks for some of its requests when it waits for none.  It may be
\* turned away instead: which cancelled callers are remembered is not promised.
Ask(c, R, reply) ==
  /\ ~closed
  /\ R # {}
  /\ \A r \in Of(c) : answer[r] = "idle"
  /\ Tell(R, reply)
  /\ UNCHANGED <<running, doomed, closed, proven>>

\* A batch begins: it passes over no earlier request of a caller it serves.
Start ==
  /\ running = {}
  /\ ~closed
  /\ running' \in Batch
  /\ running' # {} /\ running' \subseteq Pending
  /\ \A r \in running', q \in Pending :
       CallerOf[q] = CallerOf[r] /\ Place[q] < Place[r] => q \in running'
  /\ UNCHANGED <<answer, doomed, closed, proven>>

\* The requests of R are given up.  Those that do not run are told so at once.
GiveUp(R, reply) ==
  /\ Tell(R \ running, reply)
  /\ doomed' = doomed \cup (R \cap running)
  /\ UNCHANGED <<running, proven>>

Cancel(c) == GiveUp(Pending \cap Of(c), "cancelled") /\ UNCHANGED closed

Close == ~closed /\ GiveUp(Pending, "discarded") /\ closed' = TRUE

\* The batch ends: whoever was not given up gets a result, nobody else does.
Serve ==
  /\ running # {}
  /\ answer' = [r \in Request |->
                  IF r \notin running THEN answer[r] ELSE IF r \in doomed THEN "cancelled" ELSE "idle"]
  /\ running' = {} /\ doomed' = {}
  /\ proven' = TRUE
  /\ UNCHANGED closed

\* The model does not load, which can only be before the first answer.  Nobody
\* who waits is forgotten.
Fail ==
  /\ running # {}
  /\ ~proven
  /\ \E blamed \in SUBSET doomed :
       answer' = [r \in Request |-> IF r \in blamed THEN "cancelled"
                                   ELSE IF r \in Pending THEN "discarded" ELSE answer[r]]
  /\ running' = {} /\ doomed' = {}
  /\ closed' = TRUE
  /\ UNCHANGED proven

Next ==
  \/ \E c \in Caller, reply \in {"pending", "cancelled"} : \E R \in SUBSET Of(c) : Ask(c, R, reply)
  \/ Start
  \/ \E c \in Caller : Cancel(c)
  \/ Close
  \/ Serve
  \/ Fail

Spec == Init /\ [][Next]_vars
=============================================================================
