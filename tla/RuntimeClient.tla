--------------------------- MODULE RuntimeClient ---------------------------
(***************************************************************************)
(* desktop-electron/electron/workflowRuntimeClient.ts: the Electron side   *)
(* of the worker process.  It starts the process on demand, negotiates the *)
(* protocol, keeps one map of pending requests, restarts a worker that     *)
(* exits unexpectedly, once, and shuts it down.                            *)
(*                                                                         *)
(* An action is one callback of the event loop with the promise reactions  *)
(* that follow it, up to the next callback: the reactions to a rejection   *)
(* run before any other event is delivered.                                *)
(***************************************************************************)
EXTENDS Naturals

CONSTANTS
  Caller,     \* concurrent callers of request()
  Closer,     \* concurrent callers of shutdown()
  Hello,      \* the requester of runtime.hello, which is start() itself
  MaxProcs    \* bound on the worker processes of a run

ASSUME ClientAssumption ==
  /\ Caller \cap Closer = {}
  /\ Hello \notin Caller \cup Closer
  /\ MaxProcs \in Nat

Proc == 1 .. MaxProcs
Requester == Caller \cup Closer \cup {Hello}

VARIABLES
  spawned,       \* how many processes have been spawned
  proc,          \* "none", "running", or with the exit event delivered "exited",
                 \* and "signalled" when its exitCode stays null
  child,         \* this.child, 0 for null
  pending,       \* which process each requester has a request in the map for, or 0;
                 \* this.starting is set exactly while Hello has one
  queued,        \* callers that wait for this.starting
  closing,       \* which process each shutdown waits to exit, or 0
  killed,        \* processes that were sent a kill
  rollback,      \* startupRollbackChildren
  timer,         \* restartTimer is set
  attempted,     \* restartAttemptedForOutage
  shuttingDown,  \* shuttingDown
  greeted,       \* history: processes that completed the handshake
  restarts,      \* history: automatic restarts since the last handshake
  overtaken      \* history: a shutdown ended without the exit of its process, or
                 \* when another process had been started

procs == <<spawned, proc, child>>
restarting == <<timer, attempted, restarts>>
ending == <<closing, killed, rollback, shuttingDown, overtaken>>
vars == <<procs, pending, queued, restarting, ending, greeted>>

Starting == pending[Hello]
None == [x \in Requester |-> 0]
Ask(x, c) == pending' = [pending EXCEPT ![x] = c]

-----------------------------------------------------------------------------
\* start(): spawn, and send runtime.hello.
Start ==
  /\ spawned < MaxProcs
  /\ spawned' = spawned + 1
  /\ proc' = [proc EXCEPT ![spawned + 1] = "running"]
  /\ child' = spawned + 1
  /\ Ask(Hello, spawned + 1)

\* Mutated form: a process that is there is used before its handshake.
UsableAtOnce == child # 0

\* ensureStarted returns at once.
Usable == Starting = 0 /\ child # 0

\* request(): ensureStarted, then send to this.child.
Request(r) ==
  /\ pending[r] = 0 /\ r \notin queued
  /\ \/ Usable /\ Ask(r, child) /\ UNCHANGED <<procs, queued>>
     \/ ~Usable /\ Starting # 0 /\ queued' = queued \cup {r} /\ UNCHANGED <<procs, pending>>
     \/ ~Usable /\ Starting = 0 /\ Start /\ queued' = queued \cup {r}
  /\ UNCHANGED <<restarting, ending, greeted>>

\* A response, a failed write or the timer settles the request of a caller.
Settled(r) ==
  /\ pending[r] # 0
  /\ Ask(r, 0)
  /\ UNCHANGED <<procs, queued, restarting, ending, greeted>>

\* Mutated form: the budget of automatic restarts is not renewed.
KeepBudget == UNCHANGED attempted

RenewBudget == attempted' = FALSE

\* The handshake succeeds, and the callers that waited for it send to
\* this.child, or are rejected when there is none.
Greeted ==
  /\ Starting # 0
  /\ pending' = [x \in Requester |-> IF x \in queued THEN child
                                     ELSE IF x = Hello THEN 0 ELSE pending[x]]
  /\ queued' = {}
  /\ greeted' = greeted \cup {Starting}
  /\ RenewBudget
  /\ restarts' = 0
  /\ UNCHANGED <<procs, timer, ending>>

-----------------------------------------------------------------------------
(* Rejecting everything that is pending.  A start in progress is rolled    *)
(* back, which rejects the callers that wait for it; a shutdown kills its  *)
(* process and waits for the exit event, unless an exit code is there.     *)

Interrupted == {s \in Closer : pending[s] # 0}

\* Mutated form: kill is called on this.child although it may be null.
VictimsOrNull == {Starting, child} \cup {pending[s] : s \in Interrupted}

Victims == ({Starting} \cup {pending[s] : s \in Interrupted}) \ {0}

ClosingAfter(finished) ==
  closing' = [s \in Closer |-> IF s \in finished THEN 0
                              ELSE IF s \in Interrupted THEN pending[s] ELSE closing[s]]

\* Mutated form: the promise that callers wait for is dropped and not rejected.
RejectSent(finished) ==
  /\ pending' = None
  /\ killed' = killed \cup Victims
  /\ ClosingAfter(finished)
  /\ UNCHANGED queued

RejectAll(finished) ==
  /\ pending' = None
  /\ queued' = {}
  /\ killed' = killed \cup Victims
  /\ ClosingAfter(finished)

\* The handshake is refused or times out.
RolledBack ==
  /\ Starting # 0
  /\ RejectAll({})
  /\ rollback' = rollback \cup {Starting}
  /\ child' = IF child = Starting THEN 0 ELSE child
  /\ UNCHANGED <<spawned, proc, restarting, shuttingDown, greeted, overtaken>>

\* Mutated form: an exit after the one automatic restart schedules another.
ScheduleAgain == IF timer THEN UNCHANGED <<timer, attempted>> ELSE timer' = TRUE /\ attempted' = TRUE

\* scheduleAutomaticRestart.
Schedule ==
  IF timer \/ attempted THEN UNCHANGED <<timer, attempted>> ELSE timer' = TRUE /\ attempted' = TRUE

\* The exit event of process c.  A process that was killed has no exit code,
\* unless it had exited by itself.
Exit(c, how) ==
  LET finished == {s \in Closer : closing[s] = c \/ (pending[s] = c /\ how = "exited")} IN
  /\ proc[c] = "running"
  /\ how = "signalled" => c \in killed
  /\ proc' = [proc EXCEPT ![c] = how]
  /\ RejectAll(finished)
  /\ child' = IF finished # {} \/ child \in {c, Starting} THEN 0 ELSE child
  /\ rollback' = (rollback \cup {Starting}) \ {0, c}
  /\ shuttingDown' = (shuttingDown /\ finished = {})
  /\ IF shuttingDown \/ c \in rollback THEN UNCHANGED <<timer, attempted>> ELSE Schedule
  /\ overtaken' = (overtaken \/ (finished # {} /\ child \notin {0, c}))
  /\ UNCHANGED <<spawned, greeted, restarts>>

\* The error event of a process that could not be spawned.  It is queued by
\* spawn itself, so no shutdown has come in between, and no exit follows.
SpawnFails ==
  /\ Starting # 0 /\ proc[Starting] = "running"
  /\ \A s \in Closer : Starting \notin {pending[s], closing[s]}
  /\ proc' = [proc EXCEPT ![Starting] = "exited"]
  /\ RejectAll({})
  /\ child' = IF child = Starting THEN 0 ELSE child
  /\ rollback' = rollback \cup {Starting}
  /\ UNCHANGED <<spawned, restarting, shuttingDown, greeted, overtaken>>

\* The restart timer fires.
Restart ==
  /\ timer
  /\ timer' = FALSE
  /\ IF shuttingDown \/ child # 0 \/ Starting # 0
       THEN UNCHANGED <<procs, pending, restarts>>
       ELSE Start /\ restarts' = restarts + 1
  /\ UNCHANGED <<queued, ending, attempted, greeted>>

-----------------------------------------------------------------------------
(* shutdown(). *)

Shutdown(s) ==
  /\ pending[s] = 0 /\ closing[s] = 0
  /\ timer' = FALSE
  /\ shuttingDown' = (child # 0)
  /\ Ask(s, child)
  /\ UNCHANGED <<procs, queued, closing, killed, rollback, overtaken, attempted, restarts, greeted>>

\* The answer to runtime.shutdown, or no answer in time and a kill.
Told(s) ==
  /\ pending[s] # 0
  /\ killed' \in {killed, killed \cup {pending[s]}}
  /\ closing' = [closing EXCEPT ![s] = pending[s]]
  /\ Ask(s, 0)
  /\ UNCHANGED <<procs, queued, restarting, rollback, shuttingDown, overtaken, greeted>>

\* Mutated form: a process that ignores the request is waited for.
OverdueIfExited(s) == closing[s] # 0 /\ proc[closing[s]] # "running"

Overdue(s) == closing[s] # 0

\* The exit event does not come within two seconds.
GivesUp(s) ==
  /\ Overdue(s)
  /\ killed' = killed \cup {closing[s]}
  /\ closing' = [closing EXCEPT ![s] = 0]
  /\ child' = 0
  /\ shuttingDown' = FALSE
  /\ overtaken' = TRUE
  /\ UNCHANGED <<spawned, proc, pending, queued, restarting, rollback, greeted>>

-----------------------------------------------------------------------------
Init ==
  /\ spawned = 0
  /\ proc = [c \in Proc |-> "none"]
  /\ child = 0
  /\ pending = None
  /\ queued = {}
  /\ closing = [s \in Closer |-> 0]
  /\ killed = {}
  /\ rollback = {}
  /\ timer = FALSE
  /\ attempted = FALSE
  /\ shuttingDown = FALSE
  /\ greeted = {}
  /\ restarts = 0
  /\ overtaken = FALSE

Handshake == Greeted \/ RolledBack

Next ==
  \/ \E r \in Caller : Request(r) \/ Settled(r)
  \/ Handshake
  \/ SpawnFails
  \/ \E c \in Proc, how \in {"exited", "signalled"} : Exit(c, how)
  \/ Restart
  \/ \E s \in Closer : Shutdown(s) \/ Told(s) \/ GivesUp(s)

\* Every request has a timer, runtime.hello too, and so has the wait for an
\* exit.  A process need not exit.
Fairness ==
  /\ WF_vars(Handshake)
  /\ \A r \in Caller : WF_vars(Settled(r))
  /\ \A s \in Closer : WF_vars(Told(s)) /\ WF_vars(GivesUp(s))

Spec == Init /\ [][Next]_vars /\ Fairness

-----------------------------------------------------------------------------
(* Properties. *)

\* The variables hold values of their types.
TypeOK ==
  /\ spawned \in 0 .. MaxProcs
  /\ proc \in [Proc -> {"none", "running", "exited", "signalled"}]
  /\ child \in 0 .. spawned
  /\ pending \in [Requester -> 0 .. spawned]
  /\ queued \subseteq Caller
  /\ closing \in [Closer -> 0 .. spawned]
  /\ killed \subseteq Proc /\ rollback \subseteq Proc /\ greeted \subseteq Proc
  /\ timer \in BOOLEAN /\ attempted \in BOOLEAN
  /\ shuttingDown \in BOOLEAN /\ overtaken \in BOOLEAN
  /\ restarts \in Nat

\* No request is left waiting for a process that has exited, and this.child
\* never is one: whoever is answered, timed out, rolled back or shut down in
\* between, an exit is noticed by everybody it concerns.
NobodyWaitsForTheDead ==
  /\ child # 0 => proc[child] = "running"
  /\ \A x \in Requester : pending[x] # 0 => proc[pending[x]] = "running"
  /\ queued # {} => Starting # 0

\* No caller's request reaches a process before its handshake, also when the
\* process the caller waited for has been replaced.
HandshakeFirst == \A r \in Caller : pending[r] # 0 => pending[r] \in greeted

\* A worker that cannot start is not started over and over: an outage is
\* followed by one automatic restart, or by two when the restart timer of the
\* outage before was still running at the handshake that ended it.
RestartsBounded == restarts <= 2

\* A worker that is ready has its automatic restart left.  Only a shutdown
\* that was overtaken by a start or by its own timer may have used it, for the
\* late exit of a process that nobody owns any more.
ReadyWorkerIsCovered == child \in greeted /\ ~overtaken => ~attempted

\* Every request is settled, and every shutdown ends.
RequestsSettle == \A r \in Caller : (pending[r] # 0 \/ r \in queued) ~> (pending[r] = 0 /\ r \notin queued)
ShutdownEnds == \A s \in Closer : closing[s] # 0 ~> closing[s] = 0

\* desktop-electron/tests/workflowRuntimeClient.spec.ts: a failed handshake is rolled back and
\* allows a clean retry, so the exit of the old process, which comes later,
\* does not touch the requests of its replacement.
CleanRetry ==
  [][\A c \in Proc, x \in Requester :
       /\ proc[c] = "running" /\ proc'[c] \in {"exited", "signalled"}
       /\ pending[x] \notin {0, c}
       => pending'[x] = pending[x]]_vars

-----------------------------------------------------------------------------
(* The inductive invariant of RuntimeClient_proofs. *)

\* this.child has completed its handshake unless it is being started.
ChildIsReady == child \notin {0, Starting} => child \in greeted

IInv == TypeOK /\ NobodyWaitsForTheDead /\ HandshakeFirst /\ ChildIsReady

\* What is left of the budget: an automatic restart is spent by its timer, and
\* a timer that a handshake left running has spent none.
Budget ==
  /\ restarts <= 2
  /\ timer \/ ~attempted => restarts <= 1
  /\ timer /\ ~attempted => restarts = 0

\* A process that runs is this.child or was rolled back, and one that is being
\* started is this.child, unless a shutdown was overtaken.
ProcessesOwned ==
  ~overtaken =>
    /\ \A c \in Proc : proc[c] = "running" => c = child \/ c \in rollback
    /\ Starting # 0 => child = Starting

BudgetInv == Budget /\ ProcessesOwned /\ greeted \subseteq 1 .. spawned /\ ReadyWorkerIsCovered
=============================================================================
