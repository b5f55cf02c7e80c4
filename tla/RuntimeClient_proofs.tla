------------------------ MODULE RuntimeClient_proofs ------------------------
(***************************************************************************)
(* For any number of callers, shutdowns and worker processes: no request   *)
(* waits for a process that is gone, none overtakes the handshake, a ready *)
(* worker keeps the right to a restart, and restarts are bounded.          *)
(***************************************************************************)
EXTENDS RuntimeClient, TLAPS

USE DEF Proc, Requester, Starting

\* The number of a process is null or one that was handed out.
LEMMA NumberLemma ==
  ASSUME IInv
  PROVE  /\ Starting \in 0 .. spawned /\ child \in 0 .. spawned /\ 0 \in 0 .. spawned
         /\ \A n \in 0 .. spawned : n = 0 \/ n \in Proc
         /\ \A x \in Requester : pending[x] \in 0 .. spawned
<1>1. spawned \in 0 .. MaxProcs /\ pending \in [Requester -> 0 .. spawned] /\ child \in 0 .. spawned
  BY DEF IInv, TypeOK
<1>2. Hello \in Requester
  OBVIOUS
<1>. QED BY <1>1, <1>2, ClientAssumption

LEMMA InitInv == Init => IInv
<1> SUFFICES ASSUME Init PROVE IInv
  OBVIOUS
<1>1. pending = None /\ \A x \in Requester : pending[x] = 0
  BY DEF Init, None
<1>2. TypeOK
  <2>1. pending \in [Requester -> 0 .. spawned]
    BY <1>1 DEF None, Init
  <2>2. closing \in [Closer -> 0 .. spawned]
    BY DEF Init
  <2>3. proc \in [Proc -> {"none", "running", "exited", "signalled"}]
    BY DEF Init
  <2>4. spawned \in 0 .. MaxProcs /\ child \in 0 .. spawned
    BY ClientAssumption DEF Init
  <2>. QED BY <2>1, <2>2, <2>3, <2>4 DEF Init, TypeOK
<1>3. NobodyWaitsForTheDead /\ HandshakeFirst /\ ChildIsReady
  BY <1>1 DEF Init, NobodyWaitsForTheDead, HandshakeFirst, ChildIsReady
<1>. QED BY <1>2, <1>3 DEF IInv

\* What a start does to the processes and to the map of requests.
LEMMA StartLemma ==
  ASSUME IInv, Start
  PROVE  /\ spawned' \in 0 .. MaxProcs /\ spawned' = spawned + 1
         /\ proc' \in [Proc -> {"none", "running", "exited", "signalled"}]
         /\ child' \in 1 .. spawned' /\ proc'[child'] = "running"
         /\ \A c \in Proc : proc[c] = "running" => proc'[c] = "running"
         /\ pending' \in [Requester -> 0 .. spawned']
         /\ pending'[Hello] = child'
         /\ \A x \in Requester \ {Hello} : pending'[x] = pending[x]
  BY ClientAssumption DEF IInv, TypeOK, Start, Ask

LEMMA RequestInv ==
  ASSUME IInv, NEW r \in Caller, Request(r)
  PROVE  IInv'
<1> USE ClientAssumption DEF Request, restarting, ending, procs
<1>0. r # Hello /\ r \in Requester
  OBVIOUS
<1>1. CASE Usable /\ Ask(r, child) /\ UNCHANGED <<procs, queued>>
  BY <1>0, <1>1 DEF IInv, TypeOK, NobodyWaitsForTheDead, HandshakeFirst, ChildIsReady, Usable, Ask
<1>2. CASE ~Usable /\ Starting # 0 /\ queued' = queued \cup {r} /\ UNCHANGED <<procs, pending>>
  BY <1>2 DEF IInv, TypeOK, NobodyWaitsForTheDead, HandshakeFirst, ChildIsReady
<1>3. CASE ~Usable /\ Starting = 0 /\ Start /\ queued' = queued \cup {r}
  <2>1. TypeOK'
    BY <1>3, StartLemma DEF IInv, TypeOK
  <2>2. NobodyWaitsForTheDead'
    BY <1>3, StartLemma DEF IInv, TypeOK, NobodyWaitsForTheDead
  <2>3. HandshakeFirst' /\ ChildIsReady'
    BY <1>3, StartLemma DEF IInv, TypeOK, HandshakeFirst, ChildIsReady
  <2>. QED BY <2>1, <2>2, <2>3 DEF IInv
<1>. QED BY <1>1, <1>2, <1>3

LEMMA SettledInv ==
  ASSUME IInv, NEW r \in Caller, Settled(r)
  PROVE  IInv'
  BY ClientAssumption
  DEF Settled, Ask, IInv, TypeOK, NobodyWaitsForTheDead, HandshakeFirst, ChildIsReady,
      restarting, ending, procs

LEMMA GreetedInv ==
  ASSUME IInv, Greeted
  PROVE  IInv'
<1> USE ClientAssumption DEF Greeted, RenewBudget, ending, procs
<1>1. TypeOK'
  <2>1. pending' \in [Requester -> 0 .. spawned]
    BY NumberLemma
  <2>2. greeted' \subseteq Proc
    BY NumberLemma DEF IInv, TypeOK
  <2>. QED BY <2>1, <2>2 DEF IInv, TypeOK
<1>2. NobodyWaitsForTheDead'
  BY DEF IInv, TypeOK, NobodyWaitsForTheDead
<1>3. HandshakeFirst'
  BY DEF IInv, TypeOK, HandshakeFirst, ChildIsReady
<1>4. ChildIsReady'
  BY DEF IInv, TypeOK, ChildIsReady
<1>. QED BY <1>1, <1>2, <1>3, <1>4 DEF IInv

\* After a rejection of everything nobody waits, and the sets keep their types.
LEMMA RejectLemma ==
  ASSUME IInv, NEW finished, RejectAll(finished)
  PROVE  /\ pending' = None /\ queued' = {}
         /\ killed' \subseteq Proc
         /\ closing' \in [Closer -> 0 .. spawned]
         /\ pending' \in [Requester -> 0 .. spawned]
<1>1. spawned \in 0 .. MaxProcs /\ \A x \in Requester : pending[x] \in 0 .. spawned
  BY DEF IInv, TypeOK
<1>2. Victims \subseteq Proc
  BY <1>1, ClientAssumption DEF Victims, Interrupted
<1>3. killed' \subseteq Proc
  BY <1>2 DEF RejectAll, IInv, TypeOK
<1>4. closing' \in [Closer -> 0 .. spawned]
  <2>1. \A s \in Closer : closing[s] \in 0 .. spawned /\ 0 \in 0 .. spawned
    BY <1>1, ClientAssumption DEF IInv, TypeOK
  <2>. QED BY <2>1, <1>1 DEF RejectAll, ClosingAfter
<1>5. pending' \in [Requester -> 0 .. spawned]
  BY <1>1, ClientAssumption DEF RejectAll, None
<1>. QED BY <1>3, <1>4, <1>5 DEF RejectAll

\* Nobody waits and this.child is as before or null.
LEMMA RejectedInv ==
  ASSUME IInv, TypeOK', pending' = None, queued' = {}, greeted' = greeted,
         child' # 0 => child' = child /\ child # Starting /\ proc'[child] = "running"
  PROVE  IInv'
  BY ClientAssumption DEF IInv, TypeOK, NobodyWaitsForTheDead, HandshakeFirst, ChildIsReady, None

LEMMA RolledBackInv ==
  ASSUME IInv, RolledBack
  PROVE  IInv'
<1>1. TypeOK'
  <2>1. rollback' \subseteq Proc /\ child' \in 0 .. spawned
    <3>1. rollback \subseteq Proc
      BY DEF IInv, TypeOK
    <3>. QED BY <3>1, NumberLemma DEF RolledBack
  <2>. QED BY <2>1, RejectLemma DEF RolledBack, IInv, TypeOK, restarting
<1>2. child' # 0 => child' = child /\ child # Starting /\ proc'[child] = "running"
  BY DEF RolledBack, IInv, NobodyWaitsForTheDead
<1>. QED BY <1>1, <1>2, RejectLemma, RejectedInv DEF RolledBack

LEMMA SpawnFailsInv ==
  ASSUME IInv, SpawnFails
  PROVE  IInv'
<1>1. TypeOK'
  <2>1. rollback' \subseteq Proc /\ child' \in 0 .. spawned
    <3>1. rollback \subseteq Proc
      BY DEF IInv, TypeOK
    <3>. QED BY <3>1, NumberLemma DEF SpawnFails
  <2>2. proc' \in [Proc -> {"none", "running", "exited", "signalled"}]
    BY DEF SpawnFails, IInv, TypeOK
  <2>. QED BY <2>1, <2>2, RejectLemma DEF SpawnFails, IInv, TypeOK, restarting
<1>2. child' # 0 => child' = child /\ child # Starting /\ proc'[child] = "running"
  BY DEF SpawnFails, IInv, TypeOK, NobodyWaitsForTheDead
<1>. QED BY <1>1, <1>2, RejectLemma, RejectedInv DEF SpawnFails

LEMMA ExitInv ==
  ASSUME IInv, NEW c \in Proc, NEW how \in {"exited", "signalled"}, Exit(c, how)
  PROVE  IInv'
<1> DEFINE finished == {s \in Closer : closing[s] = c \/ (pending[s] = c /\ how = "exited")}
<1>1. RejectAll(finished)
  BY DEF Exit
<1> HIDE DEF finished
<1>2. pending' = None /\ queued' = {} /\ killed' \subseteq Proc /\ closing' \in [Closer -> 0 .. spawned]
  BY <1>1, RejectLemma
<1>3. timer' \in BOOLEAN /\ attempted' \in BOOLEAN /\ shuttingDown' \in BOOLEAN /\ overtaken' \in BOOLEAN
  BY DEF Exit, Schedule, IInv, TypeOK
<1>4. TypeOK'
  <2>1. rollback' \subseteq Proc /\ child' \in 0 .. spawned
    <3>1. rollback \subseteq Proc
      BY DEF IInv, TypeOK
    <3>2. rollback' \subseteq Proc
      BY <3>1, NumberLemma DEF Exit
    <3>3. child' \in {0, child}
      BY DEF Exit
    <3>. QED BY <3>2, <3>3, NumberLemma
  <2>2. proc' \in [Proc -> {"none", "running", "exited", "signalled"}]
    BY DEF Exit, IInv, TypeOK
  <2>3. spawned' = spawned /\ greeted' = greeted /\ restarts' = restarts
    BY DEF Exit
  <2>. QED BY <1>1, <1>2, <1>3, <2>1, <2>2, <2>3, RejectLemma DEF IInv, TypeOK
<1>5. child' # 0 => child' = child /\ child # Starting /\ proc'[child] = "running"
  BY DEF Exit, IInv, TypeOK, NobodyWaitsForTheDead
<1>. QED BY <1>2, <1>4, <1>5, RejectedInv DEF Exit

LEMMA RestartInv ==
  ASSUME IInv, Restart
  PROVE  IInv'
<1> USE ClientAssumption DEF Restart, ending, procs
<1>1. CASE shuttingDown \/ child # 0 \/ Starting # 0
  BY <1>1 DEF IInv, TypeOK, NobodyWaitsForTheDead, HandshakeFirst, ChildIsReady
<1>2. CASE Start /\ restarts' = restarts + 1 /\ ~(shuttingDown \/ child # 0 \/ Starting # 0)
  <2>1. TypeOK'
    <3>1. closing' \in [Closer -> 0 .. spawned'] /\ killed' \subseteq Proc /\ rollback' \subseteq Proc
      BY <1>2, StartLemma DEF IInv, TypeOK
    <3>2. restarts' \in Nat
      <4>1. restarts \in Nat
        BY DEF IInv, TypeOK
      <4>2. restarts' = restarts + 1
        BY <1>2
      <4>. QED BY <4>1, <4>2
    <3>3. timer' = FALSE /\ queued' = queued
      OBVIOUS
    <3>4. timer' \in BOOLEAN /\ queued' \subseteq Caller
      BY <3>3 DEF IInv, TypeOK
    <3>. QED BY <1>2, <3>1, <3>2, <3>4, StartLemma DEF IInv, TypeOK
  <2>2. NobodyWaitsForTheDead'
    <3>1. \A x \in Requester \ {Hello} : pending[x] # 0 => pending[x] \in Proc /\ proc[pending[x]] = "running"
      BY DEF IInv, TypeOK, NobodyWaitsForTheDead
    <3>2. queued' = queued /\ child' # 0
      BY <1>2, StartLemma
    <3>. QED BY <1>2, <3>1, <3>2, StartLemma DEF IInv, NobodyWaitsForTheDead
  <2>3. HandshakeFirst' /\ ChildIsReady'
    BY <1>2, StartLemma DEF IInv, TypeOK, HandshakeFirst, ChildIsReady
  <2>. QED BY <2>1, <2>2, <2>3 DEF IInv
<1>. QED BY <1>1, <1>2

LEMMA ShutdownInv ==
  ASSUME IInv, NEW s \in Closer, Shutdown(s) \/ Told(s) \/ GivesUp(s)
  PROVE  IInv'
<1> USE ClientAssumption DEF Ask, IInv, TypeOK, NobodyWaitsForTheDead, HandshakeFirst, ChildIsReady,
      restarting, procs
<1>0. s \in Requester /\ s # Hello /\ s \notin Caller
  OBVIOUS
<1>1. CASE Shutdown(s)
  BY <1>0, <1>1 DEF Shutdown
<1>2. CASE Told(s)
  BY <1>0, <1>2 DEF Told
<1>3. CASE GivesUp(s)
  <2>1. closing[s] \in Proc /\ 0 \in 0 .. spawned
    BY <1>3 DEF GivesUp, Overdue
  <2>. QED BY <1>0, <1>3, <2>1, ZenonT(30) DEF GivesUp, Overdue
<1>. QED BY <1>1, <1>2, <1>3

\* Every step of the client keeps the invariant.
THEOREM StepKeepsInvariant == IInv /\ [Next]_vars => IInv'
<1> SUFFICES ASSUME IInv, [Next]_vars PROVE IInv'
  OBVIOUS
<1>1. CASE UNCHANGED vars
  BY <1>1 DEF vars, procs, restarting, ending, IInv, TypeOK, NobodyWaitsForTheDead, HandshakeFirst,
              ChildIsReady
<1>2. CASE \E r \in Caller : Request(r) \/ Settled(r)
  BY <1>2, RequestInv, SettledInv
<1>3. CASE Handshake
  BY <1>3, GreetedInv, RolledBackInv DEF Handshake
<1>4. CASE SpawnFails
  BY <1>4, SpawnFailsInv
<1>5. CASE \E c \in Proc, how \in {"exited", "signalled"} : Exit(c, how)
  BY <1>5, ExitInv
<1>6. CASE Restart
  BY <1>6, RestartInv
<1>7. CASE \E s \in Closer : Shutdown(s) \/ Told(s) \/ GivesUp(s)
  BY <1>7, ShutdownInv
<1>. QED BY <1>1, <1>2, <1>3, <1>4, <1>5, <1>6, <1>7 DEF Next

LEMMA Inductive == Spec => []IInv
  BY InitInv, StepKeepsInvariant, PTL DEF Spec

\* The variables of the client keep their types.
THEOREM TypeCorrect == Spec => []TypeOK
<1>1. IInv => TypeOK
  BY DEF IInv
<1>. QED BY <1>1, Inductive, PTL

\* The exit handler of a process leaves nobody waiting for it, whatever was
\* answered, rolled back, replaced or shut down before.
THEOREM NobodyIsStranded == Spec => []NobodyWaitsForTheDead
<1>1. IInv => NobodyWaitsForTheDead
  BY DEF IInv
<1>. QED BY <1>1, Inductive, PTL

\* send() reaches only processes that have answered runtime.hello, also after
\* the process that a caller waited for has been replaced.
THEOREM HandshakeComesFirst == Spec => []HandshakeFirst
<1>1. IInv => HandshakeFirst
  BY DEF IInv
<1>. QED BY <1>1, Inductive, PTL

-----------------------------------------------------------------------------
(* The budget of automatic restarts. *)

LEMMA InitBudget == Init => BudgetInv
<1> SUFFICES ASSUME Init PROVE BudgetInv
  OBVIOUS
<1>1. pending[Hello] = 0 /\ \A c \in Proc : proc[c] # "running"
  BY DEF Init, None
<1>. QED BY <1>1 DEF Init, BudgetInv, Budget, ProcessesOwned, ReadyWorkerIsCovered

\* A start is made only when this.child is null, and takes its place.
LEMMA StartOwned ==
  ASSUME IInv, BudgetInv, Start, child = 0, UNCHANGED <<ending, greeted>>
  PROVE  ProcessesOwned' /\ greeted' \subseteq 1 .. spawned' /\ child' \notin greeted'
<1>1. child' = spawned + 1 /\ spawned' = spawned + 1 /\ spawned \in Nat
  BY ClientAssumption DEF Start, IInv, TypeOK
<1>2. \A c \in Proc : proc'[c] = "running" => proc[c] = "running" \/ c = child'
  BY <1>1 DEF Start, IInv, TypeOK
<1>3. pending'[Hello] = child'
  BY <1>1, StartLemma
<1>4. 0 \notin Proc
  OBVIOUS
<1>5. ProcessesOwned'
  BY <1>2, <1>3, <1>4 DEF BudgetInv, ProcessesOwned, ending
<1>. QED BY <1>1, <1>5 DEF BudgetInv

LEMMA RequestBudget ==
  ASSUME IInv, BudgetInv, NEW r \in Caller, Request(r)
  PROVE  BudgetInv'
<1>0. /\ UNCHANGED <<restarting, ending, greeted>>
      /\ r # Hello /\ r \in Requester
  BY ClientAssumption DEF Request
<1>1. Budget'
  BY <1>0 DEF BudgetInv, Budget, restarting
<1>2. CASE UNCHANGED procs /\ pending'[Hello] = pending[Hello]
  BY <1>0, <1>1, <1>2
  DEF BudgetInv, ProcessesOwned, ReadyWorkerIsCovered, procs, restarting, ending
<1>3. CASE ~Usable /\ Starting = 0 /\ Start
  <2>1. child = 0
    BY <1>3 DEF Usable
  <2>. QED BY <1>0, <1>1, <1>3, <2>1, StartOwned DEF BudgetInv, ReadyWorkerIsCovered
<1>. QED BY <1>0, <1>2, <1>3 DEF Request, Ask, IInv, TypeOK

LEMMA GreetedBudget ==
  ASSUME IInv, BudgetInv, Greeted
  PROVE  BudgetInv'
<1>1. Starting \in 1 .. spawned
  BY NumberLemma DEF Greeted, IInv, TypeOK
<1>2. pending'[Hello] = 0
  BY ClientAssumption DEF Greeted, IInv, TypeOK
<1>3. Budget' /\ ReadyWorkerIsCovered'
  BY DEF Greeted, RenewBudget, Budget, ReadyWorkerIsCovered
<1>4. ProcessesOwned'
  BY <1>2 DEF Greeted, BudgetInv, ProcessesOwned, procs, ending
<1>. QED BY <1>1, <1>3, <1>4 DEF Greeted, BudgetInv, procs

\* Nothing is started and this.child is as before or null; what runs was
\* owned before and is owned still.
LEMMA ReleasedBudget ==
  ASSUME IInv, BudgetInv, Budget', pending' = None, UNCHANGED <<spawned, greeted>>,
         ~overtaken' => ~overtaken,
         \A c \in Proc : proc'[c] = "running" => proc[c] = "running",
         ~overtaken' => \A c \in Proc : proc'[c] = "running" /\ c \in {child} \cup rollback
                                         => c \in {child'} \cup rollback',
         child' \in {0, child}, attempted' # attempted /\ ~overtaken' => child' = 0
  PROVE  BudgetInv'
<1>1. pending'[Hello] = 0
  BY DEF None
<1>2. ProcessesOwned'
  BY <1>1 DEF BudgetInv, ProcessesOwned
<1>3. 0 \notin greeted
  BY DEF IInv, TypeOK
<1>4. ReadyWorkerIsCovered'
  BY <1>3 DEF BudgetInv, ReadyWorkerIsCovered, IInv, TypeOK
<1>. QED BY <1>2, <1>4 DEF BudgetInv

LEMMA FailedBudget ==
  ASSUME IInv, BudgetInv, RolledBack \/ SpawnFails
  PROVE  BudgetInv'
<1>1. /\ pending' = None /\ UNCHANGED <<spawned, restarting, greeted, overtaken>>
      /\ child' = IF child = Starting THEN 0 ELSE child
      /\ rollback' = rollback \cup {Starting}
  BY DEF RolledBack, SpawnFails, RejectAll
<1>2. \A c \in Proc : proc'[c] = "running" => proc[c] = "running"
  BY DEF RolledBack, SpawnFails, IInv, TypeOK
<1>3. Budget'
  BY <1>1 DEF BudgetInv, Budget, restarting
<1>4. \A c \in Proc : c \in {child} \cup rollback => c \in {child'} \cup rollback'
  BY <1>1
<1>. QED BY <1>1, <1>2, <1>3, <1>4, ReleasedBudget DEF restarting

\* Only the exit of a process that nobody shut down or rolled back schedules a
\* restart, and unless a shutdown was overtaken that process was this.child.
LEMMA ExitBudget ==
  ASSUME IInv, BudgetInv, NEW c \in Proc, NEW how \in {"exited", "signalled"}, Exit(c, how)
  PROVE  BudgetInv'
<1> DEFINE finished == {s \in Closer : closing[s] = c \/ (pending[s] = c /\ how = "exited")}
<1>1. /\ pending' = None /\ UNCHANGED <<spawned, greeted, restarts>>
      /\ proc[c] = "running" /\ proc' = [proc EXCEPT ![c] = how]
      /\ child' = IF finished # {} \/ child \in {c, Starting} THEN 0 ELSE child
      /\ rollback' = (rollback \cup {Starting}) \ {0, c}
      /\ IF shuttingDown \/ c \in rollback THEN UNCHANGED <<timer, attempted>> ELSE Schedule
      /\ overtaken' = (overtaken \/ (finished # {} /\ child \notin {0, c}))
  BY DEF Exit, RejectAll
<1> HIDE DEF finished
<1>2. /\ \A d \in Proc : proc'[d] = "running" => proc[d] = "running" /\ d # c
      /\ timer \in BOOLEAN /\ attempted \in BOOLEAN /\ restarts \in Nat
      /\ 0 \notin Proc
  BY <1>1 DEF IInv, TypeOK
<1>3. \/ UNCHANGED <<timer, attempted>>
      \/ timer' /\ attempted' /\ ~timer /\ ~attempted /\ c \notin rollback
  BY <1>1, <1>2 DEF Schedule
<1>4. Budget'
  BY <1>1, <1>2, <1>3 DEF BudgetInv, Budget
<1>5. ~overtaken' => \A d \in Proc : proc'[d] = "running" /\ d \in {child} \cup rollback
                                        => d \in {child'} \cup rollback'
  BY <1>1, <1>2
<1>6. attempted' # attempted /\ ~overtaken' => child' = 0
  <2>1. CASE UNCHANGED <<timer, attempted>>
    BY <2>1
  <2>2. CASE c \notin rollback /\ ~overtaken
    <3>1. c = child
      BY <1>1, <2>2 DEF BudgetInv, ProcessesOwned
    <3>. QED BY <1>1, <3>1
  <2>. QED BY <1>1, <1>3, <2>1, <2>2
<1>. QED BY <1>1, <1>2, <1>4, <1>5, <1>6, ReleasedBudget

LEMMA RestartBudget ==
  ASSUME IInv, BudgetInv, Restart
  PROVE  BudgetInv'
<1>1. timer /\ timer' = FALSE /\ UNCHANGED <<queued, ending, attempted, greeted>>
  BY DEF Restart
<1>2. CASE UNCHANGED <<procs, pending, restarts>>
  BY <1>1, <1>2 DEF BudgetInv, Budget, ProcessesOwned, ReadyWorkerIsCovered, procs, ending, IInv, TypeOK
<1>3. CASE child = 0 /\ Start /\ restarts' = restarts + 1
  <2>1. Budget'
    BY <1>1, <1>3 DEF BudgetInv, Budget, IInv, TypeOK
  <2>. QED BY <1>1, <1>3, <2>1, StartOwned DEF BudgetInv, ReadyWorkerIsCovered
<1>. QED BY <1>2, <1>3 DEF Restart

LEMMA SettledBudget ==
  ASSUME IInv, BudgetInv, NEW r \in Caller, Settled(r)
  PROVE  BudgetInv'
<1>1. pending'[Hello] = pending[Hello]
  BY ClientAssumption DEF Settled, Ask, IInv, TypeOK
<1>. QED
  BY <1>1 DEF Settled, BudgetInv, Budget, ProcessesOwned, ReadyWorkerIsCovered, procs, restarting, ending

LEMMA ShutdownBudget ==
  ASSUME IInv, BudgetInv, NEW s \in Closer, Shutdown(s) \/ Told(s) \/ GivesUp(s)
  PROVE  BudgetInv'
<1>1. pending'[Hello] = pending[Hello]
  BY ClientAssumption DEF Shutdown, Told, GivesUp, Ask, IInv, TypeOK
<1>2. CASE Shutdown(s)
  BY <1>1, <1>2 DEF Shutdown, BudgetInv, Budget, ProcessesOwned, ReadyWorkerIsCovered, procs, IInv, TypeOK
<1>3. CASE Told(s)
  BY <1>1, <1>3
  DEF Told, BudgetInv, Budget, ProcessesOwned, ReadyWorkerIsCovered, procs, restarting
<1>4. CASE GivesUp(s)
  BY <1>4 DEF GivesUp, BudgetInv, Budget, ProcessesOwned, ReadyWorkerIsCovered, restarting
<1>. QED BY <1>2, <1>3, <1>4

LEMMA BudgetInductive == Spec => []BudgetInv
<1>1. ASSUME IInv, BudgetInv, [Next]_vars
      PROVE  BudgetInv'
  <2>1. CASE UNCHANGED vars
    BY <1>1, <2>1
    DEF vars, procs, restarting, ending, BudgetInv, Budget, ProcessesOwned, ReadyWorkerIsCovered
  <2>2. CASE \E r \in Caller : Request(r) \/ Settled(r)
    BY <1>1, <2>2, RequestBudget, SettledBudget
  <2>3. CASE Handshake \/ SpawnFails
    BY <1>1, <2>3, GreetedBudget, FailedBudget DEF Handshake
  <2>4. CASE \E c \in Proc, how \in {"exited", "signalled"} : Exit(c, how)
    BY <1>1, <2>4, ExitBudget
  <2>5. CASE Restart
    BY <1>1, <2>5, RestartBudget
  <2>6. CASE \E s \in Closer : Shutdown(s) \/ Told(s) \/ GivesUp(s)
    BY <1>1, <2>6, ShutdownBudget
  <2>. QED BY <1>1, <2>1, <2>2, <2>3, <2>4, <2>5, <2>6 DEF Next
<1>. QED BY <1>1, InitBudget, Inductive, PTL DEF Spec

\* However worker processes die, scheduleAutomaticRestart never makes a crash
\* loop: two automatic restarts at most until a handshake.
THEOREM NoCrashLoop == Spec => []RestartsBounded
<1>1. BudgetInv => RestartsBounded
  BY DEF BudgetInv, Budget, RestartsBounded
<1>. QED BY <1>1, BudgetInductive, PTL

\* The flag restartAttemptedForOutage is never left set beside a ready worker
\* by an exit that was not that worker's own.
THEOREM ReadyWorkerKeepsRestart == Spec => []ReadyWorkerIsCovered
<1>1. BudgetInv => ReadyWorkerIsCovered
  BY DEF BudgetInv
<1>. QED BY <1>1, BudgetInductive, PTL
=============================================================================
