------------------------- MODULE CloudTranscriber -------------------------
(***************************************************************************)
(* pipeline/cloud_asr.py: a cloud transcription is one blocking request on *)
(* a daemon thread that nothing can stop, so a cancel leaves a tombstone   *)
(* that the awaiting coroutine checks before and after the request.  The   *)
(* router forwards every cancel to both adapters (pipeline/router.py), so  *)
(* attempts of the local adapter leave tombstones here as well, and the    *)
(* table is bounded.                                                       *)
(***************************************************************************)
EXTENDS Naturals, Sequences, FiniteSets, SequencesExt

CONSTANTS
  CloudAttempt,   \* attempts transcribed by this adapter
  OtherAttempt,   \* attempts of the other adapter, whose cancels arrive too
  MaxTombstones   \* _max_cancelled_tombstones

ASSUME CloudAssumption ==
  /\ CloudAttempt \cap OtherAttempt = {}
  /\ MaxTombstones \in Nat \ {0}

VARIABLES
  cloudTask,   \* the coroutine: "new", "secret", "starting", "waiting", and ended as
               \* "transcript", "failed", "cancelled" (CloudAttemptCancelled) or "abandoned"
  request,     \* the daemon thread: "none", "running", "posted", "ended"
  active,      \* _active_attempts and _active_call_tokens
  marked,      \* _cancelled_attempts
  marks,       \* _cancelled_tombstone_order
  cloudClose,  \* close(): "idle", "waiting", "done"
  asked,       \* history: attempts cancelled before their coroutine ended
  newer        \* history: cancels that followed the one of each attempt, up to MaxTombstones

cloudVars == <<cloudTask, request, active, marked, marks, cloudClose, asked, newer>>

CloudEnded == {"transcript", "failed", "cancelled", "abandoned"}

-----------------------------------------------------------------------------
(* Tombstones. *)

\* Mutated form: nothing is ever evicted.
RememberAlways(set, order, x) ==
  IF x \in set THEN [set |-> set, order |-> order]
  ELSE [set |-> set \cup {x}, order |-> Append(order, x)]

\* _remember_cancelled_locked.  The entry of a cleared tombstone stays in the
\* order, and evicts the key if it has been remembered again.
Remember(set, order, x) ==
  IF x \in set THEN [set |-> set, order |-> order]
  ELSE LET longer == Append(order, x) IN
       IF Len(longer) <= MaxTombstones THEN [set |-> set \cup {x}, order |-> longer]
       ELSE [set |-> (set \cup {x}) \ {Head(longer)}, order |-> Tail(longer)]

\* The keys are remembered one after the other.
RememberAll(keys) ==
  LET after[n \in 0 .. Len(keys)] ==
        IF n = 0 THEN [set |-> marked, order |-> marks]
        ELSE Remember(after[n - 1].set, after[n - 1].order, keys[n])
      Others(a) == newer[a] + Cardinality(ToSet(keys) \ {a}) IN
  /\ marked' = after[Len(keys)].set
  /\ marks' = after[Len(keys)].order
  /\ asked' = asked \cup {a \in ToSet(keys) \cap CloudAttempt : cloudTask[a] \notin CloudEnded}
  /\ newer' = [a \in CloudAttempt |-> IF a \notin asked' THEN 0
                                     ELSE IF Others(a) < MaxTombstones THEN Others(a) ELSE MaxTombstones]

-----------------------------------------------------------------------------
(* transcribe(). *)

\* The credential is asked for, when the profile needs one.
CloudBegins(a) ==
  /\ cloudTask[a] = "new"
  /\ cloudTask' = [cloudTask EXCEPT ![a] = "secret"]
  /\ UNCHANGED <<request, active, marked, marks, cloudClose, asked, newer>>

CredentialFails(a) ==
  /\ cloudTask[a] = "secret"
  /\ cloudTask' = [cloudTask EXCEPT ![a] = "failed"]
  /\ UNCHANGED <<request, active, marked, marks, cloudClose, asked, newer>>

\* The coroutine ends: a tombstone turns any outcome into a cancellation and
\* is cleared.
CloudEnds(a, outcome) ==
  /\ cloudTask' = [cloudTask EXCEPT ![a] = IF a \in marked THEN "cancelled" ELSE outcome]
  /\ marked' = marked \ {a}

\* Mutated form: the tombstone is looked at only when the request returns.
CloudRegistersUnchecked(a) ==
  /\ cloudTask[a] = "secret"
  /\ IF cloudClose # "idle"
       THEN CloudEnds(a, "failed") /\ UNCHANGED active
       ELSE /\ cloudTask' = [cloudTask EXCEPT ![a] = "starting"]
            /\ active' = active \cup {a}
            /\ marked' = marked \ {a}
  /\ UNCHANGED <<request, marks, cloudClose, asked, newer>>

\* The credential is there: the tombstone is checked and the call registered.
\* A cancel runs on the same loop and cannot come in between.
CloudRegisters(a) ==
  /\ cloudTask[a] = "secret"
  /\ IF a \in marked \/ cloudClose # "idle"
       THEN CloudEnds(a, "failed") /\ UNCHANGED active
       ELSE /\ cloudTask' = [cloudTask EXCEPT ![a] = "starting"]
            /\ active' = active \cup {a}
            /\ UNCHANGED marked
  /\ UNCHANGED <<request, marks, cloudClose, asked, newer>>

\* Thread.start() succeeds, or fails and the coroutine debits the call.
CloudStarts(a) ==
  /\ cloudTask[a] = "starting"
  /\ \/ /\ cloudTask' = [cloudTask EXCEPT ![a] = "waiting"]
        /\ request' = [request EXCEPT ![a] = "running"]
        /\ UNCHANGED <<active, marked>>
     \/ /\ CloudEnds(a, "failed")
        /\ active' = active \ {a}
        /\ UNCHANGED request
  /\ UNCHANGED <<marks, cloudClose, asked, newer>>

\* The request returns or raises, the outcome is posted to the event loop, ...
RequestReturns(a) ==
  /\ request[a] = "running"
  /\ request' = [request EXCEPT ![a] = "posted"]
  /\ UNCHANGED <<cloudTask, active, marked, marks, cloudClose, asked, newer>>

\* ... and _finish_native_call debits the call.
RequestFinishes(a) ==
  /\ request[a] = "posted"
  /\ request' = [request EXCEPT ![a] = "ended"]
  /\ active' = active \ {a}
  /\ UNCHANGED <<cloudTask, marked, marks, cloudClose, asked, newer>>

\* The coroutine goes on with the result or the exception.
CloudResumes(a) ==
  /\ cloudTask[a] = "waiting" /\ request[a] \in {"posted", "ended"}
  /\ \E outcome \in {"transcript", "failed"} : CloudEnds(a, outcome)
  /\ UNCHANGED <<request, active, marks, cloudClose, asked, newer>>

\* asyncio cancels the task: nothing is cleared.
CloudAbandons(a) ==
  /\ cloudTask[a] \in {"secret", "waiting"}
  /\ cloudTask' = [cloudTask EXCEPT ![a] = "abandoned"]
  /\ UNCHANGED <<request, active, marked, marks, cloudClose, asked, newer>>

-----------------------------------------------------------------------------
\* cancel_attempt(), which the router calls for the attempts of both adapters.
CloudCancel(x) ==
  /\ RememberAll(<<x>>)
  /\ UNCHANGED <<cloudTask, request, active, cloudClose>>

\* close() marks the active attempts, in the order of a set, ...
CloudClose ==
  /\ cloudClose = "idle"
  /\ cloudClose' = "waiting"
  /\ \E keys \in SetToSeqs(active) : RememberAll(keys)
  /\ UNCHANGED <<cloudTask, request, active>>

\* ... and waits until no call is active, or for close_wait_seconds.
CloudClosed ==
  /\ cloudClose = "waiting"
  /\ cloudClose' = "done"
  /\ UNCHANGED <<cloudTask, request, active, marked, marks, asked, newer>>

-----------------------------------------------------------------------------
CloudInit ==
  /\ cloudTask = [a \in CloudAttempt |-> "new"]
  /\ request = [a \in CloudAttempt |-> "none"]
  /\ active = {}
  /\ marked = {} /\ marks = <<>>
  /\ cloudClose = "idle"
  /\ asked = {} /\ newer = [a \in CloudAttempt |-> 0]

CloudNext ==
  \/ \E a \in CloudAttempt :
       \/ CloudBegins(a) \/ CredentialFails(a) \/ CloudRegisters(a) \/ CloudStarts(a)
       \/ RequestReturns(a) \/ RequestFinishes(a) \/ CloudResumes(a) \/ CloudAbandons(a)
  \/ \E x \in CloudAttempt \cup OtherAttempt : CloudCancel(x)
  \/ CloudClose \/ CloudClosed

CloudSpec == CloudInit /\ [][CloudNext]_cloudVars

-----------------------------------------------------------------------------
(* Properties. *)

CloudTypeOK ==
  /\ cloudTask \in [CloudAttempt -> {"new", "secret", "starting", "waiting"} \cup CloudEnded]
  /\ request \in [CloudAttempt -> {"none", "running", "posted", "ended"}]
  /\ active \subseteq CloudAttempt
  /\ marked \subseteq CloudAttempt \cup OtherAttempt
  /\ marks \in Seq(CloudAttempt \cup OtherAttempt) /\ Len(marks) <= MaxTombstones
  /\ marked \subseteq ToSet(marks)
  /\ cloudClose \in {"idle", "waiting", "done"}
  /\ asked \subseteq CloudAttempt
  /\ newer \in [CloudAttempt -> 0 .. MaxTombstones]

\* An attempt that was cancelled, or whose call was in flight when the
\* adapter closed, returns no transcript however late the endpoint answers,
\* as long as fewer than MaxTombstones cancels of others have followed.
NoTranscriptAfterCancel ==
  \A a \in asked : cloudTask[a] = "transcript" => newer[a] >= MaxTombstones
=============================================================================
