------------------------- MODULE LocalTranscriber -------------------------
(***************************************************************************)
(* pipeline/chunked_local.py: every local transcription runs on a daemon   *)
(* thread of its own, on the GPU through the shared dispatcher or on the   *)
(* CPU.  close() has to end the calls before it closes the dispatcher they *)
(* may be waiting for, waits a bounded time, and leaves the rest to the    *)
(* last call that returns.                                                 *)
(*                                                                         *)
(* The lifecycle lock makes each critical section an action.  An attempt   *)
(* is transcribed by one call (WorkflowSupervisor, ExecutionOwnership), so *)
(* the tokens, their count and the active attempts are one set.  The       *)
(* tests close from another thread while the event loop goes on, so        *)
(* closers are processes of their own.                                     *)
(***************************************************************************)
EXTENDS Naturals, FiniteSets

CONSTANTS
  LocalAttempt,  \* the attempts transcribed by this adapter
  Closer         \* threads that call close()

VARIABLES
  localTask,         \* the awaiting coroutine: "new", "waiting", "answered",
                     \* "refused", or "abandoned" by an asyncio cancel
  native,            \* its thread: "none", "reserved", "running", "posted",
                     \* "closing" the dispatcher, "ended"
  calls,             \* _active_call_tokens, _active_attempts, _active_sync_calls
  localCancelled,    \* _cancelled_attempts
  forwarding,        \* cancel_attempt has left the lock and not reached the dispatcher
  stale,             \* attempts the dispatcher was told to cancel
  closer,            \* "idle", "cancelling", "waiting", "closing", "done"
  toCancel,          \* the snapshot of active attempts each close() goes through
  localClosing,      \* _closing
  deferred,          \* _deferred_dispatcher_close
  closeStarted,      \* _dispatcher_close_started
  dispatcherClosed,  \* _dispatcher_closed and _closed
  closes             \* history: calls of the dispatcher's close

localCalls == <<localTask, native, calls>>
localCancels == <<localCancelled, forwarding, stale>>
localClose == <<closer, toCancel, localClosing, deferred, closeStarted, dispatcherClosed, closes>>
localVars == <<localCalls, localCancels, localClose>>

-----------------------------------------------------------------------------
(* transcribe(). *)

\* Mutated form: a call is accepted after close() took its snapshot.
MayRegisterUnlessClosed == ~dispatcherClosed

MayRegister == ~localClosing /\ ~dispatcherClosed

Register(a) ==
  /\ localTask[a] = "new"
  /\ IF MayRegister
       THEN /\ localTask' = [localTask EXCEPT ![a] = "waiting"]
            /\ native' = [native EXCEPT ![a] = "reserved"]
            /\ calls' = calls \cup {a}
       ELSE localTask' = [localTask EXCEPT ![a] = "refused"] /\ UNCHANGED <<native, calls>>
  /\ UNCHANGED <<localCancels, localClose>>

\* Thread.start() succeeds, or fails and the coroutine itself debits the call.
StartThread(a) ==
  /\ native[a] = "reserved"
  /\ \/ native' = [native EXCEPT ![a] = "running"] /\ UNCHANGED localTask
     \/ /\ native' = [native EXCEPT ![a] = "posted"]
        /\ localTask' = [localTask EXCEPT ![a] = "refused"]
  /\ UNCHANGED <<calls, localCancels, localClose>>

\* The native transcription returns or raises, and its outcome is posted to
\* the event loop.
NativeReturns(a) ==
  /\ native[a] = "running"
  /\ native' = [native EXCEPT ![a] = "posted"]
  /\ UNCHANGED <<localTask, calls, localCancels, localClose>>

\* Mutated form: the last call does not take over a close that timed out.
LastOutNever(remaining) == FALSE

LastOut(remaining) == remaining = {} /\ localClosing /\ deferred /\ ~closeStarted

\* _finish_native_call.
Finish(a) ==
  LET remaining == calls \ {a} IN
  /\ native[a] = "posted"
  /\ calls' = remaining
  /\ localCancelled' = localCancelled \ {a}
  /\ native' = [native EXCEPT ![a] = IF LastOut(remaining) THEN "closing" ELSE "ended"]
  /\ closeStarted' = (closeStarted \/ LastOut(remaining))
  /\ UNCHANGED <<localTask, forwarding, stale, closer, toCancel, localClosing, deferred,
                 dispatcherClosed, closes>>

\* _close_dispatcher_once.
DispatcherCloses ==
  /\ closes' = closes + 1
  /\ dispatcherClosed' = TRUE
  /\ deferred' = FALSE

NativeCloses(a) ==
  /\ native[a] = "closing"
  /\ native' = [native EXCEPT ![a] = "ended"]
  /\ DispatcherCloses
  /\ UNCHANGED <<localTask, calls, localCancels, closer, toCancel, localClosing, closeStarted>>

\* The event loop resolves the future unless the task was cancelled.
Deliver(a) ==
  /\ localTask[a] = "waiting" /\ native[a] \in {"posted", "closing", "ended"}
  /\ localTask' = [localTask EXCEPT ![a] = "answered"]
  /\ UNCHANGED <<native, calls, localCancels, localClose>>

\* The worker task is cancelled at the await; the call goes on.
Abandon(a) ==
  /\ localTask[a] = "waiting" /\ native[a] # "reserved"
  /\ localTask' = [localTask EXCEPT ![a] = "abandoned"]
  /\ UNCHANGED <<native, calls, localCancels, localClose>>

-----------------------------------------------------------------------------
(* cancel_attempt(): the attempt is marked under the lock, and then the     *)
(* dispatcher is told, under its own lock.                                  *)

CancelLocal(a) ==
  /\ localCancelled' = localCancelled \cup {a}
  /\ forwarding' = forwarding \cup {a}
  /\ UNCHANGED <<stale, localCalls, localClose>>

ForwardCancel(a) ==
  /\ a \in forwarding
  /\ forwarding' = forwarding \ {a}
  /\ stale' = stale \cup {a}
  /\ UNCHANGED <<localCancelled, localCalls, localClose>>

-----------------------------------------------------------------------------
(* close(). *)

CloseBegins(c) ==
  /\ closer[c] = "idle"
  /\ IF dispatcherClosed
       THEN closer' = [closer EXCEPT ![c] = "done"] /\ UNCHANGED <<toCancel, localClosing>>
       ELSE /\ closer' = [closer EXCEPT ![c] = "cancelling"]
            /\ toCancel' = [toCancel EXCEPT ![c] = calls]
            /\ localClosing' = TRUE
  /\ UNCHANGED <<localCalls, localCancels, deferred, closeStarted, dispatcherClosed, closes>>

\* One attempt of the snapshot.  A call that finishes between the check and
\* the two marks has the effect of one that finishes before or after them.
CloseCancels(c, a) ==
  /\ closer[c] = "cancelling" /\ a \in toCancel[c]
  /\ toCancel' = [toCancel EXCEPT ![c] = @ \ {a}]
  /\ IF a \in localCancelled
       THEN UNCHANGED <<localCancelled, stale>>
       ELSE localCancelled' = localCancelled \cup {a} /\ stale' = stale \cup {a}
  /\ UNCHANGED <<forwarding, localCalls, closer, localClosing, deferred, closeStarted,
                 dispatcherClosed, closes>>

\* Mutated form: a closer that is woken closes the dispatcher in any case.
NoCallLeftUnguarded(c) == closer' = [closer EXCEPT ![c] = "closing"] /\ closeStarted' = TRUE

\* No call is active: whoever is first closes the dispatcher.
NoCallLeft(c) ==
  /\ closer' = [closer EXCEPT ![c] = IF closeStarted THEN "done" ELSE "closing"]
  /\ closeStarted' = TRUE

CloseWaits(c) ==
  /\ \/ closer[c] = "cancelling" /\ toCancel[c] = {}
     \/ closer[c] = "waiting" /\ calls = {}
  /\ \/ calls = {} /\ NoCallLeft(c)
     \/ calls # {} /\ closer' = [closer EXCEPT ![c] = "waiting"] /\ UNCHANGED closeStarted
  /\ UNCHANGED <<localCalls, localCancels, toCancel, localClosing, deferred, dispatcherClosed, closes>>

\* close_wait_seconds have passed and a call is still active.
CloseTimesOut(c) ==
  /\ closer[c] = "waiting" /\ calls # {}
  /\ closer' = [closer EXCEPT ![c] = "done"]
  /\ deferred' = TRUE
  /\ UNCHANGED <<localCalls, localCancels, toCancel, localClosing, closeStarted, dispatcherClosed, closes>>

CloserCloses(c) ==
  /\ closer[c] = "closing"
  /\ closer' = [closer EXCEPT ![c] = "done"]
  /\ DispatcherCloses
  /\ UNCHANGED <<localCalls, localCancels, toCancel, localClosing, closeStarted>>

-----------------------------------------------------------------------------
LocalInit ==
  /\ localTask = [a \in LocalAttempt |-> "new"]
  /\ native = [a \in LocalAttempt |-> "none"]
  /\ calls = {}
  /\ localCancelled = {} /\ forwarding = {} /\ stale = {}
  /\ closer = [c \in Closer |-> "idle"]
  /\ toCancel = [c \in Closer |-> {}]
  /\ localClosing = FALSE /\ deferred = FALSE
  /\ closeStarted = FALSE /\ dispatcherClosed = FALSE
  /\ closes = 0

NativeStep(a) == StartThread(a) \/ NativeReturns(a) \/ Finish(a) \/ NativeCloses(a)

CloserStep(c) ==
  CloseWaits(c) \/ CloserCloses(c) \/ CloseTimesOut(c) \/ \E a \in LocalAttempt : CloseCancels(c, a)

LocalNext ==
  \/ \E a \in LocalAttempt :
       Register(a) \/ NativeStep(a) \/ Deliver(a) \/ Abandon(a) \/ CancelLocal(a) \/ ForwardCancel(a)
  \/ \E c \in Closer : CloseBegins(c) \/ CloserStep(c)

LocalSpec == LocalInit /\ [][LocalNext]_localVars

-----------------------------------------------------------------------------
(* Properties. *)

LocalTypeOK ==
  /\ localTask \in [LocalAttempt -> {"new", "waiting", "answered", "refused", "abandoned"}]
  /\ native \in [LocalAttempt -> {"none", "reserved", "running", "posted", "closing", "ended"}]
  /\ calls \subseteq LocalAttempt
  /\ localCancelled \subseteq LocalAttempt
  /\ forwarding \subseteq LocalAttempt
  /\ stale \subseteq LocalAttempt
  /\ closer \in [Closer -> {"idle", "cancelling", "waiting", "closing", "done"}]
  /\ toCancel \in [Closer -> SUBSET LocalAttempt]
  /\ localClosing \in BOOLEAN
  /\ deferred \in BOOLEAN
  /\ closeStarted \in BOOLEAN
  /\ dispatcherClosed \in BOOLEAN
  /\ closes \in Nat

\* Once a close() waits or has given up waiting, every call that is still
\* active has been cancelled in the dispatcher, or its cancel is on the way:
\* it gets no result from a later batch, so the wait is for the batch in
\* flight at most.
ActiveCallsAreStale ==
  (\E c \in Closer : closer[c] = "waiting") \/ deferred => calls \subseteq stale \cup forwarding

\* The dispatcher is closed once, by a closer or by the last call, and only
\* when no native call can still be using it.
DispatcherOutlivesCalls ==
  /\ closes <= 1
  /\ closeStarted => calls = {}

\* A close() that began ends in a closed dispatcher, also when it timed out
\* and the last call returned later: the GPU model is not leaked.
DispatcherReleased == localClosing ~> dispatcherClosed
=============================================================================
