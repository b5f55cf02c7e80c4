--------------------------- MODULE SecretBroker ---------------------------
(***************************************************************************)
(* workflow/secrets.py and the BrokerSecretProvider of                     *)
(* supervisor/server.py: a call that needs a credential publishes a        *)
(* request and waits on a future with a timer; the desktop grants or       *)
(* rejects it, the supervisor cancels it, the shutdown cancels its task.   *)
(*                                                                         *)
(* Everything runs on one event loop, but what wakes a waiting coroutine   *)
(* and its going on are two steps, and any handler may run in between.     *)
(***************************************************************************)
CONSTANT Ask  \* the calls of provide(), each with a request id of its own

VARIABLES
  waiter,   \* the coroutine: "new", "waiting", woken as "granted", "errored" or
            \* "stopped" (its future was cancelled), and ended as "used", "raised"
            \* or "leaked" (publishing the request raised)
  open,     \* broker._requests
  grants,   \* broker._grants: the secrets held
  pending,  \* provider._pending and _pending_attempts
  expired   \* requests whose expires_at has passed

secretVars == <<waiter, open, grants, pending, expired>>

Woken == {"granted", "errored", "stopped"}
Done(r) == waiter[r] \in Woken

\* broker.revoke.
Revoke(r) == open' = open \ {r} /\ grants' = grants \ {r}

\* _validate_request, for the right identity.
Valid(r) == r \in open \ expired

Wake(r, how) == waiter' = [waiter EXCEPT ![r] = IF Done(r) THEN @ ELSE how]

-----------------------------------------------------------------------------
\* provide() up to the await.  on_request runs outside the try block: when it
\* raises, before it has published the request, nothing is removed.
Provide(r) ==
  /\ waiter[r] = "new"
  /\ open' = open \cup {r}
  /\ pending' = pending \cup {r}
  /\ \E result \in {"waiting", "leaked"} : waiter' = [waiter EXCEPT ![r] = result]
  /\ UNCHANGED <<grants, expired>>

\* The wall clock passes expires_at.
Expires(r) ==
  /\ waiter[r] # "new" /\ r \notin expired
  /\ expired' = expired \cup {r}
  /\ UNCHANGED <<waiter, open, grants, pending>>

\* The timer of wait_for, on the monotonic clock, cancels the future.
TimerFires(r) ==
  /\ waiter[r] = "waiting"
  /\ Wake(r, "stopped")
  /\ UNCHANGED <<open, grants, pending, expired>>

\* The worker task is cancelled while it waits.
TaskStopped(r) ==
  /\ waiter[r] = "waiting"
  /\ Wake(r, "stopped")
  /\ UNCHANGED <<open, grants, pending, expired>>

\* Mutated form: the expiry and the identity of a grant are not looked at.
GrantUnchecked(r) ==
  /\ waiter[r] \notin {"new", "leaked"}
  /\ grants' = grants \cup {r}
  /\ Wake(r, IF r \in pending THEN "granted" ELSE waiter[r])
  /\ UNCHANGED <<open, pending, expired>>

\* secret.provide with the right identity; any other is refused without effect.
\* The desktop knows the ids of the requests that were published.  The grant
\* is stored before it turns out that nothing is pending, and on_granted may
\* raise after it, which changes the answer and nothing here.
Grant(r) ==
  /\ waiter[r] \notin {"new", "leaked"}
  /\ Valid(r)
  /\ grants' = grants \cup {r}
  /\ IF r \in pending THEN Wake(r, "granted") ELSE UNCHANGED waiter
  /\ UNCHANGED <<open, pending, expired>>

\* secret.reject with the right identity.
Reject(r) ==
  /\ waiter[r] \notin {"new", "leaked"}
  /\ r \in pending /\ Valid(r)
  /\ Revoke(r)
  /\ Wake(r, "errored")
  /\ UNCHANGED <<pending, expired>>

\* provider.cancel_attempt, for the request of a workflow that is cancelled
\* while it waits for a secret.
CancelRequest(r) ==
  /\ r \in pending /\ waiter[r] # "leaked"
  /\ Revoke(r)
  /\ Wake(r, "errored")
  /\ UNCHANGED <<pending, expired>>

\* The coroutine goes on: the finally block, and the result or the exception.
GoesOn(r) ==
  /\ Done(r)
  /\ waiter' = [waiter EXCEPT ![r] = IF @ = "granted" THEN "used" ELSE "raised"]
  /\ pending' = pending \ {r}
  /\ Revoke(r)
  /\ UNCHANGED expired

-----------------------------------------------------------------------------
SecretInit ==
  /\ waiter = [r \in Ask |-> "new"]
  /\ open = {} /\ grants = {} /\ pending = {} /\ expired = {}

SecretNext ==
  \E r \in Ask :
    \/ Provide(r) \/ Expires(r) \/ TimerFires(r) \/ TaskStopped(r)
    \/ Grant(r) \/ Reject(r) \/ CancelRequest(r) \/ GoesOn(r)

SecretSpec == SecretInit /\ [][SecretNext]_secretVars

-----------------------------------------------------------------------------
(* Properties. *)

SecretTypeOK ==
  /\ waiter \in [Ask -> {"new", "waiting", "used", "raised", "leaked"} \cup Woken]
  /\ open \subseteq Ask
  /\ grants \subseteq Ask
  /\ pending \subseteq Ask
  /\ expired \subseteq Ask

\* The worker holds a secret only while the call it was granted for has not
\* gone on: not after a reject, a cancel, a timeout or a stop that raced the
\* grant, and never for a request whose publication failed.
SecretsAreTransient ==
  /\ grants \subseteq open /\ open \subseteq pending
  /\ \A r \in pending : waiter[r] \in {"waiting", "leaked"} \cup Woken
  /\ \A r \in grants : waiter[r] # "leaked"
=============================================================================
