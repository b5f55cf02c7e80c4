--------------------------- MODULE Adapters_proofs ---------------------------
(***************************************************************************)
(* Proofs about the adapters that a transcription goes through and the     *)
(* broker of their credentials, for any number of attempts, of threads     *)
(* that call close(), of tombstones and of credential calls.               *)
(***************************************************************************)
EXTENDS LocalTranscriber, CloudTranscriber, SecretBroker,
        WellFoundedInduction, SequenceTheorems, FiniteSetTheorems, TLAPS

-----------------------------------------------------------------------------
(* The local transcriber: the dispatcher is closed at most once and after  *)
(* the last native call, and a close() never waits for a call that was not *)
(* cancelled.                                                              *)

\* A close() in progress has set the flag, so no call is registered any more.
ClosingIsFlagged ==
  /\ \A c \in Closer : closer[c] \in {"cancelling", "waiting", "closing"} => localClosing
  /\ deferred \/ closeStarted => localClosing

\* Whoever claimed the dispatcher's close is the only one, and has not called
\* it yet.
OneClaim ==
  /\ \A a \in LocalAttempt : native[a] = "closing" => closeStarted /\ closes = 0
  /\ \A c \in Closer : closer[c] = "closing" => closeStarted /\ closes = 0
  /\ \A a, b \in LocalAttempt : native[a] = "closing" /\ native[b] = "closing" => a = b
  /\ \A c, d \in Closer : closer[c] = "closing" /\ closer[d] = "closing" => c = d
  /\ \A a \in LocalAttempt, c \in Closer : ~(native[a] = "closing" /\ closer[c] = "closing")
  /\ ~closeStarted => closes = 0

\* What a close() has gone through is cancelled in the dispatcher, or about to be.
CancelsReach ==
  /\ localCancelled \subseteq stale \cup forwarding
  /\ \A c \in Closer : closer[c] = "cancelling" => calls \ toCancel[c] \subseteq stale \cup forwarding

LInv ==
  /\ LocalTypeOK
  /\ ClosingIsFlagged
  /\ OneClaim
  /\ CancelsReach
  /\ ActiveCallsAreStale
  /\ DispatcherOutlivesCalls

LEMMA LocalInitInv == LocalInit => LInv
<1> SUFFICES ASSUME LocalInit PROVE LInv
  OBVIOUS
<1>1. LocalTypeOK
  BY DEF LocalInit, LocalTypeOK
<1>2. /\ \A a \in LocalAttempt : native[a] = "none"
      /\ \A c \in Closer : closer[c] = "idle"
  BY DEF LocalInit
<1>3. ClosingIsFlagged /\ OneClaim
  BY <1>2 DEF LocalInit, ClosingIsFlagged, OneClaim
<1>4. CancelsReach /\ ActiveCallsAreStale /\ DispatcherOutlivesCalls
  BY <1>2 DEF LocalInit, CancelsReach, ActiveCallsAreStale, DispatcherOutlivesCalls
<1>. QED BY <1>1, <1>3, <1>4 DEF LInv

\* A call is registered only while no close() has begun.
LEMMA RegisterInv ==
  ASSUME LInv, NEW a \in LocalAttempt, Register(a)
  PROVE  LInv'
<1> USE DEF Register, MayRegister, localCancels, localClose
<1>1. CASE MayRegister
  <2>1. LocalTypeOK'
    BY <1>1 DEF LInv, LocalTypeOK
  <2>2. /\ ~deferred /\ ~closeStarted
        /\ \A c \in Closer : closer[c] \notin {"cancelling", "waiting", "closing"}
    BY <1>1 DEF LInv, LocalTypeOK, ClosingIsFlagged
  <2>3. ClosingIsFlagged' /\ CancelsReach' /\ ActiveCallsAreStale' /\ DispatcherOutlivesCalls'
    BY <1>1, <2>2
    DEF LInv, ClosingIsFlagged, CancelsReach, ActiveCallsAreStale, DispatcherOutlivesCalls
  <2>4. OneClaim'
    BY <1>1, <2>2 DEF LInv, LocalTypeOK, OneClaim
  <2>. QED BY <2>1, <2>3, <2>4 DEF LInv
<1>2. CASE ~MayRegister
  BY <1>2
  DEF LInv, LocalTypeOK, ClosingIsFlagged, OneClaim, CancelsReach, ActiveCallsAreStale,
      DispatcherOutlivesCalls
<1>. QED BY <1>1, <1>2

LEMMA LocalCallInv ==
  ASSUME LInv, NEW a \in LocalAttempt,
         StartThread(a) \/ NativeReturns(a) \/ Deliver(a) \/ Abandon(a)
  PROVE  LInv'
<1>1. /\ UNCHANGED <<calls, localCancels, localClose>>
      /\ \/ native' = native
         \/ native' = [native EXCEPT ![a] = "running"]
         \/ native' = [native EXCEPT ![a] = "posted"]
  BY DEF StartThread, NativeReturns, Deliver, Abandon
<1>2. localTask' \in [LocalAttempt -> {"new", "waiting", "answered", "refused", "abandoned"}]
  BY DEF LInv, LocalTypeOK, StartThread, NativeReturns, Deliver, Abandon
<1>3. LocalTypeOK'
  BY <1>1, <1>2 DEF LInv, LocalTypeOK, localCancels, localClose
<1>4. \A b \in LocalAttempt : native'[b] = "closing" => native[b] = "closing"
  BY <1>1 DEF LInv, LocalTypeOK
<1>. QED
  BY <1>1, <1>3, <1>4
  DEF LInv, ClosingIsFlagged, OneClaim, CancelsReach, ActiveCallsAreStale,
      DispatcherOutlivesCalls, localCancels, localClose

\* The last call out takes over the close only when nobody has claimed it.
LEMMA FinishInv ==
  ASSUME LInv, NEW a \in LocalAttempt, Finish(a)
  PROVE  LInv'
<1> DEFINE last == LastOut(calls \ {a})
<1>1. /\ native' = [native EXCEPT ![a] = IF last THEN "closing" ELSE "ended"]
      /\ closeStarted' = (closeStarted \/ last)
      /\ calls' = calls \ {a} /\ localCancelled' = localCancelled \ {a}
      /\ UNCHANGED <<localTask, forwarding, stale, closer, toCancel, localClosing, deferred,
                     dispatcherClosed, closes>>
  BY DEF Finish
<1>2. last \in BOOLEAN /\ (last => calls \ {a} = {} /\ localClosing /\ ~closeStarted)
  BY DEF LastOut, LInv, LocalTypeOK
<1>3. LocalTypeOK'
  <2>1. native' \in [LocalAttempt -> {"none", "reserved", "running", "posted", "closing", "ended"}]
    BY <1>1, <1>2 DEF LInv, LocalTypeOK
  <2>. QED BY <1>1, <1>2, <2>1 DEF LInv, LocalTypeOK
<1>4. OneClaim'
  <2>1. CASE last
    <3>1. /\ closes = 0 /\ \A b \in LocalAttempt : native[b] # "closing"
          /\ \A c \in Closer : closer[c] # "closing"
      BY <1>2, <2>1 DEF LInv, OneClaim
    <3>2. \A b \in LocalAttempt : native'[b] = "closing" => b = a
      BY <1>1, <3>1 DEF LInv, LocalTypeOK
    <3>. QED BY <1>1, <2>1, <3>1, <3>2 DEF OneClaim
  <2>2. CASE ~last
    <3>1. \A b \in LocalAttempt : native'[b] = "closing" => native[b] = "closing"
      BY <1>1, <2>2 DEF LInv, LocalTypeOK
    <3>. QED BY <1>1, <1>2, <2>2, <3>1 DEF LInv, LocalTypeOK, OneClaim
  <2>. QED BY <1>2, <2>1, <2>2
<1>5. ClosingIsFlagged'
  BY <1>1, <1>2 DEF LInv, LocalTypeOK, ClosingIsFlagged
<1>6. CancelsReach' /\ ActiveCallsAreStale'
  BY <1>1 DEF LInv, CancelsReach, ActiveCallsAreStale
<1>7. DispatcherOutlivesCalls'
  BY <1>1, <1>2 DEF LInv, LocalTypeOK, DispatcherOutlivesCalls
<1>. QED BY <1>3, <1>4, <1>5, <1>6, <1>7 DEF LInv

\* Calling the dispatcher's close uses up the claim.
LEMMA DispatcherClosesInv ==
  ASSUME LInv, DispatcherCloses, closeStarted, closes = 0,
         native' \in [LocalAttempt -> {"none", "reserved", "running", "posted", "closing", "ended"}],
         closer' \in [Closer -> {"idle", "cancelling", "waiting", "closing", "done"}],
         \A b \in LocalAttempt : native'[b] # "closing",
         \A d \in Closer : closer'[d] \in {closer[d], "done"} \ {"closing"},
         UNCHANGED <<localTask, calls, localCancels, toCancel, localClosing, closeStarted>>
  PROVE  LInv'
<1> USE DEF DispatcherCloses, localCancels
<1>1. closes' = 1
  OBVIOUS
<1>2. LocalTypeOK'
  <2>1. /\ localTask' = localTask /\ calls' = calls /\ localCancelled' = localCancelled
        /\ forwarding' = forwarding /\ stale' = stale /\ toCancel' = toCancel
        /\ localClosing' = localClosing /\ closeStarted' = closeStarted
        /\ dispatcherClosed' = TRUE /\ deferred' = FALSE
    OBVIOUS
  <2>2. LocalTypeOK
    BY DEF LInv
  <2>3. localClosing' \in BOOLEAN /\ deferred' \in BOOLEAN /\ closeStarted' \in BOOLEAN
        /\ dispatcherClosed' \in BOOLEAN
    BY <2>1, <2>2, Zenon DEF LocalTypeOK
  <2>4. closes' \in Nat
    BY <1>1
  <2>5. /\ localTask' \in [LocalAttempt -> {"new", "waiting", "answered", "refused", "abandoned"}]
        /\ calls' \subseteq LocalAttempt /\ localCancelled' \subseteq LocalAttempt
        /\ forwarding' \subseteq LocalAttempt /\ stale' \subseteq LocalAttempt
        /\ toCancel' \in [Closer -> SUBSET LocalAttempt]
    BY <2>1, <2>2 DEF LocalTypeOK
  <2>. QED BY <2>3, <2>4, <2>5, Zenon DEF LocalTypeOK
<1>3. OneClaim' /\ DispatcherOutlivesCalls'
  BY <1>1 DEF LInv, OneClaim, DispatcherOutlivesCalls
<1>4. ClosingIsFlagged'
  BY DEF LInv, ClosingIsFlagged
<1>5. CancelsReach' /\ ActiveCallsAreStale'
  BY DEF LInv, CancelsReach, ActiveCallsAreStale
<1>. QED BY <1>2, <1>3, <1>4, <1>5 DEF LInv

LEMMA NativeClosesInv ==
  ASSUME LInv, NEW a \in LocalAttempt, NativeCloses(a)
  PROVE  LInv'
<1>1. closeStarted /\ closes = 0 /\ \A d \in Closer : closer[d] # "closing"
  BY DEF NativeCloses, LInv, OneClaim
<1>2. /\ native' \in [LocalAttempt -> {"none", "reserved", "running", "posted", "closing", "ended"}]
      /\ \A b \in LocalAttempt : native'[b] # "closing"
  BY DEF NativeCloses, LInv, LocalTypeOK, OneClaim
<1>3. /\ closer' \in [Closer -> {"idle", "cancelling", "waiting", "closing", "done"}]
      /\ \A d \in Closer : closer'[d] \in {closer[d], "done"} \ {"closing"}
  BY <1>1 DEF NativeCloses, LInv, LocalTypeOK
<1>. QED BY <1>1, <1>2, <1>3, DispatcherClosesInv DEF NativeCloses

LEMMA CloserClosesInv ==
  ASSUME LInv, NEW c \in Closer, CloserCloses(c)
  PROVE  LInv'
<1>1. closeStarted /\ closes = 0 /\ \A b \in LocalAttempt : native[b] # "closing"
  BY DEF CloserCloses, LInv, OneClaim
<1>2. /\ native' \in [LocalAttempt -> {"none", "reserved", "running", "posted", "closing", "ended"}]
      /\ \A b \in LocalAttempt : native'[b] # "closing"
  BY <1>1 DEF CloserCloses, localCalls, LInv, LocalTypeOK
<1>3. /\ closer' \in [Closer -> {"idle", "cancelling", "waiting", "closing", "done"}]
      /\ \A d \in Closer : closer'[d] \in {closer[d], "done"} \ {"closing"}
  BY DEF CloserCloses, LInv, LocalTypeOK, OneClaim
<1>. QED BY <1>1, <1>2, <1>3, DispatcherClosesInv DEF CloserCloses, localCalls

LEMMA CancelInv ==
  ASSUME LInv, NEW a \in LocalAttempt, CancelLocal(a) \/ ForwardCancel(a)
  PROVE  LInv'
  BY DEF CancelLocal, ForwardCancel, localCalls, localClose, LInv, LocalTypeOK, ClosingIsFlagged,
         OneClaim, CancelsReach, ActiveCallsAreStale, DispatcherOutlivesCalls

LEMMA CloseBeginsInv ==
  ASSUME LInv, NEW c \in Closer, CloseBegins(c)
  PROVE  LInv'
<1> USE DEF CloseBegins, localCalls, localCancels
<1>1. \/ closer' = [closer EXCEPT ![c] = "done"] /\ UNCHANGED <<toCancel, localClosing>>
      \/ /\ closer' = [closer EXCEPT ![c] = "cancelling"]
         /\ toCancel' = [toCancel EXCEPT ![c] = calls]
         /\ localClosing'
  OBVIOUS
<1>2. LocalTypeOK'
  BY DEF LInv, LocalTypeOK
<1>3. \A d \in Closer \ {c} : closer'[d] = closer[d] /\ toCancel'[d] = toCancel[d]
  BY <1>1 DEF LInv, LocalTypeOK
<1>4. closer'[c] \in {"cancelling", "done"} /\ (closer'[c] = "cancelling" => toCancel'[c] = calls)
  BY <1>1 DEF LInv, LocalTypeOK
<1>5. localClosing => localClosing'
  BY <1>1
<1>6. ClosingIsFlagged'
  BY <1>1, <1>3, <1>4, <1>5 DEF LInv, LocalTypeOK, ClosingIsFlagged
<1>7. OneClaim' /\ DispatcherOutlivesCalls'
  BY <1>3, <1>4 DEF LInv, OneClaim, DispatcherOutlivesCalls
<1>8. CancelsReach' /\ ActiveCallsAreStale'
  BY <1>3, <1>4 DEF LInv, CancelsReach, ActiveCallsAreStale
<1>. QED BY <1>2, <1>6, <1>7, <1>8 DEF LInv

LEMMA CloseCancelsInv ==
  ASSUME LInv, NEW c \in Closer, NEW a \in LocalAttempt, CloseCancels(c, a)
  PROVE  LInv'
<1> USE DEF CloseCancels, localCalls
<1>1. a \in stale' \cup forwarding'
  BY DEF LInv, CancelsReach
<1>2. stale \subseteq stale' /\ localCancelled' \subseteq stale' \cup forwarding'
  BY DEF LInv, CancelsReach
<1>3. LocalTypeOK'
  BY DEF LInv, LocalTypeOK
<1>4. \A d \in Closer : toCancel[d] \ {a} \subseteq toCancel'[d] /\ toCancel'[d] \subseteq toCancel[d]
  BY DEF LInv, LocalTypeOK
<1>5. CancelsReach' /\ ActiveCallsAreStale'
  BY <1>1, <1>2, <1>4 DEF LInv, CancelsReach, ActiveCallsAreStale
<1>6. ClosingIsFlagged' /\ OneClaim' /\ DispatcherOutlivesCalls'
  BY DEF LInv, ClosingIsFlagged, OneClaim, DispatcherOutlivesCalls
<1>. QED BY <1>3, <1>5, <1>6 DEF LInv

LEMMA CloseWaitsInv ==
  ASSUME LInv, NEW c \in Closer, CloseWaits(c)
  PROVE  LInv'
<1> USE DEF CloseWaits, localCalls, localCancels
<1>1. localClosing /\ calls \subseteq stale \cup forwarding
  BY DEF LInv, ClosingIsFlagged, CancelsReach, ActiveCallsAreStale
<1>2. CASE calls = {} /\ NoCallLeft(c)
  <2>1. LocalTypeOK'
    BY <1>2 DEF LInv, LocalTypeOK, NoCallLeft
  <2>2. \A d \in Closer \ {c} : closer'[d] = closer[d]
    BY <1>2 DEF LInv, LocalTypeOK, NoCallLeft
  <2>3. closer'[c] = IF closeStarted THEN "done" ELSE "closing"
    BY <1>2 DEF LInv, LocalTypeOK, NoCallLeft
  <2>4. OneClaim' /\ DispatcherOutlivesCalls'
    BY <1>2, <2>2, <2>3 DEF LInv, LocalTypeOK, NoCallLeft, OneClaim, DispatcherOutlivesCalls
  <2>5. ClosingIsFlagged' /\ CancelsReach' /\ ActiveCallsAreStale'
    BY <1>1, <1>2, <2>2, <2>3
    DEF LInv, NoCallLeft, ClosingIsFlagged, CancelsReach, ActiveCallsAreStale
  <2>. QED BY <2>1, <2>4, <2>5 DEF LInv
<1>3. CASE calls # {} /\ closer' = [closer EXCEPT ![c] = "waiting"] /\ UNCHANGED closeStarted
  <2>1. LocalTypeOK'
    BY <1>3 DEF LInv, LocalTypeOK
  <2>2. (\A d \in Closer \ {c} : closer'[d] = closer[d]) /\ closer'[c] = "waiting"
    BY <1>3 DEF LInv, LocalTypeOK
  <2>. QED
    BY <1>1, <1>3, <2>1, <2>2
    DEF LInv, ClosingIsFlagged, OneClaim, CancelsReach, ActiveCallsAreStale, DispatcherOutlivesCalls
<1>. QED BY <1>2, <1>3

LEMMA CloseTimesOutInv ==
  ASSUME LInv, NEW c \in Closer, CloseTimesOut(c)
  PROVE  LInv'
<1> USE DEF CloseTimesOut, localCalls, localCancels
<1>1. localClosing /\ calls \subseteq stale \cup forwarding
  BY DEF LInv, ClosingIsFlagged, ActiveCallsAreStale
<1>2. LocalTypeOK'
  BY DEF LInv, LocalTypeOK
<1>3. (\A d \in Closer \ {c} : closer'[d] = closer[d]) /\ closer'[c] = "done"
  BY DEF LInv, LocalTypeOK
<1>. QED
  BY <1>1, <1>2, <1>3
  DEF LInv, ClosingIsFlagged, OneClaim, CancelsReach, ActiveCallsAreStale, DispatcherOutlivesCalls

THEOREM LocalInvariant == LocalSpec => []LInv
<1>1. ASSUME LInv, [LocalNext]_localVars
      PROVE  LInv'
  <2>1. CASE UNCHANGED localVars
    BY <1>1, <2>1
    DEF localVars, localCalls, localCancels, localClose, LInv, LocalTypeOK, ClosingIsFlagged,
        OneClaim, CancelsReach, ActiveCallsAreStale, DispatcherOutlivesCalls
  <2>2. ASSUME NEW a \in LocalAttempt,
               \/ Register(a) \/ NativeStep(a) \/ Deliver(a) \/ Abandon(a)
               \/ CancelLocal(a) \/ ForwardCancel(a)
        PROVE  LInv'
    BY <1>1, <2>2, RegisterInv, LocalCallInv, FinishInv, NativeClosesInv, CancelInv DEF NativeStep
  <2>3. ASSUME NEW c \in Closer, CloseBegins(c) \/ CloserStep(c)
        PROVE  LInv'
    BY <1>1, <2>3, CloseBeginsInv, CloseCancelsInv, CloseWaitsInv, CloserClosesInv,
       CloseTimesOutInv DEF CloserStep
  <2>. QED BY <1>1, <2>1, <2>2, <2>3 DEF LocalNext
<1>. QED BY <1>1, LocalInitInv, PTL DEF LocalSpec

\* The dispatcher is closed at most once, and only when no native call can
\* still use it (chunked_local.py, close and _finish_native_call).
THEOREM DispatcherClosedLast == LocalSpec => []DispatcherOutlivesCalls
<1>1. LInv => DispatcherOutlivesCalls
  BY DEF LInv
<1>. QED BY <1>1, LocalInvariant, PTL

\* A close() that waits, or has given up waiting, has cancelled every call
\* that is still active.
THEOREM CloseWaitsForCancelled == LocalSpec => []ActiveCallsAreStale
<1>1. LInv => ActiveCallsAreStale
  BY DEF LInv
<1>. QED BY <1>1, LocalInvariant, PTL

-----------------------------------------------------------------------------
(* The secret broker: the worker holds a secret no longer than the call it *)
(* was granted for.                                                        *)

SInv == SecretTypeOK /\ SecretsAreTransient

LEMMA SecretInitInv == SecretInit => SInv
  BY DEF SecretInit, SInv, SecretTypeOK, SecretsAreTransient

\* Waking a coroutine that waits or was woken leaves it woken.
LEMMA WakeLemma ==
  ASSUME SecretTypeOK, NEW r \in Ask, NEW how \in Woken, Wake(r, how),
         waiter[r] \in {"waiting"} \cup Woken
  PROVE  /\ waiter' \in [Ask -> {"new", "waiting", "used", "raised", "leaked"} \cup Woken]
         /\ waiter'[r] \in Woken
         /\ \A s \in Ask \ {r} : waiter'[s] = waiter[s]
  BY DEF SecretTypeOK, Wake, Done, Woken

LEMMA ProvideInv ==
  ASSUME SInv, NEW r \in Ask, Provide(r)
  PROVE  SInv'
<1>1. PICK result \in {"waiting", "leaked"} : waiter' = [waiter EXCEPT ![r] = result]
  BY DEF Provide
<1>2. r \notin pending /\ r \notin open /\ r \notin grants
  BY DEF Provide, SInv, SecretTypeOK, SecretsAreTransient, Woken
<1>3. SecretTypeOK'
  BY <1>1 DEF Provide, SInv, SecretTypeOK
<1>4. SecretsAreTransient'
  BY <1>1, <1>2 DEF Provide, SInv, SecretTypeOK, SecretsAreTransient
<1>. QED BY <1>3, <1>4 DEF SInv

LEMMA WokenInv ==
  ASSUME SInv, NEW r \in Ask, TimerFires(r) \/ TaskStopped(r)
  PROVE  SInv'
<1>1. /\ "stopped" \in Woken /\ Wake(r, "stopped") /\ waiter[r] \in {"waiting"} \cup Woken
      /\ UNCHANGED <<open, grants, pending, expired>>
  BY DEF TimerFires, TaskStopped, Woken
<1>2. /\ waiter' \in [Ask -> {"new", "waiting", "used", "raised", "leaked"} \cup Woken]
      /\ waiter'[r] \in Woken
      /\ \A s \in Ask \ {r} : waiter'[s] = waiter[s]
  BY <1>1, WakeLemma DEF SInv
<1>3. SecretTypeOK'
  BY <1>1, <1>2 DEF SInv, SecretTypeOK
<1>4. waiter'[r] # "leaked"
  BY <1>2 DEF Woken
<1>5. SecretsAreTransient'
  BY <1>1, <1>2, <1>4 DEF SInv, SecretTypeOK, SecretsAreTransient
<1>. QED BY <1>3, <1>5 DEF SInv

\* A grant is stored only for an open request, whose coroutine has not gone on.
LEMMA GrantInv ==
  ASSUME SInv, NEW r \in Ask, Grant(r)
  PROVE  SInv'
<1>1. r \in open /\ r \in pending
  BY DEF Grant, Valid, SInv, SecretsAreTransient
<1>2. "granted" \in Woken /\ Wake(r, "granted") /\ waiter[r] \in {"waiting"} \cup Woken
  BY <1>1 DEF Grant, SInv, SecretsAreTransient, Woken
<1>3. waiter'[r] # "leaked"
  BY <1>2, WakeLemma DEF SInv, Woken
<1>. QED
  BY <1>1, <1>2, <1>3, WakeLemma DEF Grant, SInv, SecretTypeOK, SecretsAreTransient

LEMMA RefusedInv ==
  ASSUME SInv, NEW r \in Ask, Reject(r) \/ CancelRequest(r)
  PROVE  SInv'
<1>1. r \in pending /\ waiter[r] # "leaked" /\ Wake(r, "errored") /\ Revoke(r)
  BY DEF Reject, CancelRequest
<1>2. "errored" \in Woken /\ waiter[r] \in {"waiting"} \cup Woken
  BY <1>1 DEF SInv, SecretsAreTransient, Woken
<1>. QED
  BY <1>1, <1>2, WakeLemma
  DEF Reject, CancelRequest, Revoke, SInv, SecretTypeOK, SecretsAreTransient

LEMMA GoesOnInv ==
  ASSUME SInv, NEW r \in Ask, GoesOn(r)
  PROVE  SInv'
  BY DEF GoesOn, Done, Revoke, SInv, SecretTypeOK, SecretsAreTransient, Woken

\* The worker never keeps a secret whose call has gone on, and none for a
\* request that was never published (secrets.py, BrokerSecretProvider).
THEOREM SecretsDoNotLinger == SecretSpec => [](SecretTypeOK /\ SecretsAreTransient)
<1>1. ASSUME SInv, [SecretNext]_secretVars
      PROVE  SInv'
  <2>1. CASE UNCHANGED secretVars
    BY <1>1, <2>1 DEF secretVars, SInv, SecretTypeOK, SecretsAreTransient
  <2>2. ASSUME NEW r \in Ask, Expires(r)
        PROVE  SInv'
    BY <1>1, <2>2 DEF Expires, SInv, SecretTypeOK, SecretsAreTransient
  <2>. QED
    BY <1>1, <2>1, <2>2, ProvideInv, WokenInv, GrantInv, RefusedInv, GoesOnInv DEF SecretNext
<1>2. SInv => SecretTypeOK /\ SecretsAreTransient
  BY DEF SInv
<1>. QED BY <1>1, <1>2, SecretInitInv, PTL DEF SecretSpec

-----------------------------------------------------------------------------
(* The tombstones of the cloud transcriber.                                *)

Attempt == CloudAttempt \cup OtherAttempt

\* A set that contains 0 and the successor of each of its numbers contains
\* every natural number.
LEMMA NumberInduction ==
  ASSUME NEW S, 0 \in S, \A n \in Nat : n \in S => n + 1 \in S
  PROVE  \A n \in Nat : n \in S
<1> DEFINE Rest == Nat \ S
<1> SUFFICES ASSUME Rest # {} PROVE FALSE
  OBVIOUS
<1>1. PICK x \in Rest : \A y \in Rest : ~(<<y, x>> \in OpToRel(<, Nat))
  BY NatLessThanWellFounded, WFMin
<1>2. \A y \in Rest : ~(y < x)
  BY <1>1 DEF OpToRel
<1>3. x \in Nat /\ x # 0
  OBVIOUS
<1>4. x - 1 \in Nat /\ x - 1 < x /\ (x - 1) + 1 = x
  BY <1>3
<1>5. x - 1 \in S
  BY <1>2, <1>4
<1> QED BY <1>3, <1>4, <1>5

\* Attempt a has one tombstone, after which at most n others were put.
Held(set, order, a, n) ==
  /\ a \in set
  /\ \E i \in 1 .. Len(order) : /\ order[i] = a /\ Len(order) - i <= n
                                /\ \A j \in 1 .. Len(order) : order[j] = a => j = i

\* It has never had one.
Absent(set, order, a) == a \notin set /\ \A j \in 1 .. Len(order) : order[j] # a

\* The table is bounded, and every tombstone has its entry in the order.
TableOK(set, order) ==
  /\ set \in SUBSET Attempt /\ order \in Seq(Attempt) /\ Len(order) <= MaxTombstones
  /\ \A a \in set : \E i \in 1 .. Len(order) : order[i] = a

CloudShape ==
  /\ cloudTask \in [CloudAttempt -> {"new", "secret", "starting", "waiting"} \cup CloudEnded]
  /\ request \in [CloudAttempt -> {"none", "running", "posted", "ended"}]
  /\ active \in SUBSET CloudAttempt /\ IsFiniteSet(active)
  /\ cloudClose \in {"idle", "waiting", "done"}
  /\ asked \in SUBSET CloudAttempt
  /\ newer \in [CloudAttempt -> 0 .. MaxTombstones]

\* Until its coroutine has ended, an attempt that was cancelled keeps its
\* tombstone while fewer than MaxTombstones others are cancelled, and one that
\* was not never had any.
TombstoneKept ==
  \A a \in CloudAttempt : cloudTask[a] \notin CloudEnded =>
    IF a \in asked THEN newer[a] < MaxTombstones => Held(marked, marks, a, newer[a])
    ELSE newer[a] = 0 /\ Absent(marked, marks, a)

CloudInv == CloudShape /\ TableOK(marked, marks) /\ TombstoneKept /\ NoTranscriptAfterCancel

\* Remembering one key.
LEMMA RememberLemma ==
  ASSUME NEW set, NEW order, NEW x \in Attempt, TableOK(set, order)
  PROVE  LET r == Remember(set, order, x) IN
         /\ TableOK(r.set, r.order)
         /\ \A a \in Attempt, n \in Nat : Held(set, order, a, n) =>
              IF a = x THEN Held(r.set, r.order, a, n)
              ELSE n + 1 < MaxTombstones => Held(r.set, r.order, a, n + 1)
         /\ \A a \in Attempt : Absent(set, order, a) =>
              IF a = x THEN Held(r.set, r.order, a, 0) ELSE Absent(r.set, r.order, a)
<1> DEFINE r == Remember(set, order, x)
           len == Len(order)
           longer == Append(order, x)
<1>0. MaxTombstones \in Nat /\ MaxTombstones >= 1
  BY CloudAssumption
<1>1. set \in SUBSET Attempt /\ order \in Seq(Attempt) /\ len \in Nat /\ len <= MaxTombstones
  BY DEF TableOK
<1>2. \A a \in set : \E i \in 1 .. len : order[i] = a
  BY DEF TableOK
<1>3. CASE x \in set
  <2>1. r.set = set /\ r.order = order
    BY <1>3 DEF Remember
  <2>2. \A a \in Attempt, n \in Nat : Held(set, order, a, n) => Held(set, order, a, n + 1)
    BY <1>1 DEF Held
  <2>3. \A a \in Attempt : Absent(set, order, a) => a # x
    BY <1>3 DEF Absent
  <2> HIDE DEF r
  <2> QED BY <2>1, <2>2, <2>3 DEF r
<1>4. CASE x \notin set
  <2>1. /\ longer \in Seq(Attempt) /\ Len(longer) = len + 1
        /\ \A i \in 1 .. len + 1 : longer[i] = IF i = len + 1 THEN x ELSE order[i]
    BY <1>1
  <2>2. CASE len + 1 <= MaxTombstones
    <3>1. r.set = set \cup {x} /\ r.order = longer
      BY <1>4, <2>1, <2>2 DEF Remember
    <3> HIDE DEF r, longer, len
    <3>2. TableOK(set \cup {x}, longer)
      <4>1. \A a \in set \cup {x} : \E i \in 1 .. len + 1 : longer[i] = a
        BY <1>1, <1>2, <2>1
      <4> QED BY <1>1, <2>1, <2>2, <4>1 DEF TableOK
    <3>3. ASSUME NEW a \in Attempt, NEW n \in Nat, Held(set, order, a, n)
          PROVE  a # x /\ Held(set \cup {x}, longer, a, n + 1)
      <4>1. a \in set /\ a # x
        BY <1>4, <3>3 DEF Held
      <4>2. PICK i \in 1 .. len : order[i] = a /\ len - i <= n /\ \A j \in 1 .. len : order[j] = a => j = i
        BY <3>3 DEF Held, len
      <4>3. i \in 1 .. len + 1 /\ (len + 1) - i <= n + 1
        BY <1>1, <4>2
      <4>4. longer[i] = a /\ \A j \in 1 .. len + 1 : longer[j] = a => j = i
        BY <1>1, <2>1, <4>1, <4>2
      <4> QED BY <2>1, <4>1, <4>3, <4>4 DEF Held
    <3>4. ASSUME NEW a \in Attempt, Absent(set, order, a)
          PROVE  IF a = x THEN Held(set \cup {x}, longer, a, 0) ELSE Absent(set \cup {x}, longer, a)
      <4>1. a \notin set /\ \A j \in 1 .. len : order[j] # a
        BY <3>4 DEF Absent, len
      <4>2. CASE a = x
        <5>1. len + 1 \in 1 .. len + 1 /\ (len + 1) - (len + 1) <= 0 /\ longer[len + 1] = a
          BY <1>1, <2>1, <4>2
        <5>2. \A j \in 1 .. len + 1 : longer[j] = a => j = len + 1
          BY <1>1, <2>1, <4>1
        <5> QED BY <2>1, <4>2, <5>1, <5>2 DEF Held
      <4>3. CASE a # x
        <5>1. \A j \in 1 .. len + 1 : longer[j] # a
          BY <1>1, <2>1, <4>1, <4>3
        <5> QED BY <2>1, <4>1, <4>3, <5>1 DEF Absent
      <4> QED BY <4>2, <4>3
    <3> QED BY <3>1, <3>2, <3>3, <3>4 DEF r
  <2>3. CASE ~(len + 1 <= MaxTombstones)
    <3> DEFINE kept == Tail(longer)
               left == (set \cup {x}) \ {Head(longer)}
    <3>0. len = MaxTombstones /\ len >= 1
      BY <1>0, <1>1, <2>3
    <3>1. r.set = left /\ r.order = kept
      BY <1>4, <2>1, <2>3 DEF Remember
    <3>2. Head(longer) = order[1] /\ kept \in Seq(Attempt) /\ Len(kept) = len
      BY <1>1, <2>1, <3>0
    <3>3. \A i \in 1 .. len : kept[i] = IF i = len THEN x ELSE order[i + 1]
      <4> SUFFICES ASSUME NEW i \in 1 .. len PROVE kept[i] = IF i = len THEN x ELSE order[i + 1]
        OBVIOUS
      <4>1. i + 1 \in 1 .. len + 1 /\ (i + 1 = len + 1 <=> i = len)
        BY <1>1
      <4>2. kept[i] = longer[i + 1]
        BY <1>1, <2>1, <3>0
      <4> QED BY <2>1, <4>1, <4>2
    <3> HIDE DEF r, longer, len, kept
    <3>4. TableOK(left, kept)
      <4>1. ASSUME NEW a \in left PROVE \E i \in 1 .. len : kept[i] = a
        <5>1. CASE a = x
          <6>1. len \in 1 .. len
            BY <1>1, <3>0
          <6> QED BY <3>3, <5>1, <6>1
        <5>2. CASE a # x
          <6>1. PICK i \in 1 .. len : order[i] = a
            BY <1>2, <4>1, <5>2
          <6>2. i # 1
            BY <3>2, <4>1, <6>1
          <6>3. i - 1 \in 1 .. len /\ i - 1 # len /\ (i - 1) + 1 = i
            BY <1>1, <6>1, <6>2
          <6> QED BY <3>3, <6>1, <6>3
        <5> QED BY <5>1, <5>2
      <4> QED BY <1>1, <3>0, <3>2, <4>1 DEF TableOK
    <3>5. ASSUME NEW a \in Attempt, NEW n \in Nat, Held(set, order, a, n)
          PROVE  a # x /\ (n + 1 < MaxTombstones => Held(left, kept, a, n + 1))
      <4>1. a \in set /\ a # x
        BY <1>4, <3>5 DEF Held
      <4>2. PICK i \in 1 .. len : order[i] = a /\ len - i <= n /\ \A j \in 1 .. len : order[j] = a => j = i
        BY <3>5 DEF Held, len
      <4>3. ASSUME n + 1 < MaxTombstones PROVE Held(left, kept, a, n + 1)
        <5>1. i > 1
          BY <1>0, <1>1, <3>0, <4>2, <4>3
        <5>2. order[1] # a
          BY <1>1, <3>0, <4>2, <5>1
        <5>3. i - 1 \in 1 .. len /\ len - (i - 1) <= n + 1 /\ i - 1 # len /\ (i - 1) + 1 = i
          BY <1>1, <4>2, <5>1
        <5>4. kept[i - 1] = a
          BY <3>3, <4>2, <5>3
        <5>5. \A j \in 1 .. len : kept[j] = a => j = i - 1
          <6> SUFFICES ASSUME NEW j \in 1 .. len, kept[j] = a PROVE j = i - 1
            OBVIOUS
          <6>1. j # len /\ order[j + 1] = a
            BY <3>3, <4>1
          <6>2. j + 1 \in 1 .. len
            BY <1>1, <6>1
          <6>3. j + 1 = i
            BY <4>2, <6>1, <6>2
          <6> QED BY <1>1, <6>3
        <5>6. a \in left
          BY <3>2, <4>1, <5>2
        <5> QED BY <3>2, <5>3, <5>4, <5>5, <5>6 DEF Held
      <4> QED BY <4>1, <4>3
    <3>6. ASSUME NEW a \in Attempt, Absent(set, order, a)
          PROVE  IF a = x THEN Held(left, kept, a, 0) ELSE Absent(left, kept, a)
      <4>1. a \notin set /\ \A j \in 1 .. len : order[j] # a
        BY <3>6 DEF Absent, len
      <4>2. \A j \in 1 .. len : kept[j] = a => j = len /\ a = x
        <5> SUFFICES ASSUME NEW j \in 1 .. len, kept[j] = a PROVE j = len /\ a = x
          OBVIOUS
        <5>1. j # len => j + 1 \in 1 .. len
          BY <1>1
        <5> QED BY <3>3, <4>1, <5>1
      <4>3. CASE a = x
        <5>1. len \in 1 .. len /\ len - len <= 0 /\ kept[len] = a
          BY <1>1, <3>0, <3>3, <4>3
        <5>2. a \in left
          BY <1>1, <3>0, <3>2, <4>1, <4>3
        <5> QED BY <3>2, <4>2, <5>1, <5>2 DEF Held
      <4>4. CASE a # x
        BY <3>2, <4>1, <4>2, <4>4 DEF Absent
      <4> QED BY <4>3, <4>4
    <3> QED BY <3>1, <3>4, <3>5, <3>6 DEF r
  <2> QED BY <2>2, <2>3
<1> QED BY <1>3, <1>4

\* The recursive function of RememberAll exists.
LEMMA RememberAllFunction ==
  ASSUME NEW keys \in Seq(Attempt), RememberAll(keys)
  PROVE  \E f : /\ f[0] = [set |-> marked, order |-> marks]
                /\ \A n \in 1 .. Len(keys) : f[n] = Remember(f[n - 1].set, f[n - 1].order, keys[n])
                /\ marked' = f[Len(keys)].set /\ marks' = f[Len(keys)].order
<1> DEFINE Base == [set |-> marked, order |-> marks]
           After(t, n) == Remember(t.set, t.order, keys[n])
           Fcn(g, k) == g = [n \in 0 .. k |-> IF n = 0 THEN Base ELSE After(g[n - 1], n)]
           Good == {k \in Nat : \E g : Fcn(g, k)}
<1>1. 0 \in Good
  <2> HIDE DEF Base
  <2>1. Fcn([n \in 0 .. 0 |-> Base], 0)
    OBVIOUS
  <2> QED BY <2>1
<1>2. ASSUME NEW k \in Nat, k \in Good PROVE k + 1 \in Good
  <2> HIDE DEF After, Base
  <2>1. PICK g : Fcn(g, k)
    BY <1>2
  <2> DEFINE h == [n \in 0 .. k + 1 |-> IF n = k + 1 THEN After(g[k], k + 1) ELSE g[n]]
  <2>2. ASSUME NEW n \in 0 .. k + 1
        PROVE  h[n] = IF n = 0 THEN Base ELSE After(h[n - 1], n)
    BY <2>1
  <2>3. Fcn(h, k + 1)
    BY <2>2
  <2> HIDE DEF h, Fcn
  <2> QED BY <2>3
<1>3. Len(keys) \in Good
  <2> HIDE DEF Good
  <2> QED BY <1>1, <1>2, NumberInduction
<1>4. PICK f : Fcn(f, Len(keys)) /\ f = CHOOSE g : Fcn(g, Len(keys))
  BY <1>3
<1>5. marked' = f[Len(keys)].set /\ marks' = f[Len(keys)].order
  BY <1>4 DEF RememberAll
<1>6. f[0] = Base /\ \A n \in 1 .. Len(keys) : f[n] = After(f[n - 1], n)
  <2> HIDE DEF After, Base
  <2> QED BY <1>4
<1> QED BY <1>5, <1>6

\* Remembering keys keeps the tombstones that count, and gives the new ones.
LEMMA RememberAllLemma ==
  ASSUME CloudInv, NEW keys \in Seq(Attempt),
         \A i, j \in 1 .. Len(keys) : keys[i] = keys[j] => i = j,
         RememberAll(keys), cloudTask' = cloudTask
  PROVE  /\ TableOK(marked', marks') /\ TombstoneKept' /\ NoTranscriptAfterCancel'
         /\ asked' \in SUBSET CloudAttempt /\ newer' \in [CloudAttempt -> 0 .. MaxTombstones]
<1> DEFINE N == Len(keys)
           Before(n) == {keys[i] : i \in 1 .. n}
           Gone(n, a) == newer[a] + Cardinality(Before(n) \ {a})
<1>0. MaxTombstones \in Nat /\ MaxTombstones >= 1 /\ N \in Nat
  BY CloudAssumption
<1>1. PICK f : /\ f[0] = [set |-> marked, order |-> marks]
               /\ \A n \in 1 .. N : f[n] = Remember(f[n - 1].set, f[n - 1].order, keys[n])
               /\ marked' = f[N].set /\ marks' = f[N].order
  BY RememberAllFunction
<1>2. /\ asked \in SUBSET CloudAttempt /\ newer \in [CloudAttempt -> 0 .. MaxTombstones]
      /\ TableOK(marked, marks) /\ TombstoneKept /\ NoTranscriptAfterCancel
  BY DEF CloudInv, CloudShape
<1>3. \A n \in Nat : IsFiniteSet(Before(n))
  <2> SUFFICES ASSUME NEW n \in Nat PROVE IsFiniteSet(Before(n))
    OBVIOUS
  <2>1. IsFiniteSet(1 .. n)
    BY FS_Interval
  <2> DEFINE g == [i \in 1 .. n |-> keys[i]]
  <2>2. g \in Surjection(1 .. n, Before(n))
    BY DEF Surjection
  <2> HIDE DEF g, Before
  <2> QED BY <2>1, <2>2, FS_Surjection
<1>4. \A n \in Nat, a \in CloudAttempt : Cardinality(Before(n) \ {a}) \in Nat
  BY <1>3, FS_Subset, FS_CardinalityType
<1>5. ASSUME NEW n \in Nat, n + 1 <= N
      PROVE  /\ Before(n + 1) = Before(n) \cup {keys[n + 1]} /\ keys[n + 1] \notin Before(n)
             /\ \A a \in CloudAttempt :
                  Cardinality(Before(n + 1) \ {a})
                    = Cardinality(Before(n) \ {a}) + (IF a = keys[n + 1] THEN 0 ELSE 1)
  <2>1. Before(n + 1) = Before(n) \cup {keys[n + 1]}
    BY <1>5
  <2>2. keys[n + 1] \notin Before(n)
    BY <1>0, <1>5
  <2>3. ASSUME NEW a \in CloudAttempt
        PROVE  Cardinality(Before(n + 1) \ {a})
                 = Cardinality(Before(n) \ {a}) + (IF a = keys[n + 1] THEN 0 ELSE 1)
    <3>1. CASE a = keys[n + 1]
      <4>1. Before(n + 1) \ {a} = Before(n) \ {a}
        BY <2>1, <3>1
      <4>2. Cardinality(Before(n + 1) \ {a}) = Cardinality(Before(n) \ {a})
        BY <4>1
      <4>3. Cardinality(Before(n) \ {a}) \in Nat
        BY <1>4
      <4> HIDE DEF Before
      <4> QED BY <3>1, <4>2, <4>3
    <3>2. CASE a # keys[n + 1]
      <4>1. Before(n + 1) \ {a} = (Before(n) \ {a}) \cup {keys[n + 1]} /\ keys[n + 1] \notin Before(n) \ {a}
        BY <2>1, <2>2, <3>2
      <4>2. IsFiniteSet(Before(n) \ {a})
        BY <1>3, FS_Subset
      <4>3. Cardinality((Before(n) \ {a}) \cup {keys[n + 1]}) = Cardinality(Before(n) \ {a}) + 1
        BY <4>1, <4>2, FS_AddElement
      <4> HIDE DEF Before
      <4> QED BY <3>2, <4>1, <4>3
    <3> QED BY <3>1, <3>2
  <2> QED BY <2>1, <2>2, <2>3
<1> DEFINE Kept(n) ==
             /\ TableOK(f[n].set, f[n].order)
             /\ \A a \in CloudAttempt : cloudTask[a] \notin CloudEnded =>
                  IF a \in asked \cup Before(n)
                    THEN Gone(n, a) < MaxTombstones => Held(f[n].set, f[n].order, a, Gone(n, a))
                    ELSE Absent(f[n].set, f[n].order, a)
           Good == {n \in Nat : n <= N => Kept(n)}
<1>6. \A n \in Nat, a \in CloudAttempt : Gone(n, a) \in Nat
  <2> HIDE DEF Before
  <2> QED BY <1>0, <1>2, <1>4
<1>7. 0 \in Good
  <2>1. Before(0) = {} /\ \A a \in CloudAttempt : Before(0) \ {a} = {}
    OBVIOUS
  <2>2. \A a \in CloudAttempt : Gone(0, a) = newer[a]
    <3>1. \A a \in CloudAttempt : Cardinality(Before(0) \ {a}) = 0
      BY <2>1, FS_EmptySet
    <3>2. \A a \in CloudAttempt : newer[a] \in Nat
      BY <1>0, <1>2
    <3> HIDE DEF Before
    <3> QED BY <3>1, <3>2
  <2> HIDE DEF Before, Gone
  <2>3. Kept(0)
    BY <1>1, <1>2, <2>1, <2>2 DEF TombstoneKept
  <2> QED BY <2>3
<1>8. ASSUME NEW n \in Nat, n \in Good, n + 1 <= N PROVE Kept(n + 1)
  <2> DEFINE x == keys[n + 1]
             r == Remember(f[n].set, f[n].order, x)
  <2>1. n + 1 \in 1 .. N /\ (n + 1) - 1 = n /\ n <= N
    BY <1>0, <1>8
  <2>2. x \in Attempt /\ f[n + 1] = r
    BY <1>1, <2>1
  <2>3. Kept(n)
    BY <1>8, <2>1
  <2>4. /\ TableOK(r.set, r.order)
        /\ \A a \in Attempt, m \in Nat : Held(f[n].set, f[n].order, a, m) =>
             IF a = x THEN Held(r.set, r.order, a, m)
             ELSE m + 1 < MaxTombstones => Held(r.set, r.order, a, m + 1)
        /\ \A a \in Attempt : Absent(f[n].set, f[n].order, a) =>
             IF a = x THEN Held(r.set, r.order, a, 0) ELSE Absent(r.set, r.order, a)
    <3>1. x \in Attempt /\ TableOK(f[n].set, f[n].order)
      BY <2>2, <2>3
    <3> HIDE DEF x
    <3> QED BY <3>1, RememberLemma
  <2>5. /\ Before(n + 1) = Before(n) \cup {x} /\ x \notin Before(n)
        /\ \A a \in CloudAttempt : Gone(n + 1, a) = Gone(n, a) + (IF a = x THEN 0 ELSE 1)
    <3>1. /\ Before(n + 1) = Before(n) \cup {keys[n + 1]} /\ keys[n + 1] \notin Before(n)
          /\ \A a \in CloudAttempt :
               Cardinality(Before(n + 1) \ {a})
                 = Cardinality(Before(n) \ {a}) + (IF a = keys[n + 1] THEN 0 ELSE 1)
      BY <1>5, <1>8
    <3> HIDE DEF Before
    <3>2. \A a \in CloudAttempt : Cardinality(Before(n) \ {a}) \in Nat /\ newer[a] \in Nat
      BY <1>0, <1>2, <1>4
    <3> QED BY <3>1, <3>2
  <2> HIDE DEF r, x, Before, Gone
  <2>6. \A a \in Attempt, m \in Nat : Held(r.set, r.order, a, 0) => Held(r.set, r.order, a, m)
    <3>1. Len(r.order) \in Nat
      BY <2>4 DEF TableOK
    <3> QED BY <3>1 DEF Held
  <2>7. ASSUME NEW a \in CloudAttempt, cloudTask[a] \notin CloudEnded
        PROVE  IF a \in asked \cup Before(n + 1)
                 THEN Gone(n + 1, a) < MaxTombstones => Held(r.set, r.order, a, Gone(n + 1, a))
                 ELSE Absent(r.set, r.order, a)
    <3>0. a \in Attempt
      BY DEF Attempt
    <3>1. IF a \in asked \cup Before(n)
            THEN Gone(n, a) < MaxTombstones => Held(f[n].set, f[n].order, a, Gone(n, a))
            ELSE Absent(f[n].set, f[n].order, a)
      BY <2>3, <2>7
    <3>2. Gone(n, a) \in Nat /\ Gone(n + 1, a) = Gone(n, a) + (IF a = x THEN 0 ELSE 1)
      BY <1>6, <2>5
    <3>3. CASE a \in asked \cup Before(n)
      <4> SUFFICES ASSUME Gone(n + 1, a) < MaxTombstones PROVE Held(r.set, r.order, a, Gone(n + 1, a))
        BY <2>5, <3>3
      <4>1. Gone(n, a) < MaxTombstones
        BY <1>0, <3>2
      <4>2. Held(f[n].set, f[n].order, a, Gone(n, a))
        BY <3>1, <3>3, <4>1
      <4> QED BY <2>4, <3>0, <3>2, <4>2
    <3>4. CASE a \notin asked \cup Before(n)
      BY <2>4, <2>5, <2>6, <3>0, <3>1, <3>2, <3>4
    <3> QED BY <3>3, <3>4
  <2> QED BY <2>2, <2>4, <2>7
<1>9. Kept(N)
  <2>1. N \in Good
    <3>1. \A n \in Nat : n \in Good => n + 1 \in Good
      <4> HIDE DEF Kept, N
      <4> QED BY <1>8
    <3> HIDE DEF Good, N
    <3> QED BY <1>0, <1>7, <3>1, NumberInduction
  <2> HIDE DEF Kept
  <2> QED BY <1>0, <2>1
<1>10. ToSet(keys) = Before(N)
  BY DEF ToSet
<1>11. asked' = asked \cup {a \in Before(N) \cap CloudAttempt : cloudTask[a] \notin CloudEnded}
  BY <1>10 DEF RememberAll
<1>12. newer' = [a \in CloudAttempt |-> IF a \notin asked' THEN 0
                                        ELSE IF Gone(N, a) < MaxTombstones THEN Gone(N, a) ELSE MaxTombstones]
  BY <1>10 DEF RememberAll
<1>13. \A a \in CloudAttempt : Gone(N, a) \in Nat /\ Gone(N, a) >= newer[a]
  <2> HIDE DEF Before, N
  <2> QED BY <1>0, <1>2, <1>4
<1> HIDE DEF Before, Gone, N
<1>14. newer' \in [CloudAttempt -> 0 .. MaxTombstones] /\ asked' \in SUBSET CloudAttempt
  BY <1>0, <1>2, <1>11, <1>12, <1>13
<1>15. TableOK(marked', marks')
  BY <1>1, <1>9
<1>16. TombstoneKept'
  <2> SUFFICES ASSUME NEW a \in CloudAttempt, cloudTask[a] \notin CloudEnded
               PROVE  IF a \in asked' THEN newer'[a] < MaxTombstones => Held(marked', marks', a, newer'[a])
                      ELSE newer'[a] = 0 /\ Absent(marked', marks', a)
    BY DEF TombstoneKept
  <2>1. a \in asked' <=> a \in asked \cup Before(N)
    BY <1>11
  <2>2. IF a \in asked \cup Before(N)
          THEN Gone(N, a) < MaxTombstones => Held(marked', marks', a, Gone(N, a))
          ELSE Absent(marked', marks', a)
    BY <1>1, <1>9
  <2> QED BY <1>0, <1>12, <1>13, <2>1, <2>2
<1>17. NoTranscriptAfterCancel'
  <2> SUFFICES ASSUME NEW a \in asked', cloudTask[a] = "transcript" PROVE newer'[a] >= MaxTombstones
    BY DEF NoTranscriptAfterCancel
  <2>1. a \in asked /\ a \in CloudAttempt
    BY <1>2, <1>11 DEF CloudEnded
  <2>2. newer[a] >= MaxTombstones
    BY <1>2, <2>1 DEF NoTranscriptAfterCancel
  <2>3. Gone(N, a) >= MaxTombstones
    BY <1>0, <1>2, <1>13, <2>1, <2>2
  <2> QED BY <1>0, <1>12, <1>13, <2>1, <2>3
<1> QED BY <1>14, <1>15, <1>16, <1>17

\* The steps that remember nothing clear at most the tombstone of a coroutine
\* that ends with them.
LEMMA OtherTombstonesKept ==
  ASSUME CloudInv, UNCHANGED <<marks, asked, newer>>, NEW ended \in SUBSET CloudAttempt,
         marked' = marked \ ended,
         \A a \in CloudAttempt \ ended : cloudTask'[a] \notin CloudEnded => cloudTask[a] \notin CloudEnded,
         \A a \in ended : cloudTask'[a] \in CloudEnded
  PROVE  TableOK(marked', marks') /\ TombstoneKept'
<1>1. TableOK(marked, marks) /\ TombstoneKept
  BY DEF CloudInv
<1>2. TableOK(marked', marks')
  BY <1>1 DEF TableOK
<1>3. ASSUME NEW a \in CloudAttempt, cloudTask'[a] \notin CloudEnded
      PROVE  IF a \in asked THEN newer[a] < MaxTombstones => Held(marked', marks, a, newer[a])
             ELSE newer[a] = 0 /\ Absent(marked', marks, a)
  <2>1. a \notin ended /\ cloudTask[a] \notin CloudEnded
    BY <1>3
  <2>2. IF a \in asked THEN newer[a] < MaxTombstones => Held(marked, marks, a, newer[a])
        ELSE newer[a] = 0 /\ Absent(marked, marks, a)
    BY <1>1, <2>1 DEF TombstoneKept
  <2>3. Held(marked, marks, a, newer[a]) => Held(marked', marks, a, newer[a])
    BY <2>1 DEF Held
  <2>4. Absent(marked, marks, a) => Absent(marked', marks, a)
    BY DEF Absent
  <2> QED BY <2>2, <2>3, <2>4
<1> QED BY <1>2, <1>3 DEF TombstoneKept

\* A coroutine that goes on, or ends without looking at a result.
LEMMA CoroutineInv ==
  ASSUME CloudInv, NEW a \in CloudAttempt, UNCHANGED <<marks, cloudClose, asked, newer>>,
         request' \in [CloudAttempt -> {"none", "running", "posted", "ended"}],
         active' \in {active, active \cup {a}, active \ {a}},
         cloudTask[a] \notin CloudEnded,
         \/ /\ \E to \in {"secret", "starting", "waiting", "failed", "abandoned"} :
                 cloudTask' = [cloudTask EXCEPT ![a] = to]
            /\ UNCHANGED marked
         \/ CloudEnds(a, "failed")
  PROVE  CloudInv'
<1>1. /\ cloudTask \in [CloudAttempt -> {"new", "secret", "starting", "waiting"} \cup CloudEnded]
      /\ active \in SUBSET CloudAttempt /\ IsFiniteSet(active)
  BY DEF CloudInv, CloudShape
<1>2. PICK to \in {"secret", "starting", "waiting", "failed", "abandoned", "cancelled"} :
        cloudTask' = [cloudTask EXCEPT ![a] = to]
  BY DEF CloudEnds
<1>3. \E ended \in SUBSET CloudAttempt :
        /\ marked' = marked \ ended
        /\ \A b \in CloudAttempt \ ended : cloudTask'[b] \notin CloudEnded => cloudTask[b] \notin CloudEnded
        /\ \A b \in ended : cloudTask'[b] \in CloudEnded
  <2>1. CASE UNCHANGED marked
    <3>1. marked' = marked \ {}
      BY <2>1
    <3>2. \A b \in CloudAttempt \ {} : cloudTask'[b] \notin CloudEnded => cloudTask[b] \notin CloudEnded
      BY <1>1, <1>2
    <3>3. {} \in SUBSET CloudAttempt /\ \A b \in {} : cloudTask'[b] \in CloudEnded
      OBVIOUS
    <3> QED BY <3>1, <3>2, <3>3
  <2>2. CASE CloudEnds(a, "failed")
    <3>1. marked' = marked \ {a} /\ \A b \in {a} : cloudTask'[b] \in CloudEnded
      BY <1>1, <2>2 DEF CloudEnds, CloudEnded
    <3>2. \A b \in CloudAttempt \ {a} : cloudTask'[b] \notin CloudEnded => cloudTask[b] \notin CloudEnded
      BY <1>1, <1>2
    <3>3. {a} \in SUBSET CloudAttempt
      OBVIOUS
    <3> QED BY <3>1, <3>2, <3>3
  <2> QED BY <2>1, <2>2
<1>4. TableOK(marked', marks') /\ TombstoneKept'
  BY <1>3, OtherTombstonesKept
<1>5. active' \in SUBSET CloudAttempt /\ IsFiniteSet(active')
  <2>1. IsFiniteSet(active \cup {a}) /\ IsFiniteSet(active \ {a})
    BY <1>1, FS_AddElement, FS_Subset
  <2> QED BY <1>1, <2>1
<1>6. CloudShape'
  <2>1. cloudTask' \in [CloudAttempt -> {"new", "secret", "starting", "waiting"} \cup CloudEnded]
    BY <1>1, <1>2 DEF CloudEnded
  <2> QED BY <1>5, <2>1 DEF CloudInv, CloudShape
<1>7. NoTranscriptAfterCancel'
  BY <1>1, <1>2 DEF CloudInv, CloudShape, NoTranscriptAfterCancel
<1> QED BY <1>4, <1>6, <1>7 DEF CloudInv

\* The result of the request is taken.
LEMMA CloudResumesInv ==
  ASSUME CloudInv, NEW a \in CloudAttempt, CloudResumes(a) PROVE CloudInv'
<1>1. PICK outcome \in {"transcript", "failed"} : CloudEnds(a, outcome)
  BY DEF CloudResumes
<1>2. /\ cloudTask \in [CloudAttempt -> {"new", "secret", "starting", "waiting"} \cup CloudEnded]
      /\ asked \in SUBSET CloudAttempt /\ newer \in [CloudAttempt -> 0 .. MaxTombstones]
      /\ MaxTombstones \in Nat
  BY CloudAssumption DEF CloudInv, CloudShape
<1>3. /\ cloudTask' = [cloudTask EXCEPT ![a] = IF a \in marked THEN "cancelled" ELSE outcome]
      /\ marked' = marked \ {a} /\ UNCHANGED <<request, active, marks, cloudClose, asked, newer>>
      /\ cloudTask[a] = "waiting"
  BY <1>1 DEF CloudEnds, CloudResumes
<1>4. cloudTask' \in [CloudAttempt -> {"new", "secret", "starting", "waiting"} \cup CloudEnded]
  BY <1>2, <1>3 DEF CloudEnded
<1>5. TableOK(marked', marks') /\ TombstoneKept'
  <2>1. {a} \in SUBSET CloudAttempt /\ \A b \in {a} : cloudTask'[b] \in CloudEnded
    BY <1>2, <1>3 DEF CloudEnded
  <2>2. \A b \in CloudAttempt \ {a} : cloudTask'[b] \notin CloudEnded => cloudTask[b] \notin CloudEnded
    BY <1>2, <1>3
  <2> QED BY <1>3, <2>1, <2>2, OtherTombstonesKept
<1>6. NoTranscriptAfterCancel'
  <2> SUFFICES ASSUME NEW b \in asked, cloudTask'[b] = "transcript" PROVE newer[b] >= MaxTombstones
    BY <1>3 DEF NoTranscriptAfterCancel
  <2>1. CASE b = a
    <3>1. a \notin marked /\ cloudTask[a] \notin CloudEnded
      BY <1>2, <1>3, <2>1 DEF CloudEnded
    <3>2. ~Held(marked, marks, a, newer[a])
      BY <3>1 DEF Held
    <3>3. ~(newer[a] < MaxTombstones)
      BY <2>1, <3>1, <3>2 DEF CloudInv, TombstoneKept
    <3> QED BY <1>2, <2>1, <3>3
  <2>2. CASE b # a
    BY <1>2, <1>3, <2>2 DEF CloudInv, NoTranscriptAfterCancel
  <2> QED BY <2>1, <2>2
<1>7. CloudShape'
  BY <1>3, <1>4 DEF CloudInv, CloudShape
<1> QED BY <1>5, <1>6, <1>7 DEF CloudInv

LEMMA CloudCancelInv ==
  ASSUME CloudInv, NEW x \in Attempt, CloudCancel(x) PROVE CloudInv'
<1>1. <<x>> \in Seq(Attempt) /\ \A i, j \in 1 .. Len(<<x>>) : <<x>>[i] = <<x>>[j] => i = j
  OBVIOUS
<1>2. RememberAll(<<x>>) /\ UNCHANGED <<cloudTask, request, active, cloudClose>>
  BY DEF CloudCancel
<1>3. /\ TableOK(marked', marks') /\ TombstoneKept' /\ NoTranscriptAfterCancel'
      /\ asked' \in SUBSET CloudAttempt /\ newer' \in [CloudAttempt -> 0 .. MaxTombstones]
  BY <1>1, <1>2, RememberAllLemma
<1> QED BY <1>2, <1>3 DEF CloudInv, CloudShape

LEMMA CloudCloseInv == CloudInv /\ CloudClose => CloudInv'
<1> SUFFICES ASSUME CloudInv, CloudClose PROVE CloudInv'
  OBVIOUS
<1>1. PICK keys \in SetToSeqs(active) : RememberAll(keys)
  BY DEF CloudClose
<1>2. active \in SUBSET CloudAttempt /\ Cardinality(active) \in Nat
  BY FS_CardinalityType DEF CloudInv, CloudShape
<1>3. /\ keys \in [1 .. Cardinality(active) -> active]
      /\ \A i, j \in 1 .. Cardinality(active) : i # j => keys[i] # keys[j]
  BY DEF SetToSeqs
<1>4. keys \in Seq(Attempt) /\ \A i, j \in 1 .. Len(keys) : keys[i] = keys[j] => i = j
  <2>1. keys \in [1 .. Cardinality(active) -> Attempt]
    BY <1>2, <1>3 DEF Attempt
  <2>2. keys \in Seq(Attempt)
    BY <1>2, <2>1, IsASeq
  <2>3. Len(keys) = Cardinality(active)
    BY <1>2, <1>3, <2>2, LenProperties
  <2> QED BY <1>3, <2>2, <2>3
<1>5. cloudClose' = "waiting" /\ UNCHANGED <<cloudTask, request, active>>
  BY DEF CloudClose
<1>6. /\ TableOK(marked', marks') /\ TombstoneKept' /\ NoTranscriptAfterCancel'
      /\ asked' \in SUBSET CloudAttempt /\ newer' \in [CloudAttempt -> 0 .. MaxTombstones]
  BY <1>1, <1>4, <1>5, RememberAllLemma
<1> QED BY <1>5, <1>6 DEF CloudInv, CloudShape

LEMMA CloudInitInv == CloudInit => CloudInv
<1> SUFFICES ASSUME CloudInit PROVE CloudInv
  OBVIOUS
<1>1. MaxTombstones \in Nat
  BY CloudAssumption
<1>2. CloudShape
  BY <1>1, FS_EmptySet DEF CloudInit, CloudShape
<1>3. marked = {} /\ marks = <<>> /\ asked = {} /\ newer = [a \in CloudAttempt |-> 0]
  BY DEF CloudInit
<1>4. TableOK(marked, marks)
  BY <1>1, <1>3 DEF TableOK
<1>5. TombstoneKept /\ NoTranscriptAfterCancel
  BY <1>3 DEF TombstoneKept, Absent, NoTranscriptAfterCancel
<1> QED BY <1>2, <1>4, <1>5 DEF CloudInv

LEMMA CloudNextInv == CloudInv /\ [CloudNext]_cloudVars => CloudInv'
<1> SUFFICES ASSUME CloudInv, [CloudNext]_cloudVars PROVE CloudInv'
  OBVIOUS
<1>0. request \in [CloudAttempt -> {"none", "running", "posted", "ended"}]
  BY DEF CloudInv, CloudShape
<1>1. ASSUME NEW a \in CloudAttempt, CloudBegins(a) \/ CredentialFails(a) PROVE CloudInv'
  <2>1. cloudTask[a] \notin CloudEnded /\ UNCHANGED <<request, active, marked, marks, cloudClose, asked, newer>>
    BY <1>1 DEF CloudBegins, CredentialFails, CloudEnded
  <2>2. \E to \in {"secret", "starting", "waiting", "failed", "abandoned"} : cloudTask' = [cloudTask EXCEPT ![a] = to]
    BY <1>1 DEF CloudBegins, CredentialFails
  <2> QED BY <1>0, <2>1, <2>2, CoroutineInv
<1>2. ASSUME NEW a \in CloudAttempt, CloudRegisters(a) PROVE CloudInv'
  BY <1>0, <1>2, CoroutineInv DEF CloudRegisters, CloudEnded
<1>3. ASSUME NEW a \in CloudAttempt, CloudStarts(a) PROVE CloudInv'
  <2>1. request' \in [CloudAttempt -> {"none", "running", "posted", "ended"}]
    BY <1>0, <1>3 DEF CloudStarts
  <2> QED BY <1>3, <2>1, CoroutineInv DEF CloudStarts, CloudEnded
<1>4. ASSUME NEW a \in CloudAttempt, RequestReturns(a) \/ RequestFinishes(a) PROVE CloudInv'
  <2>1. request' \in [CloudAttempt -> {"none", "running", "posted", "ended"}]
    BY <1>0, <1>4 DEF RequestReturns, RequestFinishes
  <2>2. active' \in SUBSET active /\ UNCHANGED <<cloudTask, marked, marks, cloudClose, asked, newer>>
    BY <1>4 DEF RequestReturns, RequestFinishes
  <2>3. active' \in SUBSET CloudAttempt /\ IsFiniteSet(active')
    BY <2>2, FS_Subset DEF CloudInv, CloudShape
  <2> QED BY <2>1, <2>2, <2>3 DEF CloudInv, CloudShape, TombstoneKept, NoTranscriptAfterCancel
<1>5. ASSUME NEW a \in CloudAttempt, CloudAbandons(a) PROVE CloudInv'
  BY <1>0, <1>5, CoroutineInv DEF CloudAbandons, CloudEnded
<1>6. CASE CloudClosed
  BY <1>6 DEF CloudClosed, CloudInv, CloudShape, TombstoneKept, NoTranscriptAfterCancel
<1>7. CASE UNCHANGED cloudVars
  BY <1>7 DEF cloudVars, CloudInv, CloudShape, TombstoneKept, NoTranscriptAfterCancel
<1>8. CASE \E x \in CloudAttempt \cup OtherAttempt : CloudCancel(x)
  BY <1>8, CloudCancelInv DEF Attempt
<1> QED BY <1>1, <1>2, <1>3, <1>4, <1>5, <1>6, <1>7, <1>8, CloudResumesInv, CloudCloseInv DEF CloudNext

\* However the table of tombstones fills up, and in whatever order cancels,
\* requests, results and the close of the adapter come.
THEOREM CancelledGivesNoTranscript == CloudSpec => [](CloudTypeOK /\ NoTranscriptAfterCancel)
<1>1. CloudInv => CloudTypeOK /\ NoTranscriptAfterCancel
  <2> SUFFICES ASSUME CloudInv PROVE CloudTypeOK /\ NoTranscriptAfterCancel
    OBVIOUS
  <2>1. /\ marked \in SUBSET Attempt /\ marks \in Seq(Attempt) /\ Len(marks) <= MaxTombstones
        /\ \A a \in marked : \E i \in 1 .. Len(marks) : marks[i] = a
    BY DEF CloudInv, TableOK
  <2>2. marked \subseteq ToSet(marks)
    BY <2>1 DEF ToSet
  <2> QED BY <2>1, <2>2 DEF CloudInv, CloudShape, CloudTypeOK, Attempt
<1> QED BY <1>1, CloudInitInv, CloudNextInv, PTL DEF CloudSpec
=============================================================================
