--------------------------- MODULE WorkflowStore ---------------------------
(***************************************************************************)
(* desktop-electron/src/stores/workflowStore.ts with workflows/reducer.ts: *)
(* what the window shows of the rows of the worker, kept up to date by     *)
(* events and by the replies to its own calls.                             *)
(*                                                                         *)
(* The worker answers a call at once, but the main process does file work  *)
(* before it passes on a call or a reply (electron/main.ts), so calls and  *)
(* replies overtake each other.  Events are passed on at once and in       *)
(* order: none is overtaken by a reply that was prepared after it.         *)
(***************************************************************************)
EXTENDS Naturals, Sequences, FiniteSets

CONSTANTS
  Shown,       \* workflow ids
  Nothing,     \* no snapshot
  MaxSequence, \* bounds the commits of a workflow, of which the first makes it
  MaxCalls,    \* bounds the calls of the window, but for those it makes by itself
  MaxStops     \* bounds the exits of the worker

ASSUME StoreAssumption ==
  /\ Shown # {} /\ Nothing \notin [attempt : Nat, sequence : Nat]
  /\ MaxSequence \in Nat \ {0} /\ {MaxCalls, MaxStops} \subseteq Nat

VARIABLES
  stored,     \* the rows of the worker: [attempt, sequence] or Nothing
  known,      \* ids that have been handed out
  up,         \* whether the worker runs
  events,     \* events on the way to the window
  asks,       \* calls in flight: those "asked" wait for the worker, those "answered"
              \* for the window, behind the first so many events
  view,       \* workflowsById
  clearedIds, \* clearedWorkflowIds
  issued,     \* calls made
  stops,      \* exits of the worker
  dropped,    \* history: ids whose clear has come back
  overtaken,  \* history: ids an older reply put back into the view, or kept in it
  swallowed   \* history: a restart found a reconciliation in progress and started none

storeVars == <<stored, known, up, events, asks, view, clearedIds, issued, stops, dropped, overtaken, swallowed>>

Lists == {"list", "reconcile"}
Kinds == Lists \cup {"get", "guarded", "selected", "change", "submit", "clear"}

-----------------------------------------------------------------------------
(* The worker (external to the store). *)

Advanced(row, retried) ==
  [attempt |-> IF retried THEN row.attempt + 1 ELSE row.attempt, sequence |-> row.sequence + 1]

Emit(w) == events' = Append(events, [of |-> w, state |-> stored'[w]])

\* A commit of a run, with its event.
Commits(w) ==
  /\ up /\ stored[w] # Nothing /\ stored[w].sequence < MaxSequence
  /\ stored' = [stored EXCEPT ![w] = Advanced(@, FALSE)]
  /\ Emit(w)
  /\ UNCHANGED <<known, up, asks, view, clearedIds, issued, stops, dropped, overtaken, swallowed>>

\* A reply: a function from the ids it speaks of to their snapshots.
Answered(c, answer, queue) ==
  asks' = (asks \ {c}) \cup {[c EXCEPT !.answer = answer, !.state = "answered", !.behind = Len(queue)]}

Refused(c) == asks' = asks \ {c}

\* One dispatched call.  A clear goes through for a workflow that has ended.
Answer(c) ==
  /\ up /\ c \in asks /\ c.state = "asked"
  /\ \/ /\ c.kind \in Lists
        /\ Answered(c, [w \in {x \in Shown : stored[x] # Nothing} |-> stored[w]], events)
        /\ UNCHANGED <<stored, known, events>>
     \/ /\ c.kind \in {"get", "guarded", "selected"}
        /\ IF stored[c.of] = Nothing THEN Refused(c)
           ELSE Answered(c, [w \in {c.of} |-> stored[w]], events)
        /\ UNCHANGED <<stored, known, events>>
     \/ /\ c.kind = "change"
        /\ \/ Refused(c) /\ UNCHANGED <<stored, events>>
           \/ /\ stored[c.of] # Nothing /\ stored[c.of].sequence < MaxSequence
              /\ \E retried \in BOOLEAN : stored' = [stored EXCEPT ![c.of] = Advanced(@, retried)]
              /\ Emit(c.of)
              /\ Answered(c, [w \in {c.of} |-> stored'[w]], events')
        /\ UNCHANGED known
     \/ /\ c.kind = "submit"
        /\ \E w \in Shown \ known :
             /\ known' = known \cup {w}
             /\ stored' = [stored EXCEPT ![w] = [attempt |-> 1, sequence |-> 1]]
             /\ Emit(w)
             /\ Answered(c, [x \in {w} |-> stored'[x]], events')
     \/ /\ c.kind = "clear"
        /\ IF stored[c.of] = Nothing THEN Refused(c)
           ELSE Answered(c, [w \in {} |-> Nothing], events)
        /\ stored' = [stored EXCEPT ![c.of] = Nothing]
        /\ UNCHANGED <<known, events>>
  /\ UNCHANGED <<up, view, clearedIds, issued, stops, dropped, overtaken, swallowed>>

\* The worker exits: the calls it has not answered are rejected, and a clear
\* may be, which lists once more before it returns (main.ts).  Events that
\* have not been written are lost.
Stops ==
  /\ up /\ stops < MaxStops
  /\ up' = FALSE
  /\ stops' = stops + 1
  /\ \E kept \in 0 .. Len(events),
        rejected \in SUBSET {c \in asks : c.kind = "clear" /\ c.state = "answered"} :
       /\ events' = SubSeq(events, 1, kept)
       /\ asks' = {[c EXCEPT !.behind = IF @ < kept THEN @ ELSE kept] :
                     c \in {d \in asks : d.state = "answered"} \ rejected}
  /\ UNCHANGED <<stored, known, view, clearedIds, issued, dropped, overtaken, swallowed>>

-----------------------------------------------------------------------------
(* The view. *)

\* applyWorkflowSnapshot, for snapshots that are valid.
Newer(current, candidate) ==
  IF \/ current = Nothing
     \/ candidate.sequence > current.sequence /\ candidate.attempt >= current.attempt
    THEN candidate ELSE current

\* A call the window makes, and the sequences it knows when it makes it.
Asked(kind, w) ==
  [kind |-> kind, of |-> w, id |-> issued, state |-> "asked", behind |-> 0,
   baseline |-> [x \in Shown |-> IF kind \notin Lists \/ view[x] = Nothing THEN 0 ELSE view[x].sequence],
   answer |-> [x \in {} |-> Nothing]]

\* refresh, control, retry, register_revision, submit, clear.
AskFor(kind, w) ==
  /\ kind \in {"list", "get", "change", "submit", "clear"}
  /\ kind \in {"get", "change", "clear"} => view[w] # Nothing
  /\ up /\ issued < MaxCalls
  /\ asks' = asks \cup {Asked(kind, w)}
  /\ issued' = issued + 1
  /\ UNCHANGED <<stored, known, up, events, view, clearedIds, stops, dropped, overtaken, swallowed>>

\* reconcileWorkflow, whose reply is looked at only if the id has not been cleared.
AskedAgain(w, left) ==
  IF w \in clearedIds THEN left ELSE left \cup {Asked("guarded", w)}

\* reduceEvent: an event applied over a gap asks for the snapshot again.
EventArrives ==
  LET e == Head(events)
      left == {[c EXCEPT !.behind = IF @ > 0 THEN @ - 1 ELSE 0] : c \in asks}
      gap == view[e.of] # Nothing /\ e.state.sequence > view[e.of].sequence + 1 IN
  /\ events # <<>>
  /\ events' = Tail(events)
  /\ IF e.of \in clearedIds
       THEN asks' = left /\ UNCHANGED <<view, issued>>
       ELSE /\ view' = [view EXCEPT ![e.of] = Newer(@, e.state)]
            /\ asks' = IF gap THEN AskedAgain(e.of, left) ELSE left
            /\ issued' = IF asks' = left THEN issued ELSE issued + 1
  /\ UNCHANGED <<stored, known, up, clearedIds, stops, dropped, overtaken, swallowed>>

\* Mutated form: a reply of reconcileWorkflow is applied to a cleared id too.
AcceptedAlways(c, w) == TRUE

Accepted(c, w) == c.kind = "guarded" => w \notin clearedIds

\* Mutated form: every workflow that the list does not name is dropped.
MissingFromAny(c, w) == w \notin DOMAIN c.answer

\* applySnapshotList drops what the list does not name and the window has
\* known, unchanged, since before it asked.
MissingFrom(c, w) ==
  w \notin DOMAIN c.answer /\ view[w] # Nothing /\ c.baseline[w] = view[w].sequence

\* Replies have crossed: one on the way would show w again, or this one
\* changes w under a list that was asked for later.
Crossed(c, w) ==
  \/ /\ (view[w] # Nothing \/ w \in dropped') /\ view'[w] = Nothing
     /\ \E d \in asks \ {c} : d.state = "answered" /\ w \in DOMAIN d.answer
                              /\ ~(d.kind = "guarded" /\ w \in clearedIds')
  \/ view'[w] # view[w] /\ \E d \in asks : d.kind \in Lists /\ d.id > c.id

\* A reply is applied.  After the list of a reconciliation the snapshot of the
\* selected workflow is fetched, which nothing guards either.
Applies(c) ==
  /\ c \in asks /\ c.state = "answered" /\ c.behind = 0
  /\ clearedIds' = IF c.kind = "clear" THEN clearedIds \cup {c.of}
                   ELSE IF c.kind \in Lists \cup {"submit"} THEN clearedIds \ DOMAIN c.answer
                   ELSE clearedIds
  /\ view' = [w \in Shown |->
               IF \/ c.kind = "clear" /\ w = c.of
                  \/ c.kind \in Lists /\ MissingFrom(c, w) THEN Nothing
               ELSE IF w \in DOMAIN c.answer /\ Accepted(c, w) THEN Newer(view[w], c.answer[w])
               ELSE view[w]]
  /\ dropped' = IF c.kind = "clear" THEN dropped \cup {c.of} ELSE dropped
  /\ overtaken' = overtaken \cup {w \in Shown : Crossed(c, w)}
  /\ \/ asks' = asks \ {c} /\ UNCHANGED issued
     \/ /\ c.kind = "reconcile" /\ up
        /\ \E w \in Shown : view'[w] # Nothing /\ asks' = (asks \ {c}) \cup {Asked("selected", w)}
        /\ issued' = issued + 1
  /\ UNCHANGED <<stored, known, up, events, stops, swallowed>>

\* The restarted worker has marked the rows it found active, without events,
\* and is ready: the window, which hears of it behind the events it was sent
\* before, reconciles, unless it is about to.
Ready ==
  /\ ~up /\ events = <<>>
  /\ up' = TRUE
  /\ \E found \in SUBSET {w \in Shown : stored[w] # Nothing /\ stored[w].sequence < MaxSequence} :
       stored' = [w \in Shown |-> IF w \in found THEN Advanced(stored[w], FALSE) ELSE stored[w]]
  /\ IF \E c \in asks : c.kind \in {"reconcile", "selected"}
       THEN swallowed' = TRUE /\ UNCHANGED <<asks, issued>>
       ELSE /\ asks' = asks \cup {Asked("reconcile", CHOOSE w \in Shown : TRUE)}
            /\ issued' = issued + 1
            /\ UNCHANGED swallowed
  /\ UNCHANGED <<known, events, view, clearedIds, stops, dropped, overtaken>>

-----------------------------------------------------------------------------
StoreInit ==
  /\ stored = [w \in Shown |-> Nothing] /\ known = {}
  /\ up = TRUE /\ events = <<>> /\ asks = {}
  /\ view = [w \in Shown |-> Nothing] /\ clearedIds = {}
  /\ issued = 0 /\ stops = 0
  /\ dropped = {} /\ overtaken = {} /\ swallowed = FALSE

StoreNext ==
  \/ \E w \in Shown : Commits(w) \/ \E kind \in Kinds : AskFor(kind, w)
  \/ \E c \in asks : Answer(c) \/ Applies(c)
  \/ EventArrives \/ Stops \/ Ready

StoreSpec == StoreInit /\ [][StoreNext]_storeVars

-----------------------------------------------------------------------------
(* Properties. *)

Row == [attempt : 1 .. MaxSequence, sequence : 1 .. MaxSequence]

StoreTypeOK ==
  /\ stored \in [Shown -> Row \cup {Nothing}] /\ known \subseteq Shown
  /\ up \in BOOLEAN
  /\ \A i \in DOMAIN events : events[i].of \in Shown /\ events[i].state \in Row
  /\ \A c \in asks : /\ c.kind \in Kinds /\ c.of \in Shown /\ c.state \in {"asked", "answered"}
                     /\ c.behind \in 0 .. Len(events)
                     /\ \A w \in DOMAIN c.answer : w \in Shown /\ c.answer[w] \in Row
  /\ view \in [Shown -> Row \cup {Nothing}]
  /\ clearedIds \subseteq Shown
  /\ issued \in Nat /\ stops \in 0 .. MaxStops
  /\ dropped \subseteq Shown /\ overtaken \subseteq dropped \cup Shown /\ swallowed \in BOOLEAN

\* When nothing is on the way the window shows the rows of the worker, each
\* at its last commit: events that were lost, rows that a restart marked, a list
\* that crossed a submit and a clear whose reply was rejected are all made up
\* for.  Not so for an id that left the view while an older list or unguarded
\* reply was on the way, or that an older reply changed under a list, nor when
\* a reconciliation that was about to end swallowed the one of a restart.
ViewConverges ==
  up /\ asks = {} /\ events = <<>> /\ ~swallowed =>
    \A w \in Shown \ overtaken : view[w] = stored[w]

\* A workflow that was cleared does not come back into the view, except with
\* such an older reply.
ClearedStaysCleared ==
  \A w \in dropped \ overtaken : view[w] = Nothing
=============================================================================
