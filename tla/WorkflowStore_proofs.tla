------------------------ MODULE WorkflowStore_proofs ------------------------
(***************************************************************************)
(* For any number of workflows, calls and exits of the worker: the view of *)
(* the window converges to the rows of the worker, and what was cleared    *)
(* stays away.  The inductive invariant is StoreInv; it says of every row  *)
(* what is still on its way to the window and what it will do there.       *)
(***************************************************************************)
EXTENDS WorkflowStore, SequenceTheorems, TLAPS

-----------------------------------------------------------------------------
(* The window's view of the rows.                                          *)

State == [attempt : Nat, sequence : Nat \ {0}]
Answers1 == UNION {[ids -> State] : ids \in SUBSET Shown}
AskType ==
  [kind : Kinds, of : Shown, id : Nat, state : {"asked", "answered"}, behind : Nat,
   baseline : [Shown -> Nat], answer : Answers1]

StoreShape ==
  /\ stored \in [Shown -> State \cup {Nothing}]
  /\ known \subseteq Shown
  /\ events \in Seq([of : Shown, state : State])
  /\ asks \subseteq AskType
  /\ view \in [Shown -> State \cup {Nothing}]
  /\ clearedIds \subseteq Shown
  /\ issued \in Nat
  /\ \A c \in asks : c.id < issued /\ (c.state = "asked" => DOMAIN c.answer = {})

\* A workflow whose row has been cleared.
Gone(w) == w \in known /\ stored[w] = Nothing

NoEvents(w) == \A i \in 1 .. Len(events) : events[i].of # w

\* A reply on the way would show w.
Showing(d, w) ==
  d.state = "answered" /\ w \in DOMAIN d.answer /\ ~(d.kind = "guarded" /\ w \in clearedIds)

\* Before an id is handed out, nothing speaks of it.
UnknownUnseen ==
  \A w \in Shown \ known :
    /\ stored[w] = Nothing /\ view[w] = Nothing /\ NoEvents(w)
    /\ \A d \in asks : w \notin DOMAIN d.answer /\ d.baseline[w] = 0

\* A state of a row that is not later than r, and is r if it is not earlier.
NoLater(x, r) ==
  x.sequence <= r.sequence /\ x.attempt <= r.attempt /\ (x.sequence = r.sequence => x = r)

\* What is shown of a row, or on the way, is no later than the row.
StoredIsLatest ==
  \A w \in Shown : stored[w] # Nothing =>
    /\ view[w] # Nothing => NoLater(view[w], stored[w])
    /\ \A i \in 1 .. Len(events) : events[i].of = w => NoLater(events[i].state, stored[w])
    /\ \A d \in asks : w \in DOMAIN d.answer => NoLater(d.answer[w], stored[w])

\* A clear is asked for what is shown, and is answered by removing the row.
ClearsKnow ==
  /\ clearedIds \subseteq known /\ \A w \in clearedIds : Gone(w)
  /\ \A d \in asks : d.kind = "clear" =>
       /\ d.of \in known
       /\ d.state = "answered" => Gone(d.of)
       /\ stored[d.of] # Nothing => view[d.of] # Nothing

\* A list that does not name a row the window knew when it asked was answered
\* after the clear, behind all events of the row.
ListsMiss ==
  \A c \in asks : \A w \in Shown :
    c.kind \in Lists /\ c.state = "answered" /\ w \notin DOMAIN c.answer /\ c.baseline[w] # 0 =>
      Gone(w) /\ \A i \in 1 .. Len(events) : events[i].of = w => i <= c.behind

\* A cleared row that has left the view does not come back, but for the replies
\* that cross.
LeftForGood ==
  /\ \A w \in Shown \ overtaken : Gone(w) /\ view[w] = Nothing =>
       /\ w \in clearedIds \/ NoEvents(w)
       /\ \A d \in asks : ~Showing(d, w)
  /\ \A w \in clearedIds \ overtaken : view[w] = Nothing
  /\ dropped \ overtaken \subseteq clearedIds

\* What brings the view of a live row up to date: an event, or the list of a
\* reconciliation.
Settles(w) ==
  \/ view[w] = stored[w]
  \/ \E i \in 1 .. Len(events) : events[i].of = w /\ events[i].state = stored[w]
  \/ \E c \in asks : c.kind = "reconcile" /\ c.state = "asked"
  \/ \E c \in asks : c.kind = "reconcile" /\ c.state = "answered" /\ w \in DOMAIN c.answer /\ c.answer[w] = stored[w]

\* What takes a cleared row out of the view: the reply to the clear, or the
\* list of a reconciliation that no older reply undoes.
Leaves(w) ==
  \/ view[w] = Nothing
  \/ \E c \in asks : c.kind = "clear" /\ c.state = "answered" /\ c.of = w
  \/ /\ NoEvents(w)
     /\ \E c \in asks :
          /\ c.kind = "reconcile" /\ c.baseline[w] = view[w].sequence /\ w \notin DOMAIN c.answer
          /\ \A d \in asks : w \in DOMAIN d.answer => d.id < c.id

OnTheWay ==
  up /\ ~swallowed =>
    \A w \in Shown : /\ stored[w] # Nothing => Settles(w)
                     /\ Gone(w) /\ w \notin overtaken => Leaves(w)

StoreInv ==
  /\ StoreShape /\ UnknownUnseen /\ StoredIsLatest /\ ClearsKnow /\ ListsMiss
  /\ LeftForGood /\ OnTheWay

\* The forms a call in flight takes.
Reply(c, a, n) == [c EXCEPT !.answer = a, !.state = "answered", !.behind = n]

SameCall(d, c) ==
  /\ d.kind = c.kind /\ d.of = c.of /\ d.id = c.id /\ d.state = c.state
  /\ d.baseline = c.baseline /\ d.answer = c.answer

LEMMA ReplyLemma ==
  ASSUME NEW c \in AskType, NEW a \in Answers1, NEW n \in Nat
  PROVE  LET d == Reply(c, a, n) IN
         /\ d \in AskType /\ d.kind = c.kind /\ d.of = c.of /\ d.id = c.id /\ d.baseline = c.baseline
         /\ d.state = "answered" /\ d.answer = a /\ d.behind = n
<1> HIDE DEF Answers1
<1> QED BY DEF Reply, AskType

LEMMA MovedLemma ==
  ASSUME NEW c \in AskType, NEW n \in Nat
  PROVE  LET d == [c EXCEPT !.behind = n] IN d \in AskType /\ SameCall(d, c) /\ d.behind = n
<1> HIDE DEF Answers1
<1> QED BY DEF AskType, SameCall

LEMMA EmptyAnswer == [x \in {} |-> Nothing] \in Answers1 /\ DOMAIN [x \in {} |-> Nothing] = {}
<1>1. [x \in {} |-> Nothing] \in [{} -> State]
  OBVIOUS
<1> QED BY <1>1 DEF Answers1

LEMMA AskedLemma ==
  ASSUME StoreShape, NEW kind \in Kinds, NEW w \in Shown
  PROVE  LET d == Asked(kind, w) IN
         /\ d \in AskType /\ d.kind = kind /\ d.of = w /\ d.id = issued /\ d.state = "asked"
         /\ DOMAIN d.answer = {}
         /\ \A x \in Shown : d.baseline[x] = IF kind \notin Lists \/ view[x] = Nothing THEN 0 ELSE view[x].sequence
<1> DEFINE base == [x \in Shown |-> IF kind \notin Lists \/ view[x] = Nothing THEN 0 ELSE view[x].sequence]
           none == [x \in {} |-> Nothing]
<1>1. base \in [Shown -> Nat]
  BY DEF StoreShape, State
<1>2. \A x \in Shown : base[x] = IF kind \notin Lists \/ view[x] = Nothing THEN 0 ELSE view[x].sequence
  OBVIOUS
<1>3. none \in Answers1 /\ DOMAIN none = {}
  BY EmptyAnswer
<1>4. issued \in Nat
  BY DEF StoreShape
<1>5. Asked(kind, w) = [kind |-> kind, of |-> w, id |-> issued, state |-> "asked", behind |-> 0,
                        baseline |-> base, answer |-> none]
  BY DEF Asked
<1> HIDE DEF base, none, Answers1
<1> QED BY <1>1, <1>2, <1>3, <1>4, <1>5 DEF AskType

\* A commit of a row, by a run or by a call, with its event.
Writes(w, r) ==
  /\ stored' = [stored EXCEPT ![w] = r]
  /\ events' = Append(events, [of |-> w, state |-> r])
  /\ w \in known => stored[w] # Nothing /\ stored[w].sequence < r.sequence /\ stored[w].attempt <= r.attempt
  /\ known' = known \cup {w}

\* Where the row comes from.
NextRow(w, r) ==
  \/ r = [attempt |-> 1, sequence |-> 1]
  \/ /\ stored[w] # Nothing /\ stored[w].sequence < MaxSequence
     /\ \E retried \in BOOLEAN : r = Advanced(stored[w], retried)

LEMMA AdvancedLemma ==
  ASSUME NEW x \in State, NEW retried \in BOOLEAN
  PROVE  Advanced(x, retried) \in State /\ x.sequence < Advanced(x, retried).sequence
           /\ x.attempt <= Advanced(x, retried).attempt
BY DEF State, Advanced

LEMMA CommitsWrites ==
  ASSUME StoreShape, UnknownUnseen, NEW w \in Shown, Commits(w)
  PROVE  \E r \in State : Writes(w, r)
<1>1. stored[w] \in State /\ stored[w] # Nothing /\ w \in known /\ known' = known /\ known \subseteq Shown
  BY DEF Commits, StoreShape, UnknownUnseen
<1> DEFINE r == Advanced(stored[w], FALSE)
<1>2. r \in State /\ stored[w].sequence < r.sequence /\ stored[w].attempt <= r.attempt
  BY <1>1, AdvancedLemma
<1>3. stored' = [stored EXCEPT ![w] = r] /\ stored'[w] = r
  BY DEF Commits, StoreShape
<1> HIDE DEF r
<1>4. events' = Append(events, [of |-> w, state |-> r])
  BY <1>3 DEF Commits, Emit
<1>5. known' = known \cup {w}
  BY <1>1
<1> QED BY <1>1, <1>2, <1>3, <1>4, <1>5 DEF Writes

\* The four things an answered call does.
Reads(c) ==
  /\ UNCHANGED <<stored, known, events>>
  /\ c.kind # "clear"
  /\ \E ids \in SUBSET Shown :
       /\ \A x \in ids : stored[x] # Nothing
       /\ c.kind \in Lists => \A x \in Shown : stored[x] # Nothing => x \in ids
       /\ asks' = (asks \ {c}) \cup {Reply(c, [x \in ids |-> stored[x]], Len(events))}

Changes(c) ==
  /\ c.kind \in {"change", "submit"}
  /\ \E w \in Shown, r \in State :
       /\ Writes(w, r) /\ NextRow(w, r)
       /\ asks' = (asks \ {c}) \cup {Reply(c, [x \in {w} |-> r], Len(events'))}

Removes(c) ==
  /\ UNCHANGED <<known, events>>
  /\ c.kind = "clear" /\ stored[c.of] # Nothing
  /\ stored' = [stored EXCEPT ![c.of] = Nothing]
  /\ asks' = (asks \ {c}) \cup {Reply(c, [x \in {} |-> Nothing], Len(events))}

Refuses(c) ==
  /\ UNCHANGED <<stored, known, events>>
  /\ c.kind \notin Lists
  /\ asks' = asks \ {c}

LEMMA AnswerCases ==
  ASSUME StoreShape, UnknownUnseen, NEW c \in asks, Answer(c)
  PROVE  Reads(c) \/ Changes(c) \/ Removes(c) \/ Refuses(c)
<1>1. /\ c \in AskType /\ c.of \in Shown
      /\ stored \in [Shown -> State \cup {Nothing}] /\ known \subseteq Shown
      /\ \A x \in Shown : stored[x] # Nothing => x \in known
  <2>1. c \in AskType /\ stored \in [Shown -> State \cup {Nothing}] /\ known \subseteq Shown
    BY DEF StoreShape
  <2> QED BY <2>1 DEF AskType, UnknownUnseen
<1>2. CASE /\ c.kind \in Lists
           /\ Answered(c, [w \in {x \in Shown : stored[x] # Nothing} |-> stored[w]], events)
           /\ UNCHANGED <<stored, known, events>>
  <2> DEFINE ids == {x \in Shown : stored[x] # Nothing}
  <2>1. asks' = (asks \ {c}) \cup {Reply(c, [x \in ids |-> stored[x]], Len(events))}
    BY <1>2 DEF Answered, Reply
  <2>2. ids \in SUBSET Shown /\ (\A x \in ids : stored[x] # Nothing) /\ \A x \in Shown : stored[x] # Nothing => x \in ids
    OBVIOUS
  <2>3. c.kind # "clear"
    BY <1>2 DEF Lists
  <2> HIDE DEF ids
  <2> QED BY <1>2, <2>1, <2>2, <2>3 DEF Reads
<1>3. CASE /\ c.kind \in {"get", "guarded", "selected"}
           /\ IF stored[c.of] = Nothing THEN Refused(c)
              ELSE Answered(c, [w \in {c.of} |-> stored[w]], events)
           /\ UNCHANGED <<stored, known, events>>
  <2>1. CASE stored[c.of] = Nothing
    BY <1>3, <2>1 DEF Refused, Refuses, Lists
  <2>2. CASE stored[c.of] # Nothing
    <3> DEFINE ids == {c.of}
    <3>1. asks' = (asks \ {c}) \cup {Reply(c, [x \in ids |-> stored[x]], Len(events))}
      BY <1>3, <2>2 DEF Answered, Reply
    <3>2. ids \in SUBSET Shown /\ (\A x \in ids : stored[x] # Nothing)
      BY <1>1, <2>2
    <3>3. c.kind # "clear" /\ c.kind \notin Lists
      BY <1>3 DEF Lists
    <3> HIDE DEF ids
    <3> QED BY <1>3, <3>1, <3>2, <3>3 DEF Reads
  <2> QED BY <2>1, <2>2
<1>4. CASE /\ c.kind = "change"
           /\ \/ Refused(c) /\ UNCHANGED <<stored, events>>
              \/ /\ stored[c.of] # Nothing /\ stored[c.of].sequence < MaxSequence
                 /\ \E retried \in BOOLEAN : stored' = [stored EXCEPT ![c.of] = Advanced(@, retried)]
                 /\ Emit(c.of)
                 /\ Answered(c, [w \in {c.of} |-> stored'[w]], events')
           /\ UNCHANGED known
  <2>1. CASE Refused(c) /\ UNCHANGED <<stored, events>>
    BY <1>4, <2>1 DEF Refused, Refuses, Lists
  <2>2. CASE /\ stored[c.of] # Nothing /\ stored[c.of].sequence < MaxSequence
             /\ \E retried \in BOOLEAN : stored' = [stored EXCEPT ![c.of] = Advanced(@, retried)]
             /\ Emit(c.of)
             /\ Answered(c, [w \in {c.of} |-> stored'[w]], events')
    <3>1. PICK retried \in BOOLEAN : stored' = [stored EXCEPT ![c.of] = Advanced(@, retried)]
      BY <2>2
    <3> DEFINE r == Advanced(stored[c.of], retried)
               w == c.of
    <3>2. stored[w] \in State /\ w \in known /\ w \in Shown
      BY <1>1, <2>2
    <3>3. r \in State /\ stored[w].sequence < r.sequence /\ stored[w].attempt <= r.attempt
      BY <3>2, AdvancedLemma
    <3>4. stored' = [stored EXCEPT ![w] = r] /\ stored'[w] = r
      BY <1>1, <3>1
    <3>10. NextRow(w, r)
      BY <2>2 DEF NextRow
    <3> HIDE DEF r
    <3>5. events' = Append(events, [of |-> w, state |-> r])
      BY <2>2, <3>4 DEF Emit
    <3>6. known' = known \cup {w}
      BY <1>4, <3>2
    <3>7. Writes(w, r)
      BY <2>2, <3>3, <3>4, <3>5, <3>6 DEF Writes
    <3>8. [x \in {w} |-> stored'[x]] = [x \in {w} |-> r]
      BY <3>4
    <3>9. asks' = (asks \ {c}) \cup {Reply(c, [x \in {w} |-> r], Len(events'))}
      BY <2>2, <3>8 DEF Answered, Reply
    <3> HIDE DEF w
    <3> QED BY <1>4, <3>2, <3>3, <3>7, <3>9, <3>10 DEF Changes
  <2> QED BY <1>4, <2>1, <2>2
<1>5. CASE /\ c.kind = "submit"
           /\ \E w \in Shown \ known :
                /\ known' = known \cup {w}
                /\ stored' = [stored EXCEPT ![w] = [attempt |-> 1, sequence |-> 1]]
                /\ Emit(w)
                /\ Answered(c, [x \in {w} |-> stored'[x]], events')
  <2>1. PICK w \in Shown \ known :
                /\ known' = known \cup {w}
                /\ stored' = [stored EXCEPT ![w] = [attempt |-> 1, sequence |-> 1]]
                /\ Emit(w)
                /\ Answered(c, [x \in {w} |-> stored'[x]], events')
    BY <1>5
  <2> DEFINE r == [attempt |-> 1, sequence |-> 1]
  <2>2. r \in State
    BY DEF State
  <2>3. stored' = [stored EXCEPT ![w] = r] /\ stored'[w] = r
    BY <1>1, <2>1
  <2>8. NextRow(w, r)
    BY DEF NextRow
  <2> HIDE DEF r
  <2>4. events' = Append(events, [of |-> w, state |-> r])
    BY <2>1, <2>3 DEF Emit
  <2>5. Writes(w, r)
    BY <2>1, <2>3, <2>4 DEF Writes
  <2>6. [x \in {w} |-> stored'[x]] = [x \in {w} |-> r]
    BY <2>3
  <2>7. asks' = (asks \ {c}) \cup {Reply(c, [x \in {w} |-> r], Len(events'))}
    BY <2>1, <2>6 DEF Answered, Reply
  <2> QED BY <1>5, <2>2, <2>5, <2>7, <2>8 DEF Changes
<1>6. CASE /\ c.kind = "clear"
           /\ IF stored[c.of] = Nothing THEN Refused(c)
              ELSE Answered(c, [w \in {} |-> Nothing], events)
           /\ stored' = [stored EXCEPT ![c.of] = Nothing]
           /\ UNCHANGED <<known, events>>
  <2>1. CASE stored[c.of] = Nothing
    <3>1. stored' = stored
      BY <1>1, <1>6, <2>1
    <3> QED BY <1>6, <2>1, <3>1 DEF Refused, Refuses, Lists
  <2>2. CASE stored[c.of] # Nothing
    BY <1>6, <2>2 DEF Answered, Reply, Removes
  <2> QED BY <2>1, <2>2
<1> QED BY <1>2, <1>3, <1>4, <1>5, <1>6 DEF Answer

LEMMA StoreInitInv == StoreInit => StoreInv
<1> SUFFICES ASSUME StoreInit PROVE StoreInv
  OBVIOUS
<1>1. /\ events = <<>> /\ Len(events) = 0 /\ asks = {} /\ known = {} /\ clearedIds = {} /\ issued = 0
      /\ dropped = {} /\ stored = [w \in Shown |-> Nothing] /\ view = [w \in Shown |-> Nothing]
  BY DEF StoreInit
<1>2. StoreShape
  BY <1>1 DEF StoreShape
<1>3. \A w \in Shown : NoEvents(w)
  BY <1>1 DEF NoEvents
<1>4. UnknownUnseen /\ StoredIsLatest /\ ClearsKnow /\ ListsMiss /\ LeftForGood
  BY <1>1, <1>3 DEF UnknownUnseen, StoredIsLatest, ClearsKnow, ListsMiss, LeftForGood
<1>5. OnTheWay
  BY <1>1 DEF OnTheWay, Gone
<1> QED BY <1>2, <1>4, <1>5 DEF StoreInv

-----------------------------------------------------------------------------
(* A row is written.                                                       *)

LEMMA WritesFacts ==
  ASSUME StoreInv, NEW w \in Shown, NEW r \in State, Writes(w, r)
  PROVE  /\ stored' \in [Shown -> State \cup {Nothing}] /\ stored'[w] = r
         /\ \A x \in Shown : x # w => stored'[x] = stored[x]
         /\ events' \in Seq([of : Shown, state : State]) /\ Len(events') = Len(events) + 1 /\ Len(events) \in Nat
         /\ events'[Len(events) + 1] = [of |-> w, state |-> r]
         /\ \A i \in 1 .. Len(events) : events'[i] = events[i] /\ i \in 1 .. Len(events')
         /\ \A i \in 1 .. Len(events') : i \in 1 .. Len(events) \/ i = Len(events) + 1
         /\ known' = known \cup {w} /\ w \notin clearedIds /\ ~Gone(w)
         /\ \A x \in Shown : x # w => (Gone(x)' <=> Gone(x))
         /\ ~Gone(w)' /\ r # Nothing
<1>1. /\ stored \in [Shown -> State \cup {Nothing}] /\ events \in Seq([of : Shown, state : State])
  BY DEF StoreInv, StoreShape
<1>2. r # Nothing
  BY StoreAssumption DEF State
<1>3. /\ stored' = [stored EXCEPT ![w] = r] /\ events' = Append(events, [of |-> w, state |-> r])
      /\ known' = known \cup {w} /\ (w \in known => stored[w] # Nothing)
  BY DEF Writes
<1>4. ~Gone(w) /\ w \notin clearedIds
  BY <1>3 DEF Gone, StoreInv, ClearsKnow
<1>5. [of |-> w, state |-> r] \in [of : Shown, state : State]
  OBVIOUS
<1> HIDE DEF Writes
<1>6. /\ events' \in Seq([of : Shown, state : State]) /\ Len(events') = Len(events) + 1 /\ Len(events) \in Nat
      /\ events'[Len(events) + 1] = [of |-> w, state |-> r]
      /\ \A i \in 1 .. Len(events) : events'[i] = events[i] /\ i \in 1 .. Len(events')
  BY <1>1, <1>3, <1>5
<1>7. \A i \in 1 .. Len(events') : i \in 1 .. Len(events) \/ i = Len(events) + 1
  BY <1>6
<1>8. /\ stored' \in [Shown -> State \cup {Nothing}] /\ stored'[w] = r
      /\ \A x \in Shown : x # w => stored'[x] = stored[x]
  BY <1>1, <1>3
<1>9. (\A x \in Shown : x # w => (Gone(x)' <=> Gone(x))) /\ ~Gone(w)'
  BY <1>2, <1>3, <1>8 DEF Gone
<1> QED BY <1>2, <1>3, <1>4, <1>6, <1>7, <1>8, <1>9

LEMMA NoEventsWritten ==
  ASSUME StoreInv, NEW w \in Shown, NEW r \in State, Writes(w, r), NEW x, x # w, NoEvents(x)
  PROVE  NoEvents(x)'
<1> SUFFICES ASSUME NEW i \in 1 .. Len(events') PROVE events'[i].of # x
  BY DEF NoEvents
<1>1. /\ \A j \in 1 .. Len(events) : events'[j] = events[j]
      /\ events'[Len(events) + 1] = [of |-> w, state |-> r]
      /\ i \in 1 .. Len(events) \/ i = Len(events) + 1
  BY WritesFacts
<1> QED BY <1>1 DEF NoEvents

LEMMA NoLaterTrans ==
  ASSUME NEW x \in State, NEW y \in State, NEW z \in State, NoLater(x, y),
         y.sequence < z.sequence, y.attempt <= z.attempt
  PROVE  NoLater(x, z)
BY DEF State, NoLater

LEMMA NoLaterSelf == ASSUME NEW x \in State PROVE NoLater(x, x)
BY DEF State, NoLater

\* What the other parts of the invariant become when a row is written, by a
\* run or by the call c.
LEMMA WritesInv ==
  ASSUME StoreInv, NEW w \in Shown, NEW r \in State, Writes(w, r),
         UNCHANGED <<up, view, clearedIds, issued, stops, dropped, overtaken, swallowed>>,
         NEW e, NEW c,
         \/ asks' = asks
         \/ /\ c \in asks /\ asks' = (asks \ {c}) \cup {e}
            /\ e \in AskType /\ e.state = "answered" /\ DOMAIN e.answer = {w} /\ e.answer[w] = r
            /\ c.id = e.id /\ c.kind = e.kind /\ c.baseline = e.baseline /\ DOMAIN c.answer = {}
            /\ e.kind \in {"change", "submit"}
  PROVE  StoreInv'
<1>a. /\ stored' \in [Shown -> State \cup {Nothing}] /\ stored'[w] = r
      /\ \A x \in Shown : x # w => stored'[x] = stored[x]
      /\ events' \in Seq([of : Shown, state : State]) /\ Len(events') = Len(events) + 1 /\ Len(events) \in Nat
      /\ events'[Len(events) + 1] = [of |-> w, state |-> r]
      /\ \A i \in 1 .. Len(events) : events'[i] = events[i] /\ i \in 1 .. Len(events')
      /\ \A i \in 1 .. Len(events') : i \in 1 .. Len(events) \/ i = Len(events) + 1
      /\ known' = known \cup {w} /\ w \notin clearedIds /\ ~Gone(w)
      /\ \A x \in Shown : x # w => (Gone(x)' <=> Gone(x))
      /\ ~Gone(w)' /\ r # Nothing
  BY WritesFacts
<1>b. /\ \A i \in 1 .. Len(events) : events[i].of \in Shown /\ events[i].state \in State
      /\ known \subseteq Shown /\ clearedIds \subseteq Shown
      /\ \A x \in Shown : stored[x] # Nothing => stored[x] \in State
      /\ \A x \in Shown : view[x] # Nothing => view[x] \in State
  <2>1. /\ events \in Seq([of : Shown, state : State]) /\ known \subseteq Shown /\ clearedIds \subseteq Shown
        /\ stored \in [Shown -> State \cup {Nothing}] /\ view \in [Shown -> State \cup {Nothing}]
    BY DEF StoreInv, StoreShape
  <2>2. \A i \in 1 .. Len(events) : events[i] \in [of : Shown, state : State]
    BY <2>1, ElementOfSeq
  <2> QED BY <2>1, <2>2
<1>0. /\ StoreShape /\ UnknownUnseen /\ StoredIsLatest /\ ClearsKnow /\ ListsMiss /\ LeftForGood /\ OnTheWay
  BY DEF StoreInv
<1>1. /\ up' = up /\ view' = view /\ clearedIds' = clearedIds /\ issued' = issued
      /\ dropped' = dropped /\ overtaken' = overtaken /\ swallowed' = swallowed
  OBVIOUS
<1> DEFINE New(d) ==
             /\ c \in asks
             /\ d \in AskType /\ d.state = "answered" /\ DOMAIN d.answer = {w} /\ d.answer[w] = r
             /\ c.id = d.id /\ c.baseline = d.baseline /\ d.kind \in {"change", "submit"}
<1>2. \A d \in asks' : d \in asks \/ New(d)
  OBVIOUS
<1>3. \A d \in asks : d \in AskType /\ d.id < issued /\ (d.state = "asked" => DOMAIN d.answer = {})
  BY <1>0 DEF StoreShape
<1>4. StoreShape'
  <2>1. \A d \in asks' : d \in AskType /\ d.id < issued /\ (d.state = "asked" => DOMAIN d.answer = {})
    BY <1>2, <1>3
  <2>2. known' \subseteq Shown
    BY <1>a, <1>b
  <2>3. view' \in [Shown -> State \cup {Nothing}] /\ clearedIds' \subseteq Shown /\ issued' \in Nat
    BY <1>0, <1>1 DEF StoreShape
  <2>4. \A d \in asks' : d.id < issued'
    BY <1>1, <2>1
  <2> QED BY <1>a, <2>1, <2>2, <2>3, <2>4 DEF StoreShape
<1>5. UnknownUnseen'
  <2> SUFFICES ASSUME NEW x \in Shown \ known'
               PROVE  /\ stored'[x] = Nothing /\ view'[x] = Nothing /\ NoEvents(x)'
                      /\ \A d \in asks' : x \notin DOMAIN d.answer /\ d.baseline[x] = 0
    BY DEF UnknownUnseen
  <2>1. x \in Shown \ known /\ x # w
    BY <1>a
  <2>2. /\ stored[x] = Nothing /\ view[x] = Nothing /\ NoEvents(x)
        /\ \A d \in asks : x \notin DOMAIN d.answer /\ d.baseline[x] = 0
    BY <2>1, <1>0 DEF UnknownUnseen
  <2>3. NoEvents(x)'
    BY <2>1, <2>2, NoEventsWritten
  <2>4. \A d \in asks' : x \notin DOMAIN d.answer /\ d.baseline[x] = 0
    BY <1>2, <2>1, <2>2
  <2> QED BY <1>1, <1>a, <2>1, <2>2, <2>3, <2>4
<1>6. StoredIsLatest'
  <2> SUFFICES ASSUME NEW x \in Shown, stored'[x] # Nothing
               PROVE  /\ view[x] # Nothing => NoLater(view[x], stored'[x])
                      /\ \A i \in 1 .. Len(events') : events'[i].of = x => NoLater(events'[i].state, stored'[x])
                      /\ \A d \in asks' : x \in DOMAIN d.answer => NoLater(d.answer[x], stored'[x])
    BY <1>1 DEF StoredIsLatest
  <2>1. CASE x # w
    <3>1. stored'[x] = stored[x] /\ stored[x] # Nothing
      BY <2>1, <1>a
    <3>2. ASSUME NEW i \in 1 .. Len(events'), events'[i].of = x PROVE NoLater(events'[i].state, stored'[x])
      <4>1. i \in 1 .. Len(events) /\ events'[i] = events[i]
        BY <2>1, <3>2, <1>a
      <4> QED BY <3>1, <3>2, <4>1, <1>0 DEF StoredIsLatest
    <3>3. ASSUME NEW d \in asks', x \in DOMAIN d.answer PROVE NoLater(d.answer[x], stored'[x])
      <4>1. d \in asks
        BY <1>2, <2>1, <3>3
      <4> QED BY <3>1, <3>3, <4>1, <1>0 DEF StoredIsLatest
    <3> QED BY <3>1, <3>2, <3>3, <1>0 DEF StoredIsLatest
  <2>2. CASE x = w
    <3>1. ASSUME NEW y \in State, w \in known => NoLater(y, stored[w]), w \in known
          PROVE  NoLater(y, r)
      <4>1. stored[w] \in State /\ stored[w].sequence < r.sequence /\ stored[w].attempt <= r.attempt
        BY <3>1, <1>0 DEF Writes, StoreShape
      <4> QED BY <3>1, <4>1, NoLaterTrans
    <3>2. w \in known => stored[w] # Nothing
      BY DEF Writes
    <3>3. NoLater(r, r)
      BY NoLaterSelf
    <3>4. ASSUME view[w] # Nothing PROVE NoLater(view[w], r)
      <4>1. w \in known
        BY <3>4, <1>0 DEF UnknownUnseen
      <4>2. view[w] \in State /\ NoLater(view[w], stored[w])
        BY <3>2, <3>4, <4>1, <1>0 DEF StoreShape, StoredIsLatest
      <4> QED BY <3>1, <4>1, <4>2
    <3>5. ASSUME NEW i \in 1 .. Len(events'), events'[i].of = w PROVE NoLater(events'[i].state, r)
      <4>1. CASE i = Len(events) + 1
        BY <4>1, <3>3, <1>a
      <4>2. CASE i # Len(events) + 1
        <5>1. i \in 1 .. Len(events) /\ events'[i] = events[i] /\ events[i].of = w
          BY <4>2, <3>5, <1>a
        <5>2. w \in known
          BY <5>1, <1>0 DEF UnknownUnseen, NoEvents
        <5>3. events[i].state \in State /\ NoLater(events[i].state, stored[w])
          BY <3>2, <5>1, <5>2, <1>0, <1>b DEF StoredIsLatest
        <5> QED BY <3>1, <5>1, <5>2, <5>3
      <4> QED BY <4>1, <4>2
    <3>6. ASSUME NEW d \in asks', w \in DOMAIN d.answer PROVE NoLater(d.answer[w], r)
      <4>1. CASE New(d)
        BY <4>1, <3>3
      <4>2. CASE ~New(d)
        <5>1. d \in asks
          BY <4>2, <1>2
        <5>2. w \in known
          BY <3>6, <5>1, <1>0 DEF UnknownUnseen
        <5>3. NoLater(d.answer[w], stored[w])
          BY <3>2, <3>6, <5>1, <5>2, <1>0 DEF StoredIsLatest
        <5>4. d.answer[w] \in State
          <6>1. d.answer \in Answers1
            BY <5>1, <1>3 DEF AskType
          <6> QED BY <3>6, <6>1 DEF Answers1
        <5> QED BY <3>1, <5>2, <5>3, <5>4
      <4> QED BY <4>1, <4>2
    <3> QED BY <2>2, <3>4, <3>5, <3>6, <1>a
  <2> QED BY <2>1, <2>2
<1>7. ClearsKnow'
  <2>1. clearedIds' \subseteq known' /\ \A x \in clearedIds' : Gone(x)'
    <3>1. \A x \in clearedIds : x \in Shown /\ x # w /\ x \in known /\ Gone(x)
      BY <1>0, <1>a, <1>b DEF ClearsKnow
    <3> QED BY <1>1, <1>a, <3>1
  <2>2. ASSUME NEW d \in asks', d.kind = "clear"
        PROVE  /\ d.of \in known'
               /\ d.state = "answered" => Gone(d.of)'
               /\ stored'[d.of] # Nothing => view'[d.of] # Nothing
    <3>1. d \in asks /\ d.of \in Shown
      BY <1>2, <1>3, <2>2 DEF AskType
    <3>2. /\ d.of \in known /\ (d.state = "answered" => Gone(d.of))
          /\ (stored[d.of] # Nothing => view[d.of] # Nothing)
      BY <2>2, <3>1, <1>0 DEF ClearsKnow
    <3>3. d.of = w => stored[d.of] # Nothing
      BY <3>2 DEF Writes
    <3> QED BY <1>1, <1>a, <3>1, <3>2, <3>3
  <2> QED BY <2>1, <2>2 DEF ClearsKnow
<1>8. ListsMiss'
  <2> SUFFICES ASSUME NEW d \in asks', NEW x \in Shown,
                      d.kind \in Lists /\ d.state = "answered" /\ x \notin DOMAIN d.answer /\ d.baseline[x] # 0
               PROVE  Gone(x)' /\ \A i \in 1 .. Len(events') : events'[i].of = x => i <= d.behind
    BY DEF ListsMiss
  <2>1. d \in asks
    BY <1>2 DEF Lists
  <2>2. Gone(x) /\ \A i \in 1 .. Len(events) : events[i].of = x => i <= d.behind
    BY <2>1, <1>0 DEF ListsMiss
  <2>3. x # w /\ Gone(x)'
    BY <2>2, <1>a
  <2>4. ASSUME NEW i \in 1 .. Len(events'), events'[i].of = x PROVE i <= d.behind
    <3>1. i \in 1 .. Len(events) /\ events'[i] = events[i]
      BY <2>3, <2>4, <1>a
    <3> QED BY <2>2, <2>4, <3>1
  <2> QED BY <2>3, <2>4
<1>9. LeftForGood'
  <2>1. ASSUME NEW x \in Shown \ overtaken, Gone(x)', view[x] = Nothing
        PROVE  (x \in clearedIds \/ NoEvents(x)') /\ \A d \in asks' : ~Showing(d, x)'
    <3>1. x # w /\ Gone(x)
      BY <2>1, <1>a
    <3>2. (x \in clearedIds \/ NoEvents(x)) /\ \A d \in asks : ~Showing(d, x)
      BY <2>1, <3>1, <1>0 DEF LeftForGood
    <3>3. NoEvents(x) => NoEvents(x)'
      BY <3>1, NoEventsWritten
    <3>4. \A d \in asks' : ~Showing(d, x)'
      BY <1>1, <1>2, <3>1, <3>2 DEF Showing
    <3> QED BY <3>2, <3>3, <3>4
  <2> QED BY <1>0, <1>1, <2>1 DEF LeftForGood
<1>10. OnTheWay'
  <2> SUFFICES ASSUME up, ~swallowed, NEW x \in Shown
               PROVE  /\ stored'[x] # Nothing => Settles(x)'
                      /\ Gone(x)' /\ x \notin overtaken => Leaves(x)'
    BY <1>1 DEF OnTheWay
  <2>1. CASE x = w
    <3>1. Settles(w)'
      <4>1. Len(events) + 1 \in 1 .. Len(events') /\ events'[Len(events) + 1].of = w /\ events'[Len(events) + 1].state = stored'[w]
        BY <1>a
      <4> QED BY <4>1 DEF Settles
    <3> QED BY <2>1, <3>1, <1>a
  <2>2. CASE x # w
    <3>1. (stored[x] # Nothing => Settles(x)) /\ (Gone(x) /\ x \notin overtaken => Leaves(x))
      BY <1>0 DEF OnTheWay
    <3>2. \A d \in asks : d.kind \in {"reconcile", "clear"} => d \in asks'
      OBVIOUS
    <3>3. ASSUME stored'[x] # Nothing PROVE Settles(x)'
      <4>1. Settles(x) /\ stored'[x] = stored[x]
        BY <2>2, <3>1, <3>3, <1>a
      <4>2. CASE view[x] = stored[x]
        BY <4>1, <4>2, <1>1 DEF Settles
      <4>3. CASE \E i \in 1 .. Len(events) : events[i].of = x /\ events[i].state = stored[x]
        <5>1. \E i \in 1 .. Len(events') : events'[i].of = x /\ events'[i].state = stored'[x]
          BY <4>1, <4>3, <1>a
        <5> QED BY <5>1 DEF Settles
      <4>4. CASE \E d \in asks : d.kind = "reconcile" /\ d.state = "asked"
        BY <4>4, <3>2 DEF Settles
      <4>5. CASE \E d \in asks : d.kind = "reconcile" /\ d.state = "answered" /\ x \in DOMAIN d.answer /\ d.answer[x] = stored[x]
        BY <4>1, <4>5, <3>2 DEF Settles
      <4> QED BY <4>1, <4>2, <4>3, <4>4, <4>5 DEF Settles
    <3>4. ASSUME Gone(x)', x \notin overtaken PROVE Leaves(x)'
      <4>1. Leaves(x)
        BY <2>2, <3>1, <3>4, <1>a
      <4>2. NoEvents(x) => NoEvents(x)'
        BY <2>2, NoEventsWritten
      <4>3. ASSUME NEW b \in asks, b.kind = "reconcile", \A d \in asks : x \in DOMAIN d.answer => d.id < b.id
            PROVE  b \in asks' /\ \A d \in asks' : x \in DOMAIN d.answer => d.id < b.id
        BY <2>2, <3>2, <4>3, <1>2
      <4> QED BY <4>1, <4>2, <4>3, <3>2, <1>1 DEF Leaves
    <3> QED BY <3>3, <3>4
  <2> QED BY <2>1, <2>2
<1> QED BY <1>4, <1>5, <1>6, <1>7, <1>8, <1>9, <1>10 DEF StoreInv

LEMMA CommitsInv == ASSUME StoreInv, NEW w \in Shown, Commits(w) PROVE StoreInv'
<1>1. PICK r \in State : Writes(w, r)
  BY CommitsWrites DEF StoreInv
<1>2. UNCHANGED <<up, asks, view, clearedIds, issued, stops, dropped, overtaken, swallowed>>
  BY DEF Commits
<1> QED BY <1>1, <1>2, WritesInv

-----------------------------------------------------------------------------
(* A call is answered.                                                     *)

LEMMA ChangesInv ==
  ASSUME StoreInv, NEW c \in asks, c.state = "asked", Changes(c),
         UNCHANGED <<up, view, clearedIds, issued, stops, dropped, overtaken, swallowed>>
  PROVE  StoreInv'
<1>1. PICK w \in Shown, r \in State :
        /\ Writes(w, r)
        /\ asks' = (asks \ {c}) \cup {Reply(c, [x \in {w} |-> r], Len(events'))}
  BY DEF Changes
<1> DEFINE a == [x \in {w} |-> r]
           e == Reply(c, a, Len(events'))
<1>2. c \in AskType /\ DOMAIN c.answer = {} /\ c.kind \in {"change", "submit"}
  BY DEF StoreInv, StoreShape, Changes
<1>3. a \in Answers1 /\ DOMAIN a = {w} /\ a[w] = r
  <2>1. a \in [{w} -> State] /\ {w} \in SUBSET Shown
    OBVIOUS
  <2> QED BY <2>1 DEF Answers1
<1>4. Len(events') \in Nat
  BY <1>1, WritesFacts
<1>5. /\ e \in AskType /\ e.state = "answered" /\ e.kind = c.kind /\ e.id = c.id /\ e.baseline = c.baseline
      /\ e.answer = a
  <2> HIDE DEF a
  <2> QED BY <1>2, <1>3, <1>4, ReplyLemma
<1>6. DOMAIN e.answer = {w} /\ e.answer[w] = r
  BY <1>3, <1>5
<1>7. asks' = (asks \ {c}) \cup {e}
  BY <1>1
<1> HIDE DEF e
<1> QED BY <1>1, <1>2, <1>5, <1>6, <1>7, WritesInv

LEMMA ReadsInv ==
  ASSUME StoreInv, NEW c \in asks, c.state = "asked", Reads(c),
         UNCHANGED <<up, view, clearedIds, issued, stops, dropped, overtaken, swallowed>>
  PROVE  StoreInv'
<1>0. /\ StoreShape /\ UnknownUnseen /\ StoredIsLatest /\ ClearsKnow /\ ListsMiss /\ LeftForGood /\ OnTheWay
  BY DEF StoreInv
<1>1. PICK ids \in SUBSET Shown :
        /\ \A x \in ids : stored[x] # Nothing
        /\ c.kind \in Lists => \A x \in Shown : stored[x] # Nothing => x \in ids
        /\ asks' = (asks \ {c}) \cup {Reply(c, [x \in ids |-> stored[x]], Len(events))}
  BY DEF Reads
<1> DEFINE a == [x \in ids |-> stored[x]]
           e == Reply(c, a, Len(events))
<1>2. /\ c \in AskType /\ c.id < issued /\ c.kind # "clear" /\ Len(events) \in Nat
      /\ \A x \in Shown : stored[x] # Nothing => stored[x] \in State
  BY <1>0 DEF StoreShape, Reads
<1>3. a \in Answers1 /\ DOMAIN a = ids /\ \A x \in ids : a[x] = stored[x] /\ a[x] \in State
  <2>1. a \in [ids -> State]
    BY <1>1, <1>2
  <2> QED BY <1>2, <2>1, <1>1 DEF Answers1
<1>4. /\ e \in AskType /\ e.state = "answered" /\ e.kind = c.kind /\ e.id = c.id /\ e.baseline = c.baseline
      /\ e.behind = Len(events) /\ e.answer = a
  <2> HIDE DEF a
  <2> QED BY <1>2, <1>3, ReplyLemma
<1>5. DOMAIN e.answer = ids /\ \A x \in ids : e.answer[x] = stored[x] /\ e.answer[x] \in State /\ stored[x] # Nothing
  BY <1>1, <1>3, <1>4
<1>6. asks' = (asks \ {c}) \cup {e}
  BY <1>1
<1> HIDE DEF e, a
<1>7. /\ stored' = stored /\ known' = known /\ events' = events /\ up' = up /\ view' = view
      /\ clearedIds' = clearedIds /\ issued' = issued /\ dropped' = dropped /\ overtaken' = overtaken
      /\ swallowed' = swallowed
  BY DEF Reads
<1>8. \A x \in Shown : (Gone(x)' <=> Gone(x)) /\ (NoEvents(x)' <=> NoEvents(x))
  BY <1>7 DEF Gone, NoEvents
<1>9. StoreShape'
  <2>1. \A d \in asks' : d \in AskType /\ d.id < issued /\ (d.state = "asked" => DOMAIN d.answer = {})
    BY <1>0, <1>2, <1>4, <1>6 DEF StoreShape
  <2> QED BY <1>0, <1>7, <2>1 DEF StoreShape
<1>10. UnknownUnseen'
  <2>1. ASSUME NEW x \in Shown \ known, NEW d \in asks' PROVE x \notin DOMAIN d.answer /\ d.baseline[x] = 0
    BY <1>0, <1>4, <1>5, <1>6 DEF UnknownUnseen
  <2> QED BY <1>0, <1>7, <1>8, <2>1 DEF UnknownUnseen
<1>11. StoredIsLatest'
  <2>1. ASSUME NEW x \in Shown, stored[x] # Nothing, NEW d \in asks', x \in DOMAIN d.answer
        PROVE  NoLater(d.answer[x], stored[x])
    <3>1. CASE d = e
      BY <3>1, <2>1, <1>2, <1>5, NoLaterSelf
    <3>2. CASE d # e
      BY <3>2, <2>1, <1>0, <1>6 DEF StoredIsLatest
    <3> QED BY <3>1, <3>2
  <2> QED BY <1>0, <1>7, <2>1 DEF StoredIsLatest
<1>12. ClearsKnow'
  <2>1. \A d \in asks' : d.kind = "clear" => d \in asks
    BY <1>2, <1>4, <1>6
  <2>2. \A d \in asks : d.of \in Shown
    BY <1>0 DEF StoreShape, AskType
  <2>3. \A x \in clearedIds : x \in Shown
    BY <1>0 DEF StoreShape
  <2> QED BY <1>0, <1>7, <1>8, <2>1, <2>2, <2>3 DEF ClearsKnow
<1>13. ListsMiss'
  <2> SUFFICES ASSUME NEW d \in asks', NEW x \in Shown,
                      d.kind \in Lists /\ d.state = "answered" /\ x \notin DOMAIN d.answer /\ d.baseline[x] # 0
               PROVE  Gone(x) /\ \A i \in 1 .. Len(events) : events[i].of = x => i <= d.behind
    BY <1>7, <1>8 DEF ListsMiss
  <2>1. CASE d = e
    <3>1. stored[x] = Nothing /\ c.baseline[x] # 0
      BY <2>1, <1>1, <1>4, <1>5
    <3>2. x \in known
      BY <3>1, <1>0 DEF UnknownUnseen
    <3>3. \A i \in 1 .. Len(events) : i <= d.behind
      BY <2>1, <1>2, <1>4
    <3> QED BY <3>1, <3>2, <3>3 DEF Gone
  <2>2. CASE d # e
    BY <2>2, <1>0, <1>6 DEF ListsMiss
  <2> QED BY <2>1, <2>2
<1>14. LeftForGood'
  <2>1. ASSUME NEW x \in Shown, Gone(x), \A d \in asks : ~Showing(d, x), NEW d \in asks'
        PROVE  ~Showing(d, x)'
    <3>1. x \notin DOMAIN e.answer
      BY <2>1, <1>5 DEF Gone
    <3> QED BY <2>1, <3>1, <1>6, <1>7 DEF Showing
  <2> QED BY <1>0, <1>7, <1>8, <2>1 DEF LeftForGood
<1>15. OnTheWay'
  <2> SUFFICES ASSUME up, ~swallowed, NEW x \in Shown
               PROVE  /\ stored[x] # Nothing => Settles(x)'
                      /\ Gone(x) /\ x \notin overtaken => Leaves(x)'
    BY <1>7, <1>8 DEF OnTheWay
  <2>1. (stored[x] # Nothing => Settles(x)) /\ (Gone(x) /\ x \notin overtaken => Leaves(x))
    BY <1>0 DEF OnTheWay
  <2>2. ASSUME stored[x] # Nothing PROVE Settles(x)'
    <3>1. CASE c.kind = "reconcile"
      <4>1. x \in DOMAIN e.answer /\ e.answer[x] = stored[x] /\ e \in asks' /\ e.kind = "reconcile" /\ e.state = "answered"
        BY <3>1, <2>2, <1>1, <1>4, <1>5, <1>6 DEF Lists
      <4> QED BY <4>1, <1>7 DEF Settles
    <3>2. CASE c.kind # "reconcile"
      <4>1. \A d \in asks : d.kind = "reconcile" => d \in asks'
        BY <3>2, <1>6
      <4> QED BY <2>1, <2>2, <4>1, <1>7 DEF Settles
    <3> QED BY <3>1, <3>2
  <2>3. ASSUME Gone(x), x \notin overtaken PROVE Leaves(x)'
    <3>1. Leaves(x) /\ x \notin DOMAIN e.answer
      BY <2>1, <2>3, <1>5 DEF Gone
    <3>2. CASE view[x] = Nothing
      BY <3>2, <1>7 DEF Leaves
    <3>3. CASE \E d \in asks : d.kind = "clear" /\ d.state = "answered" /\ d.of = x
      <4>1. \E d \in asks' : d.kind = "clear" /\ d.state = "answered" /\ d.of = x
        BY <3>3, <1>2, <1>6
      <4> QED BY <4>1 DEF Leaves
    <3>4. CASE /\ NoEvents(x)
               /\ \E b \in asks : /\ b.kind = "reconcile" /\ b.baseline[x] = view[x].sequence /\ x \notin DOMAIN b.answer
                                  /\ \A d \in asks : x \in DOMAIN d.answer => d.id < b.id
      <4>1. PICK b \in asks : /\ b.kind = "reconcile" /\ b.baseline[x] = view[x].sequence /\ x \notin DOMAIN b.answer
                              /\ \A d \in asks : x \in DOMAIN d.answer => d.id < b.id
        BY <3>4
      <4>2. \A d \in asks' : x \in DOMAIN d.answer => d.id < b.id
        BY <4>1, <3>1, <1>6
      <4>3. CASE b = c
        <5>1. e \in asks' /\ e.kind = "reconcile" /\ e.baseline[x] = view[x].sequence /\ e.id = b.id
          BY <4>1, <4>3, <1>4, <1>6
        <5> QED BY <5>1, <4>2, <3>1, <3>4, <1>7, <1>8 DEF Leaves
      <4>4. CASE b # c
        <5>1. b \in asks'
          BY <4>4, <1>6
        <5> QED BY <5>1, <4>1, <4>2, <3>4, <1>7, <1>8 DEF Leaves
      <4> QED BY <4>3, <4>4
    <3> QED BY <3>1, <3>2, <3>3, <3>4 DEF Leaves
  <2> QED BY <2>2, <2>3
<1> QED BY <1>9, <1>10, <1>11, <1>12, <1>13, <1>14, <1>15 DEF StoreInv

LEMMA RemovesInv ==
  ASSUME StoreInv, NEW c \in asks, c.state = "asked", Removes(c),
         UNCHANGED <<up, view, clearedIds, issued, stops, dropped, overtaken, swallowed>>
  PROVE  StoreInv'
<1> DEFINE w == c.of
           none == [x \in {} |-> Nothing]
           e == Reply(c, none, Len(events))
<1>0. /\ StoreShape /\ UnknownUnseen /\ StoredIsLatest /\ ClearsKnow /\ ListsMiss /\ LeftForGood /\ OnTheWay
  BY DEF StoreInv
<1>1. /\ c \in AskType /\ c.id < issued /\ c.kind = "clear" /\ Len(events) \in Nat
      /\ w \in Shown /\ w \in known /\ stored[w] # Nothing /\ view[w] # Nothing
  <2>1. c \in AskType /\ c.id < issued /\ c.kind = "clear" /\ Len(events) \in Nat /\ stored[w] # Nothing
    BY <1>0 DEF StoreShape, Removes
  <2>2. w \in Shown
    BY <2>1 DEF AskType
  <2> QED BY <2>1, <2>2, <1>0 DEF ClearsKnow
<1>2. /\ e \in AskType /\ e.state = "answered" /\ e.kind = "clear" /\ e.id = c.id /\ e.of = w /\ e.baseline = c.baseline
      /\ DOMAIN e.answer = {}
  <2> HIDE DEF none
  <2>1. none \in Answers1 /\ DOMAIN none = {}
    BY EmptyAnswer DEF none
  <2> QED BY <1>1, <2>1, ReplyLemma
<1>3. asks' = (asks \ {c}) \cup {e}
  BY DEF Removes
<1> HIDE DEF e, w
<1>4. /\ known' = known /\ events' = events /\ up' = up /\ view' = view
      /\ clearedIds' = clearedIds /\ issued' = issued /\ dropped' = dropped /\ overtaken' = overtaken
      /\ swallowed' = swallowed
  BY DEF Removes
<1>5. /\ stored' \in [Shown -> State \cup {Nothing}] /\ stored'[w] = Nothing
      /\ \A x \in Shown : x # w => stored'[x] = stored[x]
  BY <1>0, <1>1 DEF Removes, StoreShape, w
<1>6. /\ \A x \in Shown : Gone(x)' <=> (Gone(x) \/ x = w)
      /\ \A x \in Shown : NoEvents(x)' <=> NoEvents(x)
  BY <1>1, <1>4, <1>5 DEF Gone, NoEvents
<1>7. ~Gone(w)
  BY <1>1 DEF Gone
<1>8. \A d \in asks' : d = e \/ d \in asks
  BY <1>3
<1>9. StoreShape'
  <2>1. \A d \in asks' : d \in AskType /\ d.id < issued /\ (d.state = "asked" => DOMAIN d.answer = {})
    BY <1>0, <1>1, <1>2, <1>3 DEF StoreShape
  <2> QED BY <1>0, <1>4, <1>5, <2>1 DEF StoreShape
<1>10. UnknownUnseen'
  <2>1. ASSUME NEW x \in Shown \ known, NEW d \in asks' PROVE x \notin DOMAIN d.answer /\ d.baseline[x] = 0
    BY <1>0, <1>2, <1>8 DEF UnknownUnseen
  <2>2. ASSUME NEW x \in Shown \ known PROVE stored'[x] = Nothing /\ view[x] = Nothing /\ NoEvents(x)
    BY <1>0, <1>5, <1>1 DEF UnknownUnseen
  <2> QED BY <1>4, <1>6, <2>1, <2>2 DEF UnknownUnseen
<1>11. StoredIsLatest'
  <2>1. ASSUME NEW x \in Shown, stored'[x] # Nothing PROVE stored'[x] = stored[x]
    BY <2>1, <1>5
  <2>2. ASSUME NEW x \in Shown, stored[x] # Nothing, NEW d \in asks', x \in DOMAIN d.answer
        PROVE  NoLater(d.answer[x], stored[x])
    BY <2>2, <1>0, <1>2, <1>8 DEF StoredIsLatest
  <2> QED BY <1>0, <1>4, <2>1, <2>2 DEF StoredIsLatest
<1>12. ClearsKnow'
  <2>1. ASSUME NEW d \in asks', d.kind = "clear"
        PROVE  d.of \in known /\ (d.state = "answered" => Gone(d.of)') /\ (stored'[d.of] # Nothing => view[d.of] # Nothing)
    <3>1. CASE d = e
      BY <3>1, <1>1, <1>2, <1>5, <1>6
    <3>2. CASE d # e
      <4>1. d \in asks /\ d.of \in Shown
        BY <3>2, <1>0, <1>8 DEF StoreShape, AskType
      <4>2. d.of \in known /\ (d.state = "answered" => Gone(d.of)) /\ (stored[d.of] # Nothing => view[d.of] # Nothing)
        BY <2>1, <4>1, <1>0 DEF ClearsKnow
      <4> QED BY <4>1, <4>2, <1>5, <1>6
    <3> QED BY <3>1, <3>2
  <2>2. \A x \in clearedIds : x \in Shown /\ Gone(x) /\ x \in known
    BY <1>0 DEF StoreShape, ClearsKnow
  <2> QED BY <1>4, <1>6, <2>1, <2>2 DEF ClearsKnow
<1>13. ListsMiss'
  <2> SUFFICES ASSUME NEW d \in asks', NEW x \in Shown,
                      d.kind \in Lists /\ d.state = "answered" /\ x \notin DOMAIN d.answer /\ d.baseline[x] # 0
               PROVE  Gone(x)' /\ \A i \in 1 .. Len(events) : events[i].of = x => i <= d.behind
    BY <1>4 DEF ListsMiss
  <2>1. d \in asks
    BY <1>2, <1>8 DEF Lists
  <2> QED BY <2>1, <1>0, <1>6 DEF ListsMiss
<1>14. LeftForGood'
  <2>1. ASSUME NEW x \in Shown, \A d \in asks : ~Showing(d, x), NEW d \in asks'
        PROVE  ~Showing(d, x)'
    BY <2>1, <1>2, <1>4, <1>8 DEF Showing
  <2>2. ASSUME NEW x \in Shown \ overtaken, Gone(x)', view[x] = Nothing
        PROVE  (x \in clearedIds \/ NoEvents(x)) /\ \A d \in asks : ~Showing(d, x)
    <3>1. Gone(x)
      BY <2>2, <1>1, <1>6
    <3> QED BY <2>2, <3>1, <1>0 DEF LeftForGood
  <2> QED BY <1>0, <1>4, <1>6, <2>1, <2>2 DEF LeftForGood
<1>15. OnTheWay'
  <2> SUFFICES ASSUME up, ~swallowed, NEW x \in Shown
               PROVE  /\ stored'[x] # Nothing => Settles(x)'
                      /\ Gone(x)' /\ x \notin overtaken => Leaves(x)'
    BY <1>4 DEF OnTheWay
  <2>1. (stored[x] # Nothing => Settles(x)) /\ (Gone(x) /\ x \notin overtaken => Leaves(x))
    BY <1>0 DEF OnTheWay
  <2>2. \A d \in asks : d.kind = "reconcile" \/ d.state = "answered" => d \in asks'
    BY <1>1, <1>3
  <2>3. ASSUME stored'[x] # Nothing PROVE Settles(x)'
    <3>1. stored'[x] = stored[x] /\ Settles(x)
      BY <2>1, <2>3, <1>5
    <3> QED BY <3>1, <2>2, <1>4 DEF Settles
  <2>4. ASSUME Gone(x)', x \notin overtaken PROVE Leaves(x)'
    <3>1. CASE x = w
      <4>1. e \in asks'
        BY <1>3
      <4> QED BY <3>1, <4>1, <1>2 DEF Leaves
    <3>2. CASE x # w
      <4>1. Leaves(x)
        BY <2>1, <2>4, <3>2, <1>6
      <4>2. ASSUME NEW b \in asks, \A d \in asks : x \in DOMAIN d.answer => d.id < b.id
            PROVE  \A d \in asks' : x \in DOMAIN d.answer => d.id < b.id
        BY <4>2, <1>2, <1>8
      <4> QED BY <4>1, <4>2, <2>2, <1>4, <1>6 DEF Leaves
    <3> QED BY <3>1, <3>2
  <2> QED BY <2>3, <2>4
<1> QED BY <1>9, <1>10, <1>11, <1>12, <1>13, <1>14, <1>15 DEF StoreInv

\* A call that is refused, or made, says nothing of any row.
LEMMA RefusesInv ==
  ASSUME StoreInv, NEW c \in asks, c.state = "asked", Refuses(c),
         UNCHANGED <<up, view, clearedIds, issued, stops, dropped, overtaken, swallowed>>
  PROVE  StoreInv'
<1>0. /\ StoreShape /\ UnknownUnseen /\ StoredIsLatest /\ ClearsKnow /\ ListsMiss /\ LeftForGood /\ OnTheWay
  BY DEF StoreInv
<1>1. /\ stored' = stored /\ known' = known /\ events' = events /\ up' = up /\ view' = view
      /\ clearedIds' = clearedIds /\ issued' = issued /\ dropped' = dropped /\ overtaken' = overtaken
      /\ swallowed' = swallowed /\ asks' \subseteq asks
      /\ \A d \in asks : d.kind \in Lists \/ d.state = "answered" => d \in asks'
  BY DEF Refuses
<1>2. /\ \A x : (Gone(x)' <=> Gone(x)) /\ (NoEvents(x)' <=> NoEvents(x))
      /\ \A x, d : Showing(d, x)' <=> Showing(d, x)
  BY <1>1 DEF Gone, NoEvents, Showing
<1>3. StoreShape' /\ UnknownUnseen' /\ StoredIsLatest' /\ ClearsKnow'
  <2>1. StoreShape'
    BY <1>0, <1>1 DEF StoreShape
  <2>2. UnknownUnseen'
    BY <1>0, <1>1, <1>2 DEF UnknownUnseen
  <2>3. StoredIsLatest'
    BY <1>0, <1>1 DEF StoredIsLatest
  <2>4. ClearsKnow'
    BY <1>0, <1>1, <1>2 DEF ClearsKnow
  <2> QED BY <2>1, <2>2, <2>3, <2>4
<1>4. ListsMiss' /\ LeftForGood'
  BY <1>0, <1>1, <1>2 DEF ListsMiss, LeftForGood
<1>5. OnTheWay'
  <2> SUFFICES ASSUME up, ~swallowed, NEW x \in Shown
               PROVE  /\ stored[x] # Nothing => Settles(x)'
                      /\ Gone(x) /\ x \notin overtaken => Leaves(x)'
    BY <1>1, <1>2 DEF OnTheWay
  <2>1. (stored[x] # Nothing => Settles(x)) /\ (Gone(x) /\ x \notin overtaken => Leaves(x))
    BY <1>0 DEF OnTheWay
  <2>2. Settles(x) => Settles(x)'
    BY <1>1 DEF Settles, Lists
  <2>3. Leaves(x) => Leaves(x)'
    BY <1>1, <1>2 DEF Leaves, Lists
  <2> QED BY <2>1, <2>2, <2>3
<1> QED BY <1>3, <1>4, <1>5 DEF StoreInv

LEMMA AnswerInv == ASSUME StoreInv, NEW c \in asks, Answer(c) PROVE StoreInv'
<1>1. /\ c.state = "asked"
      /\ UNCHANGED <<up, view, clearedIds, issued, stops, dropped, overtaken, swallowed>>
  BY DEF Answer
<1>2. Reads(c) \/ Changes(c) \/ Removes(c) \/ Refuses(c)
  BY AnswerCases DEF StoreInv
<1> QED BY <1>1, <1>2, ReadsInv, ChangesInv, RemovesInv, RefusesInv

-----------------------------------------------------------------------------
(* Calls are made, and events come in or are lost.                         *)

\* A call as the window makes it.
JustAsked(d) ==
  /\ d \in AskType /\ d.state = "asked" /\ DOMAIN d.answer = {} /\ d.id = issued
  /\ \A x \in Shown \ known : d.baseline[x] = 0
  /\ d.kind = "clear" => d.of \in known /\ view[d.of] # Nothing

LEMMA FreshLemma ==
  ASSUME StoreInv, NEW kind \in Kinds, NEW w \in Shown, kind = "clear" => view[w] # Nothing
  PROVE  JustAsked(Asked(kind, w)) /\ Asked(kind, w).kind = kind /\ Asked(kind, w).of = w
<1>1. StoreShape /\ UnknownUnseen
  BY DEF StoreInv
<1>2. PICK d \in {Asked(kind, w)} :
        /\ d \in AskType /\ d.kind = kind /\ d.of = w /\ d.id = issued /\ d.state = "asked"
        /\ DOMAIN d.answer = {}
        /\ \A x \in Shown : d.baseline[x] = IF kind \notin Lists \/ view[x] = Nothing THEN 0 ELSE view[x].sequence
  BY <1>1, AskedLemma
<1>3. \A x \in Shown \ known : d.baseline[x] = 0
  BY <1>1, <1>2 DEF UnknownUnseen
<1>4. d.kind = "clear" => d.of \in known /\ view[d.of] # Nothing
  BY <1>1, <1>2 DEF UnknownUnseen
<1> QED BY <1>2, <1>3, <1>4 DEF JustAsked

\* What the view and the calls in flight keep while the rows stay as they are.
LEMMA CarriedLemma ==
  ASSUME StoreInv, UNCHANGED <<stored, known, clearedIds>>, issued' \in Nat, issued <= issued',
         events' \in Seq([of : Shown, state : State]), view' \in [Shown -> State \cup {Nothing}],
         \A i \in 1 .. Len(events') : \E j \in 1 .. Len(events) : events'[i] = events[j],
         \A x \in Shown : /\ view[x] # Nothing => view'[x] # Nothing
                          /\ view'[x] # view[x] => \E j \in 1 .. Len(events) : events[j].of = x /\ view'[x] = events[j].state,
         \A d \in asks' : \/ d \in AskType /\ \E c \in asks : SameCall(d, c)
                          \/ JustAsked(d) /\ issued' = issued + 1
  PROVE  StoreShape' /\ UnknownUnseen' /\ StoredIsLatest' /\ ClearsKnow'
<1>0. StoreShape /\ UnknownUnseen /\ StoredIsLatest /\ ClearsKnow
  BY DEF StoreInv
<1>1. /\ stored' = stored /\ known' = known /\ clearedIds' = clearedIds /\ issued \in Nat
      /\ \A x : Gone(x)' <=> Gone(x)
      /\ \A c \in asks : c \in AskType /\ c.id < issued /\ c.id \in Nat /\ (c.state = "asked" => DOMAIN c.answer = {})
  BY <1>0 DEF Gone, StoreShape, AskType
<1>2. StoreShape'
  <2>1. ASSUME NEW d \in asks' PROVE d \in AskType /\ d.id < issued' /\ (d.state = "asked" => DOMAIN d.answer = {})
    <3>1. CASE d \in AskType /\ \E c \in asks : SameCall(d, c)
      BY <3>1, <1>1 DEF SameCall
    <3>2. CASE JustAsked(d) /\ issued' = issued + 1
      BY <3>2, <1>1 DEF JustAsked
    <3> QED BY <3>1, <3>2
  <2> QED BY <1>0, <1>1, <2>1 DEF StoreShape
<1>3. ASSUME NEW x \in Shown \ known, NEW d \in asks' PROVE x \notin DOMAIN d.answer /\ d.baseline[x] = 0
  BY <1>3, <1>0 DEF UnknownUnseen, SameCall, JustAsked
<1>4. ASSUME NEW x \in Shown, NoEvents(x) PROVE NoEvents(x)' /\ view'[x] = view[x]
  BY <1>4, SMTT(30) DEF NoEvents
<1>5. UnknownUnseen'
  <2>1. \A x \in Shown \ known : stored[x] = Nothing /\ view'[x] = Nothing /\ NoEvents(x)'
    BY <1>0, <1>4 DEF UnknownUnseen
  <2> QED BY <1>1, <1>3, <2>1 DEF UnknownUnseen
<1>6. StoredIsLatest'
  <2> SUFFICES ASSUME NEW x \in Shown, stored[x] # Nothing
               PROVE  /\ view'[x] # Nothing => NoLater(view'[x], stored[x])
                      /\ \A i \in 1 .. Len(events') : events'[i].of = x => NoLater(events'[i].state, stored[x])
                      /\ \A d \in asks' : x \in DOMAIN d.answer => NoLater(d.answer[x], stored[x])
    BY <1>1 DEF StoredIsLatest
  <2>1. /\ view[x] # Nothing => NoLater(view[x], stored[x])
        /\ \A i \in 1 .. Len(events) : events[i].of = x => NoLater(events[i].state, stored[x])
        /\ \A d \in asks : x \in DOMAIN d.answer => NoLater(d.answer[x], stored[x])
    BY <1>0 DEF StoredIsLatest
  <2>2. \A i \in 1 .. Len(events') : events'[i].of = x => NoLater(events'[i].state, stored[x])
    BY <2>1
  <2>3. \A d \in asks' : x \in DOMAIN d.answer => NoLater(d.answer[x], stored[x])
    BY <2>1 DEF SameCall, JustAsked
  <2>4. view'[x] # Nothing => NoLater(view'[x], stored[x])
    BY <2>1
  <2> QED BY <2>2, <2>3, <2>4
<1>7. ClearsKnow'
  <2>1. ASSUME NEW d \in asks', d.kind = "clear"
        PROVE  d.of \in known /\ (d.state = "answered" => Gone(d.of)) /\ (stored[d.of] # Nothing => view'[d.of] # Nothing)
    <3>1. CASE \E c \in asks : SameCall(d, c)
      <4>1. PICK c \in asks : SameCall(d, c)
        BY <3>1
      <4>2. c.kind = "clear" /\ c.of = d.of /\ c.state = d.state /\ c.of \in Shown
        BY <2>1, <4>1, <1>1 DEF SameCall, AskType
      <4> QED BY <4>2, <1>0 DEF ClearsKnow
    <3>2. CASE JustAsked(d)
      <4>1. d.of \in Shown /\ d.of \in known /\ view[d.of] # Nothing /\ d.state = "asked"
        BY <2>1, <3>2 DEF JustAsked, AskType
      <4> QED BY <4>1
    <3> QED BY <3>1, <3>2
  <2> QED BY <1>0, <1>1, <2>1 DEF ClearsKnow
<1> QED BY <1>2, <1>5, <1>6, <1>7

LEMMA SameCallSelf == ASSUME NEW c PROVE SameCall(c, c)
BY DEF SameCall

LEMMA AskForInv == ASSUME StoreInv, NEW w \in Shown, NEW kind \in Kinds, AskFor(kind, w) PROVE StoreInv'
<1> DEFINE e == Asked(kind, w)
<1>0. StoreShape /\ ListsMiss /\ LeftForGood /\ OnTheWay
  BY DEF StoreInv
<1>1. /\ UNCHANGED <<stored, known, up, events, view, clearedIds, dropped, overtaken, swallowed>>
      /\ asks' = asks \cup {e} /\ issued' = issued + 1 /\ (kind = "clear" => view[w] # Nothing)
  BY DEF AskFor
<1>2. JustAsked(e)
  BY <1>1, FreshLemma
<1>3. /\ stored' = stored /\ known' = known /\ events' = events /\ up' = up /\ view' = view
      /\ clearedIds' = clearedIds /\ dropped' = dropped /\ overtaken' = overtaken /\ swallowed' = swallowed
  BY <1>1
<1> HIDE DEF e
<1>4. /\ \A x : (Gone(x)' <=> Gone(x)) /\ (NoEvents(x)' <=> NoEvents(x))
      /\ \A x, d : Showing(d, x)' <=> Showing(d, x)
  BY <1>3 DEF Gone, NoEvents, Showing
<1>5. /\ issued \in Nat /\ issued' \in Nat /\ issued <= issued' /\ events' \in Seq([of : Shown, state : State])
      /\ view' \in [Shown -> State \cup {Nothing}]
  BY <1>0, <1>1, <1>3 DEF StoreShape
<1>6. \A i \in 1 .. Len(events') : \E j \in 1 .. Len(events) : events'[i] = events[j]
  BY <1>3
<1>7. \A d \in asks' : \/ d \in AskType /\ \E c \in asks : SameCall(d, c)
                       \/ JustAsked(d) /\ issued' = issued + 1
  BY <1>0, <1>1, <1>2, SameCallSelf DEF StoreShape
<1>8. StoreShape' /\ UnknownUnseen' /\ StoredIsLatest' /\ ClearsKnow'
  BY <1>1, <1>3, <1>5, <1>6, <1>7, CarriedLemma
<1>9. ListsMiss'
  BY <1>0, <1>1, <1>2, <1>3, <1>4 DEF ListsMiss, JustAsked
<1>10. LeftForGood'
  BY <1>0, <1>1, <1>2, <1>3, <1>4 DEF LeftForGood, JustAsked, Showing
<1>11. OnTheWay'
  <2> SUFFICES ASSUME up, ~swallowed, NEW x \in Shown
               PROVE  /\ stored[x] # Nothing => Settles(x)'
                      /\ Gone(x) /\ x \notin overtaken => Leaves(x)'
    BY <1>3, <1>4 DEF OnTheWay
  <2>1. (stored[x] # Nothing => Settles(x)) /\ (Gone(x) /\ x \notin overtaken => Leaves(x))
    BY <1>0 DEF OnTheWay
  <2>2. Settles(x) => Settles(x)'
    BY <1>1, <1>3 DEF Settles
  <2>3. Leaves(x) => Leaves(x)'
    <3>1. ASSUME NEW b \in asks, \A d \in asks : x \in DOMAIN d.answer => d.id < b.id
          PROVE  \A d \in asks' : x \in DOMAIN d.answer => d.id < b.id
      BY <3>1, <1>1, <1>2 DEF JustAsked
    <3> QED BY <3>1, <1>1, <1>3, <1>4 DEF Leaves
  <2> QED BY <2>1, <2>2, <2>3
<1> QED BY <1>8, <1>9, <1>10, <1>11 DEF StoreInv

LEMMA NewerLemma ==
  ASSUME NEW v \in State \cup {Nothing}, NEW s \in State
  PROVE  /\ Newer(v, s) \in State /\ Newer(v, s) # Nothing
         /\ Newer(v, s) = v \/ Newer(v, s) = s
         /\ v # Nothing /\ NoLater(s, v) => Newer(v, s) = v
         /\ v = Nothing \/ NoLater(v, s) => Newer(v, s) = s
BY StoreAssumption DEF State, Newer, NoLater

LEMMA EventArrivesInv == ASSUME StoreInv, EventArrives PROVE StoreInv'
<1> DEFINE e == events[1]
           left == {[c EXCEPT !.behind = IF @ > 0 THEN @ - 1 ELSE 0] : c \in asks}
<1>0. StoreShape /\ UnknownUnseen /\ StoredIsLatest /\ ClearsKnow /\ ListsMiss /\ LeftForGood /\ OnTheWay
  BY DEF StoreInv
<1>1. /\ stored' = stored /\ known' = known /\ up' = up /\ clearedIds' = clearedIds
      /\ dropped' = dropped /\ overtaken' = overtaken /\ swallowed' = swallowed
  BY DEF EventArrives
<1>2. /\ events \in Seq([of : Shown, state : State]) /\ Len(events) \in Nat /\ 1 \in 1 .. Len(events)
      /\ Head(events) = e /\ e.of \in Shown /\ e.state \in State
      /\ events' \in Seq([of : Shown, state : State]) /\ Len(events') = Len(events) - 1
      /\ \A i \in 1 .. Len(events') : i + 1 \in 1 .. Len(events) /\ events'[i] = events[i + 1]
      /\ \A i \in 1 .. Len(events) : i # 1 => i - 1 \in 1 .. Len(events') /\ events'[i - 1] = events[i]
  <2>1. events \in Seq([of : Shown, state : State]) /\ events # <<>> /\ events' = Tail(events)
    BY <1>0 DEF StoreShape, EventArrives
  <2>2. Len(events) \in Nat /\ 1 \in 1 .. Len(events) /\ Head(events) = e
    BY <2>1
  <2>3. e \in [of : Shown, state : State]
    BY <2>1, <2>2, ElementOfSeq
  <2>4. /\ events' \in Seq([of : Shown, state : State]) /\ Len(events') = Len(events) - 1
        /\ \A i \in 1 .. Len(events') : events'[i] = events[i + 1]
    BY <2>1
  <2> HIDE DEF e
  <2>5. e.of \in Shown /\ e.state \in State
    BY <2>3
  <2>6. /\ \A i \in 1 .. Len(events') : i + 1 \in 1 .. Len(events)
        /\ \A i \in 1 .. Len(events) : i # 1 => i - 1 \in 1 .. Len(events') /\ (i - 1) + 1 = i
    BY <2>2, <2>4
  <2>7. \A i \in 1 .. Len(events) : i # 1 => events'[i - 1] = events[i]
    BY <2>4, <2>6
  <2> QED BY <2>1, <2>2, <2>4, <2>5, <2>6, <2>7
<1>3. /\ view \in [Shown -> State \cup {Nothing}]
      /\ view' = IF e.of \in clearedIds THEN view ELSE [view EXCEPT ![e.of] = Newer(@, e.state)]
  BY <1>0, <1>2 DEF StoreShape, EventArrives
<1>4. /\ \A d \in asks' : d \in left \/ (JustAsked(d) /\ issued' = issued + 1 /\ d.kind = "guarded")
      /\ left \subseteq asks' /\ issued \in Nat /\ issued' \in Nat /\ issued <= issued'
  <2>1. issued \in Nat
    BY <1>0 DEF StoreShape
  <2>2. PICK a \in {Asked("guarded", e.of)} : JustAsked(a) /\ a.kind = "guarded"
    BY <1>2, FreshLemma DEF Kinds
  <2>3. \/ asks' = left /\ issued' = issued
        \/ asks' = left \cup {a} /\ issued' = IF asks' = left THEN issued ELSE issued + 1
    BY <1>2, <2>2 DEF EventArrives, AskedAgain
  <2> HIDE DEF left
  <2>4. CASE asks' = left
    <3>1. issued' = issued
      BY <2>1, <2>3, <2>4
    <3> QED BY <2>1, <2>4, <3>1
  <2>5. CASE asks' # left
    <3>1. asks' = left \cup {a} /\ issued' = issued + 1
      BY <2>3, <2>5
    <3>2. a.kind = "guarded" /\ JustAsked(a)
      BY <2>2
    <3> QED BY <2>1, <3>1, <3>2
  <2> QED BY <2>4, <2>5
<1>5. /\ \A d \in left : d \in AskType /\ \E c \in asks : SameCall(d, c) /\ d.behind = IF c.behind > 0 THEN c.behind - 1 ELSE 0
      /\ \A c \in asks : \E d \in left : SameCall(d, c)
  <2>1. ASSUME NEW c \in asks
        PROVE  LET d == [c EXCEPT !.behind = IF @ > 0 THEN @ - 1 ELSE 0] IN
               d \in AskType /\ SameCall(d, c) /\ d.behind = IF c.behind > 0 THEN c.behind - 1 ELSE 0
    <3>1. c \in AskType
      BY <1>0 DEF StoreShape
    <3>2. c.behind \in Nat
      BY <3>1 DEF AskType
    <3> DEFINE n == IF c.behind > 0 THEN c.behind - 1 ELSE 0
    <3>3. n \in Nat
      BY <3>2
    <3>4. [c EXCEPT !.behind = IF @ > 0 THEN @ - 1 ELSE 0] = [c EXCEPT !.behind = n]
      OBVIOUS
    <3> HIDE DEF n
    <3>5. LET d == [c EXCEPT !.behind = n] IN d \in AskType /\ SameCall(d, c) /\ d.behind = n
      BY <3>1, <3>3, MovedLemma
    <3> QED BY <3>4, <3>5 DEF n
  <2> QED BY <2>1
<1> HIDE DEF e, left
<1>6. /\ view' \in [Shown -> State \cup {Nothing}]
      /\ \A x \in Shown : /\ view[x] # Nothing => view'[x] # Nothing
                          /\ view'[x] # view[x] => e.of = x /\ view'[x] = e.state /\ x \notin clearedIds
  <2>1. view[e.of] \in State \cup {Nothing}
    BY <1>2, <1>3
  <2>2. /\ Newer(view[e.of], e.state) \in State /\ Newer(view[e.of], e.state) # Nothing
        /\ Newer(view[e.of], e.state) = view[e.of] \/ Newer(view[e.of], e.state) = e.state
    BY <1>2, <2>1, NewerLemma
  <2> QED BY <1>2, <1>3, <2>2
<1>7. \A d \in asks' : \/ d \in AskType /\ \E c \in asks : SameCall(d, c)
                       \/ JustAsked(d) /\ issued' = issued + 1
  BY <1>4, <1>5
<1>8. \A i \in 1 .. Len(events') : \E j \in 1 .. Len(events) : events'[i] = events[j]
  BY <1>2
<1>9. \A x \in Shown : /\ view[x] # Nothing => view'[x] # Nothing
                       /\ view'[x] # view[x] => \E j \in 1 .. Len(events) : events[j].of = x /\ view'[x] = events[j].state
  BY <1>2, <1>6 DEF e
<1>10. StoreShape' /\ UnknownUnseen' /\ StoredIsLatest' /\ ClearsKnow'
  BY <1>1, <1>2, <1>4, <1>6, <1>7, <1>8, <1>9, CarriedLemma
<1>11. /\ \A x : (Gone(x)' <=> Gone(x)) /\ (NoEvents(x) => NoEvents(x)')
       /\ \A x, d : Showing(d, x)' <=> Showing(d, x)
  BY <1>1, <1>2 DEF Gone, NoEvents, Showing
<1>12. ListsMiss'
  <2> SUFFICES ASSUME NEW d \in asks', NEW x \in Shown,
                      d.kind \in Lists /\ d.state = "answered" /\ x \notin DOMAIN d.answer /\ d.baseline[x] # 0
               PROVE  Gone(x) /\ \A i \in 1 .. Len(events') : events'[i].of = x => i <= d.behind
    BY <1>11 DEF ListsMiss
  <2>1. d \in left
    BY <1>4 DEF JustAsked
  <2>2. PICK c \in asks : SameCall(d, c) /\ d.behind = IF c.behind > 0 THEN c.behind - 1 ELSE 0
    BY <2>1, <1>5
  <2>3. Gone(x) /\ \A i \in 1 .. Len(events) : events[i].of = x => i <= c.behind
    BY <2>2, <1>0 DEF ListsMiss, SameCall
  <2>4. ASSUME NEW i \in 1 .. Len(events'), events'[i].of = x PROVE i <= d.behind
    <3>1. i \in Nat /\ i >= 1 /\ i + 1 <= c.behind
      BY <1>2, <2>3, <2>4
    <3>2. c.behind \in Nat
      BY <1>0 DEF StoreShape, AskType
    <3> QED BY <2>2, <3>1, <3>2
  <2> QED BY <2>3, <2>4
<1>13. LeftForGood'
  <2>1. ASSUME NEW x \in Shown \ overtaken, Gone(x), view'[x] = Nothing
        PROVE  (x \in clearedIds \/ NoEvents(x)') /\ \A d \in asks' : ~Showing(d, x)
    <3>1. view[x] = Nothing
      BY <2>1, <1>6
    <3>2. (x \in clearedIds \/ NoEvents(x)) /\ \A d \in asks : ~Showing(d, x)
      BY <2>1, <3>1, <1>0 DEF LeftForGood
    <3>3. \A d \in asks' : ~Showing(d, x)
      BY <3>2, <1>7 DEF Showing, SameCall, JustAsked
    <3> QED BY <3>2, <3>3, <1>11
  <2>2. \A x \in clearedIds \ overtaken : x \in Shown /\ view'[x] = Nothing
    BY <1>0, <1>6 DEF LeftForGood, StoreShape
  <2> QED BY <1>0, <1>1, <1>11, <2>1, <2>2 DEF LeftForGood
<1>14. OnTheWay'
  <2> SUFFICES ASSUME up, ~swallowed, NEW x \in Shown
               PROVE  /\ stored[x] # Nothing => Settles(x)'
                      /\ Gone(x) /\ x \notin overtaken => Leaves(x)'
    BY <1>1, <1>11 DEF OnTheWay
  <2>1. (stored[x] # Nothing => Settles(x)) /\ (Gone(x) /\ x \notin overtaken => Leaves(x))
    BY <1>0 DEF OnTheWay
  <2>2. ASSUME stored[x] # Nothing PROVE Settles(x)'
    <3>1. /\ stored[x] \in State /\ x \notin clearedIds /\ view[x] \in State \cup {Nothing}
          /\ view[x] # Nothing => NoLater(view[x], stored[x])
          /\ \A i \in 1 .. Len(events) : events[i].of = x => NoLater(events[i].state, stored[x])
      BY <2>2, <1>0, <1>3 DEF StoreShape, ClearsKnow, Gone, StoredIsLatest
    <3>2. CASE view[x] = stored[x]
      <4>1. e.of = x => NoLater(e.state, view[x])
        BY <3>1, <3>2, <1>2 DEF e
      <4>2. e.of = x => Newer(view[x], e.state) = view[x]
        BY <2>2, <3>1, <3>2, <4>1, <1>2, NewerLemma
      <4>3. view'[x] = view[x]
        BY <4>2, <1>2, <1>3
      <4> QED BY <3>2, <4>3, <1>1 DEF Settles
    <3>3. CASE \E i \in 1 .. Len(events) : events[i].of = x /\ events[i].state = stored[x]
      <4>1. PICK i \in 1 .. Len(events) : events[i].of = x /\ events[i].state = stored[x]
        BY <3>3
      <4>2. CASE i = 1
        <5>1. Newer(view[x], stored[x]) = stored[x]
          BY <3>1, NewerLemma
        <5>2. view'[x] = stored[x]
          BY <3>1, <4>1, <4>2, <5>1, <1>3 DEF e
        <5> QED BY <5>2, <1>1 DEF Settles
      <4>3. CASE i # 1
        <5>1. i - 1 \in 1 .. Len(events') /\ events'[i - 1] = events[i]
          BY <4>3, <1>2
        <5> QED BY <4>1, <5>1, <1>1 DEF Settles
      <4> QED BY <4>2, <4>3
    <3>4. CASE \E c \in asks : c.kind = "reconcile" /\ c.state = "asked"
      <4>1. \E d \in asks' : d.kind = "reconcile" /\ d.state = "asked"
        BY <3>4, <1>4, <1>5 DEF SameCall
      <4> QED BY <4>1 DEF Settles
    <3>5. CASE \E c \in asks : c.kind = "reconcile" /\ c.state = "answered" /\ x \in DOMAIN c.answer /\ c.answer[x] = stored[x]
      <4>1. \E d \in asks' : d.kind = "reconcile" /\ d.state = "answered" /\ x \in DOMAIN d.answer /\ d.answer[x] = stored'[x]
        BY <3>5, <1>1, <1>4, <1>5 DEF SameCall
      <4> QED BY <4>1 DEF Settles
    <3> QED BY <2>1, <2>2, <3>2, <3>3, <3>4, <3>5 DEF Settles
  <2>3. ASSUME Gone(x), x \notin overtaken PROVE Leaves(x)'
    <3>1. CASE view[x] = Nothing
      <4>1. x \in clearedIds \/ NoEvents(x)
        BY <2>3, <3>1, <1>0 DEF LeftForGood
      <4>2. view'[x] = view[x]
        BY <4>1, <1>2, <1>6 DEF NoEvents, e
      <4> QED BY <3>1, <4>2 DEF Leaves
    <3>2. CASE \E c \in asks : c.kind = "clear" /\ c.state = "answered" /\ c.of = x
      <4>1. \E d \in asks' : d.kind = "clear" /\ d.state = "answered" /\ d.of = x
        BY <3>2, <1>4, <1>5 DEF SameCall
      <4> QED BY <4>1 DEF Leaves
    <3>3. CASE /\ NoEvents(x)
               /\ \E b \in asks : /\ b.kind = "reconcile" /\ b.baseline[x] = view[x].sequence /\ x \notin DOMAIN b.answer
                                  /\ \A d \in asks : x \in DOMAIN d.answer => d.id < b.id
      <4>1. PICK b \in asks : /\ b.kind = "reconcile" /\ b.baseline[x] = view[x].sequence /\ x \notin DOMAIN b.answer
                              /\ \A d \in asks : x \in DOMAIN d.answer => d.id < b.id
        BY <3>3
      <4>2. view'[x] = view[x] /\ NoEvents(x)'
        BY <3>3, <1>2, <1>6, <1>11 DEF NoEvents, e
      <4>3. PICK m \in asks' : SameCall(m, b)
        BY <1>4, <1>5
      <4>4. \A d \in asks' : x \in DOMAIN d.answer => d.id < m.id
        BY <4>1, <4>3, <1>7 DEF SameCall, JustAsked
      <4>5. m.kind = "reconcile" /\ m.baseline[x] = view'[x].sequence /\ x \notin DOMAIN m.answer
        BY <4>1, <4>2, <4>3 DEF SameCall
      <4> QED BY <4>2, <4>4, <4>5 DEF Leaves
    <3> QED BY <2>1, <2>3, <3>1, <3>2, <3>3 DEF Leaves
  <2> QED BY <2>2, <2>3
<1> QED BY <1>10, <1>12, <1>13, <1>14 DEF StoreInv

LEMMA StopsInv == ASSUME StoreInv, Stops PROVE StoreInv'
<1>0. StoreShape /\ LeftForGood /\ ListsMiss
  BY DEF StoreInv
<1>1. /\ stored' = stored /\ known' = known /\ up' = FALSE /\ view' = view /\ clearedIds' = clearedIds
      /\ issued' = issued /\ dropped' = dropped /\ overtaken' = overtaken
  BY DEF Stops
<1>2. PICK kept \in 0 .. Len(events), rejected \in SUBSET {c \in asks : c.kind = "clear" /\ c.state = "answered"} :
        /\ events' = SubSeq(events, 1, kept)
        /\ asks' = {[c EXCEPT !.behind = IF @ < kept THEN @ ELSE kept] :
                      c \in {d \in asks : d.state = "answered"} \ rejected}
  BY DEF Stops
<1>3. /\ events' \in Seq([of : Shown, state : State]) /\ Len(events') = kept /\ kept \in Nat
      /\ \A i \in 1 .. Len(events') : i \in 1 .. Len(events) /\ events'[i] = events[i] /\ i <= kept
  <2>1. events \in Seq([of : Shown, state : State]) /\ kept \in Nat /\ kept <= Len(events) /\ Len(events) \in Nat
    BY <1>0 DEF StoreShape
  <2> DEFINE E == [of : Shown, state : State]
  <2> HIDE DEF E
  <2>2. events \in Seq(E)
    BY <2>1 DEF E
  <2>3. \A i \in 1 .. kept : i \in 1 .. Len(events)
    BY <2>1
  <2>4. /\ SubSeq(events, 1, kept) \in Seq(E) /\ Len(SubSeq(events, 1, kept)) = kept
        /\ \A i \in 1 .. kept : SubSeq(events, 1, kept)[i] = events[i]
    BY <2>1, <2>2, <2>3
  <2>5. \A i \in 1 .. kept : i <= kept
    BY <2>1
  <2> QED BY <1>2, <2>1, <2>3, <2>4, <2>5 DEF E
<1>4. \A d \in asks' : d \in AskType /\ \E c \in asks : SameCall(d, c) /\ d.behind = IF c.behind < kept THEN c.behind ELSE kept
  <2>1. ASSUME NEW c \in asks
        PROVE  LET d == [c EXCEPT !.behind = IF @ < kept THEN @ ELSE kept] IN
               d \in AskType /\ SameCall(d, c) /\ d.behind = IF c.behind < kept THEN c.behind ELSE kept
    <3>1. c \in AskType
      BY <1>0 DEF StoreShape
    <3>2. c.behind \in Nat
      BY <3>1 DEF AskType
    <3> DEFINE n == IF c.behind < kept THEN c.behind ELSE kept
    <3>3. n \in Nat
      BY <1>3, <3>2
    <3>4. [c EXCEPT !.behind = IF @ < kept THEN @ ELSE kept] = [c EXCEPT !.behind = n]
      OBVIOUS
    <3> HIDE DEF n
    <3>5. LET d == [c EXCEPT !.behind = n] IN d \in AskType /\ SameCall(d, c) /\ d.behind = n
      BY <3>1, <3>3, MovedLemma
    <3> QED BY <3>4, <3>5 DEF n
  <2> SUFFICES ASSUME NEW d \in asks'
               PROVE  d \in AskType /\ \E c \in asks : SameCall(d, c) /\ d.behind = IF c.behind < kept THEN c.behind ELSE kept
    OBVIOUS
  <2>2. PICK c \in asks : d = [c EXCEPT !.behind = IF @ < kept THEN @ ELSE kept]
    BY <1>2
  <2>3. d \in AskType /\ SameCall(d, c) /\ d.behind = IF c.behind < kept THEN c.behind ELSE kept
    BY <2>1, <2>2
  <2> QED BY <2>3
<1>5. StoreShape' /\ UnknownUnseen' /\ StoredIsLatest' /\ ClearsKnow'
  <2>1. issued' \in Nat /\ issued <= issued' /\ view' \in [Shown -> State \cup {Nothing}]
    BY <1>0, <1>1 DEF StoreShape
  <2>2. \A i \in 1 .. Len(events') : \E j \in 1 .. Len(events) : events'[i] = events[j]
    BY <1>3
  <2>3. \A x \in Shown : /\ view[x] # Nothing => view'[x] # Nothing
                         /\ view'[x] # view[x] => \E j \in 1 .. Len(events) : events[j].of = x /\ view'[x] = events[j].state
    BY <1>1
  <2>4. \A d \in asks' : \/ d \in AskType /\ \E c \in asks : SameCall(d, c)
                         \/ JustAsked(d) /\ issued' = issued + 1
    BY <1>4
  <2> QED BY <1>1, <1>3, <2>1, <2>2, <2>3, <2>4, CarriedLemma
<1>6. /\ \A x : (Gone(x)' <=> Gone(x)) /\ (NoEvents(x) => NoEvents(x)')
      /\ \A x, d : Showing(d, x)' <=> Showing(d, x)
  BY <1>1, <1>3 DEF Gone, NoEvents, Showing
<1>7. ListsMiss'
  <2> SUFFICES ASSUME NEW d \in asks', NEW x \in Shown,
                      d.kind \in Lists /\ d.state = "answered" /\ x \notin DOMAIN d.answer /\ d.baseline[x] # 0
               PROVE  Gone(x) /\ \A i \in 1 .. Len(events') : events'[i].of = x => i <= d.behind
    BY <1>6 DEF ListsMiss
  <2>1. PICK c \in asks : SameCall(d, c) /\ d.behind = IF c.behind < kept THEN c.behind ELSE kept
    BY <1>4
  <2>2. Gone(x) /\ \A i \in 1 .. Len(events) : events[i].of = x => i <= c.behind
    BY <2>1, <1>0 DEF ListsMiss, SameCall
  <2> QED BY <1>3, <2>1, <2>2
<1>8. LeftForGood'
  <2>1. \A x : (\A d \in asks : ~Showing(d, x)) => \A d \in asks' : ~Showing(d, x)
    BY <1>4 DEF SameCall, Showing
  <2> QED BY <1>0, <1>1, <1>6, <2>1 DEF LeftForGood
<1>9. OnTheWay'
  BY <1>1 DEF OnTheWay
<1> QED BY <1>5, <1>7, <1>8, <1>9 DEF StoreInv

LEMMA ReadyInv == ASSUME StoreInv, Ready PROVE StoreInv'
<1>0. StoreShape /\ UnknownUnseen /\ StoredIsLatest /\ ClearsKnow /\ ListsMiss /\ LeftForGood
  BY DEF StoreInv
<1>1. /\ known' = known /\ view' = view /\ clearedIds' = clearedIds /\ events' = events /\ events = <<>> /\ Len(events) = 0
      /\ dropped' = dropped /\ overtaken' = overtaken
  BY DEF Ready
<1>2. /\ stored' \in [Shown -> State \cup {Nothing}]
      /\ \A x \in Shown : \/ stored'[x] = stored[x]
                          \/ /\ stored[x] \in State /\ stored'[x] \in State
                             /\ stored[x].sequence < stored'[x].sequence /\ stored[x].attempt <= stored'[x].attempt
      /\ \A x \in Shown : stored'[x] # Nothing <=> stored[x] # Nothing
  <2>1. PICK found \in SUBSET {w \in Shown : stored[w] # Nothing /\ stored[w].sequence < MaxSequence} :
          stored' = [w \in Shown |-> IF w \in found THEN Advanced(stored[w], FALSE) ELSE stored[w]]
    BY DEF Ready
  <2>2. stored \in [Shown -> State \cup {Nothing}]
    BY <1>0 DEF StoreShape
  <2>3. ASSUME NEW x \in found
        PROVE  /\ x \in Shown /\ stored[x] \in State /\ Advanced(stored[x], FALSE) \in State
               /\ stored[x].sequence < Advanced(stored[x], FALSE).sequence
               /\ stored[x].attempt <= Advanced(stored[x], FALSE).attempt
    <3>1. x \in Shown /\ stored[x] \in State
      BY <2>2
    <3> QED BY <3>1, AdvancedLemma
  <2>4. \A x \in State : x # Nothing
    BY StoreAssumption DEF State
  <2> QED BY <2>1, <2>2, <2>3, <2>4
<1>3. PICK e \in {Asked("reconcile", CHOOSE w \in Shown : TRUE)} :
        /\ JustAsked(e) /\ e.kind = "reconcile"
        /\ \A x \in Shown : view[x] # Nothing => e.baseline[x] = view[x].sequence
  <2>1. (CHOOSE w \in Shown : TRUE) \in Shown
    BY StoreAssumption
  <2>2. PICK a \in {Asked("reconcile", CHOOSE w \in Shown : TRUE)} : JustAsked(a) /\ a.kind = "reconcile"
    BY <2>1, FreshLemma DEF Kinds, Lists
  <2>3. PICK b \in {Asked("reconcile", CHOOSE w \in Shown : TRUE)} :
          \A x \in Shown : b.baseline[x] = IF "reconcile" \notin Lists \/ view[x] = Nothing THEN 0 ELSE view[x].sequence
    BY <1>0, <2>1, AskedLemma DEF Kinds, Lists
  <2>4. \A x \in Shown : view[x] # Nothing => a.baseline[x] = view[x].sequence
    BY <2>3 DEF Lists
  <2> QED BY <2>2, <2>4
<1>4. /\ issued \in Nat
      /\ \/ swallowed' = TRUE /\ asks' = asks /\ issued' = issued
         \/ asks' = asks \cup {e} /\ issued' = issued + 1
  BY <1>0, <1>3 DEF Ready, StoreShape
<1>5. /\ \A x \in Shown : (Gone(x)' <=> Gone(x)) /\ NoEvents(x)'
      /\ \A x, d : Showing(d, x)' <=> Showing(d, x)
  BY <1>1, <1>2 DEF Gone, NoEvents, Showing
<1>6. /\ e \in AskType /\ e.state = "asked" /\ DOMAIN e.answer = {} /\ e.id = issued
      /\ \A x \in Shown \ known : e.baseline[x] = 0
      /\ \A d \in asks' : d \in asks \/ d = e
      /\ \A d \in asks : d \in AskType /\ d.id < issued /\ d.id \in Nat /\ (d.state = "asked" => DOMAIN d.answer = {})
  BY <1>0, <1>3, <1>4 DEF JustAsked, StoreShape, AskType
<1>7. StoreShape'
  <2>1. ASSUME NEW d \in asks' PROVE d \in AskType /\ d.id < issued' /\ (d.state = "asked" => DOMAIN d.answer = {})
    <3>1. issued' = issued \/ issued' = issued + 1
      BY <1>4
    <3>2. CASE d \in asks
      BY <3>1, <3>2, <1>4, <1>6
    <3>3. CASE d = e /\ d \notin asks
      <4>1. issued' = issued + 1
        BY <3>3, <1>4
      <4> QED BY <3>3, <4>1, <1>4, <1>6
    <3> QED BY <3>2, <3>3, <1>6
  <2>2. issued' \in Nat
    BY <1>4
  <2> QED BY <1>0, <1>1, <1>2, <2>1, <2>2 DEF StoreShape
<1>8. UnknownUnseen'
  <2>1. \A x \in Shown \ known : stored'[x] = Nothing /\ view[x] = Nothing
    BY <1>0, <1>2 DEF UnknownUnseen
  <2>2. ASSUME NEW x \in Shown \ known, NEW d \in asks' PROVE x \notin DOMAIN d.answer /\ d.baseline[x] = 0
    BY <1>0, <1>6 DEF UnknownUnseen
  <2> QED BY <1>1, <1>5, <2>1, <2>2 DEF UnknownUnseen
<1>9. StoredIsLatest'
  <2> SUFFICES ASSUME NEW x \in Shown, stored'[x] # Nothing
               PROVE  /\ view[x] # Nothing => NoLater(view[x], stored'[x])
                      /\ \A d \in asks' : x \in DOMAIN d.answer => NoLater(d.answer[x], stored'[x])
    BY <1>1 DEF StoredIsLatest
  <2>1. ASSUME NEW y \in State, NoLater(y, stored[x]) PROVE NoLater(y, stored'[x])
    BY <2>1, <1>2, NoLaterTrans
  <2>2. stored[x] # Nothing /\ view[x] \in State \cup {Nothing}
    BY <1>0, <1>2 DEF StoreShape
  <2>3. view[x] # Nothing => NoLater(view[x], stored'[x])
    BY <2>1, <2>2, <1>0 DEF StoredIsLatest
  <2>4. ASSUME NEW d \in asks', x \in DOMAIN d.answer PROVE NoLater(d.answer[x], stored'[x])
    <3>1. d \in asks /\ d.answer \in Answers1
      BY <2>4, <1>6 DEF AskType
    <3>2. d.answer[x] \in State
      BY <2>4, <3>1 DEF Answers1
    <3>3. NoLater(d.answer[x], stored[x])
      BY <2>2, <2>4, <3>1, <1>0 DEF StoredIsLatest
    <3> QED BY <2>1, <3>2, <3>3
  <2> QED BY <2>3, <2>4
<1>10. ClearsKnow'
  <2>1. ASSUME NEW d \in asks', d.kind = "clear"
        PROVE  d.of \in known /\ (d.state = "answered" => Gone(d.of)') /\ (stored'[d.of] # Nothing => view[d.of] # Nothing)
    <3>1. d \in asks /\ d.of \in Shown
      BY <2>1, <1>3, <1>6 DEF AskType
    <3> QED BY <2>1, <3>1, <1>0, <1>2, <1>5 DEF ClearsKnow
  <2>2. \A x \in clearedIds : x \in Shown
    BY <1>0 DEF StoreShape
  <2> QED BY <1>0, <1>1, <1>5, <2>1, <2>2 DEF ClearsKnow
<1>11. ListsMiss'
  BY <1>0, <1>1, <1>5, <1>6 DEF ListsMiss
<1>12. LeftForGood'
  BY <1>0, <1>1, <1>5, <1>6 DEF LeftForGood, Showing
<1>13. OnTheWay'
  <2> SUFFICES ASSUME ~swallowed', NEW x \in Shown
               PROVE  Settles(x)' /\ Leaves(x)'
    BY DEF OnTheWay
  <2>1. e \in asks'
    BY <1>4
  <2>2. Settles(x)'
    BY <2>1, <1>3, <1>6 DEF Settles
  <2>3. \A d \in asks' : x \in DOMAIN d.answer => d.id < e.id
    BY <1>6
  <2>4. CASE view[x] # Nothing
    <3>1. e.baseline[x] = view'[x].sequence /\ NoEvents(x)' /\ e.kind = "reconcile"
      BY <2>4, <1>1, <1>3, <1>5
    <3>2. x \notin DOMAIN e.answer
      BY <1>6
    <3>3. \E b \in asks' :
            /\ b.kind = "reconcile" /\ b.baseline[x] = view'[x].sequence /\ x \notin DOMAIN b.answer
            /\ \A d \in asks' : x \in DOMAIN d.answer => d.id < b.id
      BY <2>1, <2>3, <3>1, <3>2
    <3> QED BY <2>2, <3>1, <3>3 DEF Leaves
  <2> QED BY <2>2, <2>4, <1>1 DEF Leaves
<1> QED BY <1>7, <1>8, <1>9, <1>10, <1>11, <1>12, <1>13 DEF StoreInv

-----------------------------------------------------------------------------
(* A reply is applied.                                                     *)

LEMMA AppliesInv == ASSUME StoreInv, NEW c \in asks, Applies(c) PROVE StoreInv'
<1>0. /\ StoreShape /\ UnknownUnseen /\ StoredIsLatest /\ ClearsKnow /\ ListsMiss /\ LeftForGood /\ OnTheWay
  BY DEF StoreInv
<1>1. /\ stored' = stored /\ known' = known /\ up' = up /\ events' = events /\ swallowed' = swallowed
      /\ c.state = "answered" /\ c.behind = 0
      /\ dropped' = IF c.kind = "clear" THEN dropped \cup {c.of} ELSE dropped
      /\ overtaken' = overtaken \cup {w \in Shown : Crossed(c, w)}
      /\ clearedIds' = IF c.kind = "clear" THEN clearedIds \cup {c.of}
                       ELSE IF c.kind \in Lists \cup {"submit"} THEN clearedIds \ DOMAIN c.answer
                       ELSE clearedIds
  BY DEF Applies
<1>2. /\ \A x : (Gone(x)' <=> Gone(x)) /\ (NoEvents(x)' <=> NoEvents(x))
  BY <1>1 DEF Gone, NoEvents
<1>3. /\ c \in AskType /\ c.of \in Shown /\ c.id < issued
      /\ \A x \in DOMAIN c.answer : x \in Shown /\ c.answer[x] \in State
      /\ view \in [Shown -> State \cup {Nothing}] /\ clearedIds \subseteq Shown
  <2>1. c \in AskType /\ c.id < issued /\ view \in [Shown -> State \cup {Nothing}] /\ clearedIds \subseteq Shown
    BY <1>0 DEF StoreShape
  <2>2. c.of \in Shown /\ c.answer \in Answers1
    BY <2>1 DEF AskType
  <2>3. \A x \in DOMAIN c.answer : x \in Shown /\ c.answer[x] \in State
    BY <2>2 DEF Answers1
  <2> QED BY <2>1, <2>2, <2>3
\* What becomes of the calls in flight.
<1>4. /\ \A d \in asks' : d \in asks \ {c} \/ (JustAsked(d) /\ issued' = issued + 1 /\ d.kind = "selected")
      /\ \A d \in asks : d # c => d \in asks'
      /\ issued \in Nat /\ issued' \in Nat /\ issued <= issued'
  <2>1. issued \in Nat
    BY <1>0 DEF StoreShape
  <2>2. CASE asks' = asks \ {c} /\ UNCHANGED issued
    BY <2>1, <2>2
  <2>3. CASE \E w \in Shown : asks' = (asks \ {c}) \cup {Asked("selected", w)} /\ issued' = issued + 1
    <3>1. PICK w \in Shown : asks' = (asks \ {c}) \cup {Asked("selected", w)} /\ issued' = issued + 1
      BY <2>3
    <3>2. PICK a \in {Asked("selected", w)} : JustAsked(a) /\ a.kind = "selected"
      BY FreshLemma DEF Kinds
    <3>3. asks' = (asks \ {c}) \cup {a}
      BY <3>1
    <3> QED BY <2>1, <3>1, <3>2, <3>3
  <2> QED BY <2>2, <2>3 DEF Applies
\* What becomes of the view.
<1>5. /\ view' \in [Shown -> State \cup {Nothing}]
      /\ c.kind = "clear" => view'[c.of] = Nothing
      /\ \A x \in Shown : c.kind \in Lists /\ MissingFrom(c, x) => view'[x] = Nothing
      /\ \A x \in Shown : view'[x] # view[x] =>
           \/ view'[x] = Nothing /\ ((c.kind = "clear" /\ x = c.of) \/ (c.kind \in Lists /\ MissingFrom(c, x)))
           \/ x \in DOMAIN c.answer /\ Accepted(c, x) /\ view'[x] = c.answer[x] /\ view'[x] = Newer(view[x], c.answer[x])
              /\ view'[x] # Nothing
  <2>1. view' = [w \in Shown |->
               IF \/ c.kind = "clear" /\ w = c.of
                  \/ c.kind \in Lists /\ MissingFrom(c, w) THEN Nothing
               ELSE IF w \in DOMAIN c.answer /\ Accepted(c, w) THEN Newer(view[w], c.answer[w])
               ELSE view[w]]
    BY DEF Applies
  <2>2. ASSUME NEW x \in Shown, x \in DOMAIN c.answer
        PROVE  /\ Newer(view[x], c.answer[x]) \in State /\ Newer(view[x], c.answer[x]) # Nothing
               /\ Newer(view[x], c.answer[x]) = view[x] \/ Newer(view[x], c.answer[x]) = c.answer[x]
    BY <2>2, <1>3, NewerLemma
  <2> QED BY <2>1, <2>2, <1>3
<1>6. \A x \in Shown : x \notin known => x \notin DOMAIN c.answer /\ view'[x] = Nothing
  BY <1>0, <1>5 DEF UnknownUnseen
\* What leaves the view is gone.
<1>7. ASSUME NEW x \in Shown, view[x] # Nothing, view'[x] = Nothing
      PROVE  Gone(x) /\ (NoEvents(x) \/ x \in clearedIds')
  <2>1. CASE c.kind = "clear" /\ x = c.of
    BY <2>1, <1>0, <1>1 DEF ClearsKnow
  <2>2. CASE c.kind \in Lists /\ MissingFrom(c, x)
    <3>1. x \notin DOMAIN c.answer /\ c.baseline[x] # 0
      BY <1>3, <1>7, <2>2 DEF MissingFrom, State
    <3>2. Gone(x) /\ \A i \in 1 .. Len(events) : events[i].of = x => i <= 0
      BY <2>2, <3>1, <1>0, <1>1 DEF ListsMiss
    <3>3. \A i \in 1 .. Len(events) : ~(i <= 0)
      BY <1>0 DEF StoreShape
    <3> QED BY <3>2, <3>3 DEF NoEvents
  <2> QED BY <2>1, <2>2, <1>5, <1>7
\* A cleared row that is not in the view is not put back by this reply.
<1>8. ASSUME NEW x \in Shown \ overtaken, Gone(x), view[x] = Nothing
      PROVE  /\ view'[x] = Nothing
             /\ x \in clearedIds => x \in clearedIds'
  <2>1. ~Showing(c, x)
    BY <1>8, <1>0 DEF LeftForGood
  <2>2. x \notin DOMAIN c.answer \/ (c.kind = "guarded" /\ x \in clearedIds)
    BY <2>1, <1>1 DEF Showing
  <2>3. view'[x] = Nothing
    BY <2>2, <1>5, <1>8 DEF Accepted
  <2>4. x \in clearedIds => x \in clearedIds'
    BY <2>2, <1>1 DEF Lists
  <2> QED BY <2>3, <2>4
<1>9. StoreShape'
  <2>1. ASSUME NEW d \in asks' PROVE d \in AskType /\ d.id < issued' /\ (d.state = "asked" => DOMAIN d.answer = {})
    <3>1. CASE d \in asks
      <4>1. d \in AskType /\ d.id < issued /\ (d.state = "asked" => DOMAIN d.answer = {})
        BY <3>1, <1>0 DEF StoreShape
      <4>2. d.id \in Nat
        BY <4>1 DEF AskType
      <4> QED BY <4>1, <4>2, <1>4
    <3>2. CASE JustAsked(d) /\ issued' = issued + 1
      BY <3>2, <1>4 DEF JustAsked
    <3> QED BY <3>1, <3>2, <1>4
  <2>2. clearedIds' \subseteq Shown
    BY <1>1, <1>3
  <2> QED BY <1>0, <1>1, <1>4, <1>5, <2>1, <2>2 DEF StoreShape
<1>10. UnknownUnseen'
  <2>1. ASSUME NEW x \in Shown \ known, NEW d \in asks' PROVE x \notin DOMAIN d.answer /\ d.baseline[x] = 0
    BY <1>0, <1>4 DEF UnknownUnseen, JustAsked
  <2>2. \A x \in Shown \ known : stored[x] = Nothing /\ NoEvents(x)
    BY <1>0 DEF UnknownUnseen
  <2> QED BY <1>1, <1>2, <1>6, <2>1, <2>2 DEF UnknownUnseen
<1>11. StoredIsLatest'
  <2> SUFFICES ASSUME NEW x \in Shown, stored[x] # Nothing
               PROVE  /\ view'[x] # Nothing => NoLater(view'[x], stored[x])
                      /\ \A i \in 1 .. Len(events) : events[i].of = x => NoLater(events[i].state, stored[x])
                      /\ \A d \in asks' : x \in DOMAIN d.answer => NoLater(d.answer[x], stored[x])
    BY <1>1 DEF StoredIsLatest
  <2>1. /\ view[x] # Nothing => NoLater(view[x], stored[x])
        /\ \A i \in 1 .. Len(events) : events[i].of = x => NoLater(events[i].state, stored[x])
        /\ \A d \in asks : x \in DOMAIN d.answer => NoLater(d.answer[x], stored[x])
    BY <1>0 DEF StoredIsLatest
  <2>2. view'[x] # Nothing => NoLater(view'[x], stored[x])
    BY <2>1, <1>5
  <2>3. \A d \in asks' : x \in DOMAIN d.answer => NoLater(d.answer[x], stored[x])
    BY <2>1, <1>4 DEF JustAsked
  <2> QED BY <2>1, <2>2, <2>3
<1>12. ClearsKnow'
  <2>1. ASSUME NEW d \in asks', d.kind = "clear"
        PROVE  d.of \in known /\ (d.state = "answered" => Gone(d.of)) /\ (stored[d.of] # Nothing => view'[d.of] # Nothing)
    <3>1. d \in asks
      BY <2>1, <1>4
    <3>2. d.of \in Shown
      BY <3>1, <1>0 DEF StoreShape, AskType
    <3>3. d.of \in known /\ (d.state = "answered" => Gone(d.of)) /\ (stored[d.of] # Nothing => view[d.of] # Nothing)
      BY <2>1, <3>1, <1>0 DEF ClearsKnow
    <3>4. stored[d.of] # Nothing => ~Gone(d.of)
      BY DEF Gone
    <3> QED BY <3>2, <3>3, <3>4, <1>7
  <2>2. c.kind = "clear" => c.of \in known /\ Gone(c.of)
    BY <1>0, <1>1 DEF ClearsKnow
  <2>3. clearedIds' \subseteq known /\ \A x \in clearedIds' : Gone(x)
    BY <2>2, <1>0, <1>1 DEF ClearsKnow
  <2> QED BY <1>1, <1>2, <2>1, <2>3 DEF ClearsKnow
<1>13. ListsMiss'
  <2>1. \A d \in asks' : d.kind \in Lists => d \in asks
    BY <1>4 DEF Lists
  <2> QED BY <2>1, <1>0, <1>1, <1>2 DEF ListsMiss
<1>14. LeftForGood'
  <2>1. ASSUME NEW x \in Shown \ overtaken', Gone(x), view'[x] = Nothing
        PROVE  (x \in clearedIds' \/ NoEvents(x)) /\ \A d \in asks' : ~Showing(d, x)'
    <3>1. x \in Shown \ overtaken /\ ~Crossed(c, x)
      BY <2>1, <1>1
    <3>2. CASE view[x] = Nothing
      <4>1. (x \in clearedIds \/ NoEvents(x)) /\ \A d \in asks : ~Showing(d, x)
        BY <2>1, <3>1, <3>2, <1>0 DEF LeftForGood
      <4>2. x \in clearedIds => x \in clearedIds'
        BY <2>1, <3>1, <3>2, <1>8
      <4>3. \A d \in asks : ~Showing(d, x)'
        BY <4>1, <4>2 DEF Showing
      <4>4. \A d \in asks' : ~Showing(d, x)'
        BY <4>3, <1>4 DEF JustAsked, Showing
      <4> QED BY <4>1, <4>2, <4>4
    <3>3. CASE view[x] # Nothing
      <4>1. x \in clearedIds' \/ NoEvents(x)
        BY <2>1, <3>3, <1>7
      <4>2. \A d \in asks \ {c} : ~Showing(d, x)'
        BY <2>1, <3>1, <3>3 DEF Crossed, Showing
      <4>3. \A d \in asks' : ~Showing(d, x)'
        BY <4>2, <1>4 DEF JustAsked, Showing
      <4> QED BY <4>1, <4>3
    <3> QED BY <3>2, <3>3
  <2>2. ASSUME NEW x \in clearedIds \ overtaken PROVE x \in Shown /\ Gone(x) /\ view[x] = Nothing
    BY <1>0, <1>3 DEF ClearsKnow, LeftForGood
  <2>3. ASSUME NEW x \in clearedIds' \ overtaken' PROVE view'[x] = Nothing
    <3>1. CASE c.kind = "clear" /\ x = c.of
      BY <3>1, <1>5
    <3>2. CASE ~(c.kind = "clear" /\ x = c.of)
      <4>1. x \in clearedIds \ overtaken
        BY <2>3, <3>2, <1>1
      <4>2. x \in Shown /\ Gone(x) /\ view[x] = Nothing
        BY <4>1, <2>2
      <4> QED BY <4>1, <4>2, <1>8
    <3> QED BY <3>1, <3>2
  <2>4. ASSUME NEW x \in dropped' \ overtaken' PROVE x \in clearedIds'
    <3>1. CASE c.kind = "clear" /\ x = c.of
      BY <3>1, <1>1
    <3>2. CASE ~(c.kind = "clear" /\ x = c.of)
      <4>1. x \in clearedIds \ overtaken
        BY <2>4, <3>2, <1>0, <1>1 DEF LeftForGood
      <4>2. x \in Shown /\ Gone(x) /\ view[x] = Nothing
        BY <4>1, <2>2
      <4> QED BY <4>1, <4>2, <1>8
    <3> QED BY <3>1, <3>2
  <2> QED BY <1>2, <2>1, <2>3, <2>4 DEF LeftForGood
<1>15. OnTheWay'
  <2> SUFFICES ASSUME up, ~swallowed, NEW x \in Shown
               PROVE  /\ stored[x] # Nothing => Settles(x)'
                      /\ Gone(x) /\ x \notin overtaken' => Leaves(x)'
    BY <1>1, <1>2 DEF OnTheWay
  <2>1. (stored[x] # Nothing => Settles(x)) /\ (Gone(x) /\ x \notin overtaken => Leaves(x))
    BY <1>0 DEF OnTheWay
  <2>2. ASSUME stored[x] # Nothing PROVE Settles(x)'
    <3>1. /\ ~Gone(x) /\ view[x] \in State \cup {Nothing} /\ stored[x] \in State
          /\ view[x] # Nothing => NoLater(view[x], stored[x])
          /\ x \in DOMAIN c.answer => c.answer[x] \in State /\ NoLater(c.answer[x], stored[x])
      BY <2>2, <1>0, <1>3 DEF Gone, StoredIsLatest, StoreShape
    <3>2. CASE view[x] = stored[x]
      <4>1. x \in DOMAIN c.answer => Newer(view[x], c.answer[x]) = view[x]
        BY <2>2, <3>1, <3>2, NewerLemma
      <4>2. view'[x] # Nothing
        BY <2>2, <3>1, <3>2, <1>7
      <4>3. view'[x] = view[x]
        BY <4>1, <4>2, <1>5
      <4> QED BY <3>2, <4>3, <1>1 DEF Settles
    <3>3. CASE \E i \in 1 .. Len(events) : events[i].of = x /\ events[i].state = stored[x]
      BY <3>3, <1>1 DEF Settles
    <3>4. CASE \E d \in asks : d.kind = "reconcile" /\ d.state = "asked"
      <4>1. \E d \in asks' : d.kind = "reconcile" /\ d.state = "asked"
        BY <3>4, <1>1, <1>4
      <4> QED BY <4>1 DEF Settles
    <3>5. CASE \E d \in asks : d.kind = "reconcile" /\ d.state = "answered" /\ x \in DOMAIN d.answer /\ d.answer[x] = stored[x]
      <4>1. PICK d \in asks : d.kind = "reconcile" /\ d.state = "answered" /\ x \in DOMAIN d.answer /\ d.answer[x] = stored[x]
        BY <3>5
      <4>2. CASE d = c
        <5>1. Newer(view[x], stored[x]) = stored[x]
          BY <3>1, NewerLemma
        <5>2. view'[x] = Newer(view[x], c.answer[x])
          <6>1. /\ c.kind # "clear" /\ ~MissingFrom(c, x) /\ Accepted(c, x) /\ x \in DOMAIN c.answer
            BY <4>1, <4>2 DEF MissingFrom, Accepted
          <6>2. view' = [w \in Shown |->
                   IF \/ c.kind = "clear" /\ w = c.of
                      \/ c.kind \in Lists /\ MissingFrom(c, w) THEN Nothing
                   ELSE IF w \in DOMAIN c.answer /\ Accepted(c, w) THEN Newer(view[w], c.answer[w])
                   ELSE view[w]]
            BY DEF Applies
          <6> QED BY <6>1, <6>2
        <5>3. view'[x] = stored'[x]
          BY <4>1, <4>2, <5>1, <5>2, <1>1
        <5> QED BY <5>3 DEF Settles
      <4>3. CASE d # c
        <5>1. d \in asks' /\ d.answer[x] = stored'[x]
          BY <4>1, <4>3, <1>1, <1>4
        <5> QED BY <4>1, <5>1 DEF Settles
      <4> QED BY <4>2, <4>3
    <3> QED BY <2>1, <2>2, <3>2, <3>3, <3>4, <3>5 DEF Settles
  <2>3. ASSUME Gone(x), x \notin overtaken' PROVE Leaves(x)'
    <3>1. x \notin overtaken /\ ~Crossed(c, x)
      BY <2>3, <1>1
    <3>2. CASE view'[x] = Nothing
      BY <3>2 DEF Leaves
    <3>3. CASE view'[x] # Nothing
      <4>1. view[x] # Nothing
        BY <2>3, <3>1, <3>3, <1>8
      <4>2. CASE \E d \in asks : d.kind = "clear" /\ d.state = "answered" /\ d.of = x
        <5>1. \E d \in asks' : d.kind = "clear" /\ d.state = "answered" /\ d.of = x
          BY <3>3, <4>2, <1>4, <1>5
        <5> QED BY <5>1 DEF Leaves
      <4>3. CASE /\ NoEvents(x)
                 /\ \E b \in asks : /\ b.kind = "reconcile" /\ b.baseline[x] = view[x].sequence /\ x \notin DOMAIN b.answer
                                    /\ \A d \in asks : x \in DOMAIN d.answer => d.id < b.id
        <5>1. PICK b \in asks : /\ b.kind = "reconcile" /\ b.baseline[x] = view[x].sequence /\ x \notin DOMAIN b.answer
                                /\ \A d \in asks : x \in DOMAIN d.answer => d.id < b.id
          BY <4>3
        <5>2. b # c
          BY <3>3, <4>1, <5>1, <1>5 DEF MissingFrom, Lists
        <5>3. view'[x] = view[x]
          <6>1. SUFFICES ASSUME view'[x] # view[x] PROVE FALSE
            OBVIOUS
          <6>2. x \in DOMAIN c.answer
            BY <3>3, <6>1, <1>5
          <6>3. c.id < b.id /\ c.id \in Nat /\ b.id \in Nat
            BY <5>1, <6>2, <1>0 DEF StoreShape, AskType
          <6>4. b.id > c.id /\ b.kind \in Lists
            BY <5>1, <6>3 DEF Lists
          <6> QED BY <3>1, <6>1, <6>4 DEF Crossed
        <5>4. b \in asks' /\ \A d \in asks' : x \in DOMAIN d.answer => d.id < b.id
          BY <5>1, <5>2, <1>4 DEF JustAsked
        <5>5. b.baseline[x] = view'[x].sequence /\ NoEvents(x)'
          BY <4>3, <5>1, <5>3, <1>2
        <5> QED BY <5>1, <5>4, <5>5 DEF Leaves
      <4> QED BY <2>1, <2>3, <3>1, <4>1, <4>2, <4>3 DEF Leaves
    <3> QED BY <3>2, <3>3
  <2> QED BY <2>2, <2>3
<1> QED BY <1>9, <1>10, <1>11, <1>12, <1>13, <1>14, <1>15 DEF StoreInv

-----------------------------------------------------------------------------
LEMMA StoreNextInv == ASSUME StoreInv, [StoreNext]_storeVars PROVE StoreInv'
<1>1. CASE \E w \in Shown : Commits(w)
  BY <1>1, CommitsInv
<1>2. CASE \E w \in Shown : \E kind \in Kinds : AskFor(kind, w)
  BY <1>2, AskForInv
<1>3. CASE \E c \in asks : Answer(c)
  BY <1>3, AnswerInv
<1>4. CASE \E c \in asks : Applies(c)
  BY <1>4, AppliesInv
<1>5. CASE EventArrives
  BY <1>5, EventArrivesInv
<1>6. CASE Stops
  BY <1>6, StopsInv
<1>7. CASE Ready
  BY <1>7, ReadyInv
<1>8. CASE UNCHANGED storeVars
  BY <1>8 DEF storeVars, StoreInv, StoreShape, UnknownUnseen, StoredIsLatest, ClearsKnow, ListsMiss, LeftForGood,
              OnTheWay, Gone, NoEvents, Showing, Settles, Leaves
<1> QED BY <1>1, <1>2, <1>3, <1>4, <1>5, <1>6, <1>7, <1>8 DEF StoreNext

\* Once nothing is on the way, the window shows what the worker has stored: an
\* event, a reply or a list that brings each row up to date, or takes it away,
\* has been on its way until it came in.
THEOREM ViewsConverge == StoreSpec => []ViewConverges
<1>1. ASSUME StoreInv PROVE ViewConverges
  <2> SUFFICES ASSUME up, asks = {}, events = <<>>, ~swallowed, NEW w \in Shown \ overtaken
               PROVE  view[w] = stored[w]
    BY DEF ViewConverges
  <2>1. Len(events) = 0
    OBVIOUS
  <2>2. CASE stored[w] # Nothing
    <3>1. Settles(w)
      BY <1>1, <2>2 DEF StoreInv, OnTheWay
    <3> QED BY <2>1, <3>1 DEF Settles
  <2>3. CASE stored[w] = Nothing /\ w \notin known
    BY <1>1, <2>3 DEF StoreInv, UnknownUnseen
  <2>4. CASE stored[w] = Nothing /\ w \in known
    <3>1. Leaves(w)
      BY <1>1, <2>4 DEF StoreInv, OnTheWay, Gone
    <3> QED BY <2>4, <3>1 DEF Leaves
  <2> QED BY <2>2, <2>3, <2>4
<1> QED BY <1>1, StoreInitInv, StoreNextInv, PTL DEF StoreSpec

\* A cleared workflow stays out of the view, but for ids whose replies crossed:
\* nothing that is still on its way would show it and be let in.
THEOREM ClearedStaysAway == StoreSpec => []ClearedStaysCleared
<1>1. StoreInv => ClearedStaysCleared
  BY DEF StoreInv, LeftForGood, ClearedStaysCleared
<1> QED BY <1>1, StoreInitInv, StoreNextInv, PTL DEF StoreSpec

-----------------------------------------------------------------------------
(* The bounds of the rows, of the queue and of what waits behind it.       *)

\* No row is retried more often than it is committed.
AttemptsBelow == \A w \in Shown : stored[w] # Nothing => stored[w].attempt <= stored[w].sequence

StoreTypes == StoreTypeOK /\ AttemptsBelow

RowsOf(answer) == \A w \in DOMAIN answer : w \in Shown /\ answer[w] \in Row

LEMMA NextRowLemma ==
  ASSUME StoreTypes, NEW w \in Shown, NEW r, NextRow(w, r)
  PROVE  r \in Row /\ r.attempt <= r.sequence
<1>0. MaxSequence \in Nat \ {0}
  BY StoreAssumption
<1>1. CASE r = [attempt |-> 1, sequence |-> 1]
  BY <1>0, <1>1 DEF Row
<1>2. CASE /\ stored[w] # Nothing /\ stored[w].sequence < MaxSequence
           /\ \E retried \in BOOLEAN : r = Advanced(stored[w], retried)
  <2>1. stored[w] \in Row /\ stored[w].attempt <= stored[w].sequence /\ stored[w].sequence < MaxSequence
    BY <1>2 DEF StoreTypes, StoreTypeOK, AttemptsBelow
  <2>2. PICK retried \in BOOLEAN : r = Advanced(stored[w], retried)
    BY <1>2
  <2> QED BY <1>0, <2>1, <2>2 DEF Row, Advanced
<1> QED BY <1>1, <1>2 DEF NextRow

\* What a row that is written does to the rows and to the queue.
LEMMA WrittenTypes ==
  ASSUME StoreInv, StoreTypes, NEW w \in Shown, NEW r \in State, Writes(w, r), NextRow(w, r)
  PROVE  /\ stored' \in [Shown -> Row \cup {Nothing}] /\ known' \subseteq Shown /\ AttemptsBelow'
         /\ \A i \in DOMAIN events' : events'[i].of \in Shown /\ events'[i].state \in Row
         /\ Len(events) \in Nat /\ Len(events') = Len(events) + 1
<1>1. r \in Row /\ r.attempt <= r.sequence
  BY NextRowLemma
<1>2. /\ stored' = [stored EXCEPT ![w] = r] /\ known' = known \cup {w}
      /\ events' \in Seq([of : Shown, state : State]) /\ Len(events') = Len(events) + 1 /\ Len(events) \in Nat
      /\ events'[Len(events) + 1] = [of |-> w, state |-> r]
      /\ \A i \in 1 .. Len(events) : events'[i] = events[i]
      /\ \A i \in 1 .. Len(events') : i \in 1 .. Len(events) \/ i = Len(events) + 1
  BY WritesFacts DEF Writes
<1>3. /\ stored \in [Shown -> Row \cup {Nothing}] /\ known \subseteq Shown
      /\ \A x \in Shown : stored[x] # Nothing => stored[x].attempt <= stored[x].sequence
  BY DEF StoreTypes, StoreTypeOK, AttemptsBelow
<1>4. stored' \in [Shown -> Row \cup {Nothing}] /\ known' \subseteq Shown
  BY <1>1, <1>2, <1>3
<1>5. AttemptsBelow'
  BY <1>1, <1>2, <1>3 DEF AttemptsBelow
<1>6. \A i \in DOMAIN events : events[i].of \in Shown /\ events[i].state \in Row
  BY DEF StoreTypes, StoreTypeOK
<1>7. DOMAIN events = 1 .. Len(events) /\ DOMAIN events' = 1 .. Len(events')
  <2>1. events \in Seq([of : Shown, state : State])
    BY DEF StoreInv, StoreShape
  <2> QED BY <1>2, <2>1
<1>8. \A i \in DOMAIN events' : events'[i].of \in Shown /\ events'[i].state \in Row
  BY <1>1, <1>2, <1>6, <1>7
<1> QED BY <1>2, <1>4, <1>5, <1>8

\* A call in flight as the type invariant has it.
AskOK(c, n) ==
  /\ c.kind \in Kinds /\ c.of \in Shown /\ c.state \in {"asked", "answered"}
  /\ c.behind \in 0 .. n /\ RowsOf(c.answer)

LEMMA AsksTyped ==
  StoreTypeOK <=>
    /\ stored \in [Shown -> Row \cup {Nothing}] /\ known \subseteq Shown
    /\ up \in BOOLEAN
    /\ \A i \in DOMAIN events : events[i].of \in Shown /\ events[i].state \in Row
    /\ \A c \in asks : AskOK(c, Len(events))
    /\ view \in [Shown -> Row \cup {Nothing}]
    /\ clearedIds \subseteq Shown
    /\ issued \in Nat /\ stops \in 0 .. MaxStops
    /\ dropped \subseteq Shown /\ overtaken \subseteq dropped \cup Shown /\ swallowed \in BOOLEAN
BY DEF StoreTypeOK, AskOK, RowsOf

LEMMA AsksTypedNext ==
  StoreTypeOK' <=>
    /\ stored' \in [Shown -> Row \cup {Nothing}] /\ known' \subseteq Shown
    /\ up' \in BOOLEAN
    /\ \A i \in DOMAIN events' : events'[i].of \in Shown /\ events'[i].state \in Row
    /\ \A c \in asks' : AskOK(c, Len(events'))
    /\ view' \in [Shown -> Row \cup {Nothing}]
    /\ clearedIds' \subseteq Shown
    /\ issued' \in Nat /\ stops' \in 0 .. MaxStops
    /\ dropped' \subseteq Shown /\ overtaken' \subseteq dropped' \cup Shown /\ swallowed' \in BOOLEAN
BY DEF StoreTypeOK, AskOK, RowsOf

LEMMA AskMoves ==
  ASSUME NEW n \in Nat, NEW m \in Nat, n <= m, NEW c, AskOK(c, n) PROVE AskOK(c, m)
BY DEF AskOK

LEMMA AskMade ==
  ASSUME StoreInv, NEW kind \in Kinds, NEW w \in Shown, NEW n \in Nat PROVE AskOK(Asked(kind, w), n)
BY DEF Asked, AskOK, RowsOf

LEMMA AskAnswered ==
  ASSUME NEW c \in AskType, NEW n \in Nat, NEW a \in Answers1, RowsOf(a) PROVE AskOK(Reply(c, a, n), n)
<1>1. c.kind \in Kinds /\ c.of \in Shown
  BY DEF AskType
<1>2. PICK d \in {Reply(c, a, n)} :
        d.kind = c.kind /\ d.of = c.of /\ d.state = "answered" /\ d.answer = a /\ d.behind = n
  BY ReplyLemma
<1> QED BY <1>1, <1>2 DEF AskOK

LEMMA QueueLength == ASSUME StoreInv PROVE Len(events) \in Nat /\ DOMAIN events = 1 .. Len(events)
<1>1. events \in Seq([of : Shown, state : State])
  BY DEF StoreInv, StoreShape
<1> QED BY <1>1

LEMMA CommitsTypes == ASSUME StoreInv, StoreTypes, NEW w \in Shown, Commits(w) PROVE StoreTypes'
<1>1. PICK r \in State : Writes(w, r)
  BY CommitsWrites DEF StoreInv
<1>2. NextRow(w, r)
  <2>1. stored[w] # Nothing /\ stored[w].sequence < MaxSequence /\ stored' = [stored EXCEPT ![w] = Advanced(stored[w], FALSE)]
    BY DEF Commits
  <2>2. stored \in [Shown -> State \cup {Nothing}] /\ stored' = [stored EXCEPT ![w] = r]
    BY <1>1 DEF Writes, StoreInv, StoreShape
  <2>3. r = stored'[w] /\ stored'[w] = Advanced(stored[w], FALSE)
    BY <2>1, <2>2
  <2> QED BY <2>1, <2>3 DEF NextRow
<1>3. UNCHANGED <<up, asks, view, clearedIds, issued, stops, dropped, overtaken, swallowed>>
  BY DEF Commits
<1>4. /\ stored' \in [Shown -> Row \cup {Nothing}] /\ known' \subseteq Shown /\ AttemptsBelow'
      /\ \A i \in DOMAIN events' : events'[i].of \in Shown /\ events'[i].state \in Row
      /\ Len(events) \in Nat /\ Len(events') = Len(events) + 1
  BY <1>1, <1>2, WrittenTypes
<1>5. \A c \in asks : AskOK(c, Len(events))
  BY AsksTyped DEF StoreTypes
<1>6. \A c \in asks' : AskOK(c, Len(events'))
  <2>1. Len(events') \in Nat /\ Len(events) <= Len(events')
    BY <1>4
  <2> QED BY <1>3, <1>4, <1>5, <2>1, AskMoves
<1> QED BY <1>3, <1>4, <1>6, AsksTyped, AsksTypedNext DEF StoreTypes

LEMMA AnswerTypes == ASSUME StoreInv, StoreTypes, NEW c \in asks, Answer(c) PROVE StoreTypes'
<1>1. UNCHANGED <<up, view, clearedIds, issued, stops, dropped, overtaken, swallowed>>
  BY DEF Answer
<1>2. c \in AskType /\ c.of \in Shown
  <2>1. c \in AskType
    BY DEF StoreInv, StoreShape
  <2> QED BY <2>1 DEF AskType
<1>3. \A d \in asks : AskOK(d, Len(events))
  BY AsksTyped DEF StoreTypes
<1>4. Len(events) \in Nat
  BY QueueLength
<1>5. /\ stored \in [Shown -> Row \cup {Nothing}] /\ AttemptsBelow
      /\ stored \in [Shown -> State \cup {Nothing}]
  BY DEF StoreTypes, StoreTypeOK, StoreInv, StoreShape
<1>6. CASE Reads(c)
  <2>1. UNCHANGED <<stored, known, events>>
    BY <1>6 DEF Reads
  <2>2. PICK ids \in SUBSET Shown :
          /\ \A x \in ids : stored[x] # Nothing
          /\ asks' = (asks \ {c}) \cup {Reply(c, [x \in ids |-> stored[x]], Len(events))}
    BY <1>6 DEF Reads
  <2> DEFINE a == [x \in ids |-> stored[x]]
  <2>3. a \in Answers1 /\ RowsOf(a)
    <3>1. a \in [ids -> State] /\ \A x \in ids : x \in Shown /\ a[x] \in Row
      BY <1>5, <2>2
    <3>2. ids \in SUBSET Shown
      OBVIOUS
    <3> HIDE DEF a
    <3> QED BY <3>1, <3>2 DEF Answers1, RowsOf
  <2> HIDE DEF a
  <2>4. AskOK(Reply(c, a, Len(events)), Len(events))
    BY <1>2, <1>4, <2>3, AskAnswered
  <2>5. \A d \in asks' : AskOK(d, Len(events'))
    BY <1>3, <2>1, <2>2, <2>4 DEF a
  <2>6. AttemptsBelow'
    BY <1>5, <2>1 DEF AttemptsBelow
  <2> QED BY <1>1, <2>1, <2>5, <2>6, AsksTyped, AsksTypedNext DEF StoreTypes
<1>7. CASE Changes(c)
  <2>1. PICK w \in Shown, r \in State :
          /\ Writes(w, r) /\ NextRow(w, r)
          /\ asks' = (asks \ {c}) \cup {Reply(c, [x \in {w} |-> r], Len(events'))}
    BY <1>7 DEF Changes
  <2>2. /\ stored' \in [Shown -> Row \cup {Nothing}] /\ known' \subseteq Shown /\ AttemptsBelow'
        /\ \A i \in DOMAIN events' : events'[i].of \in Shown /\ events'[i].state \in Row
        /\ Len(events') = Len(events) + 1
    BY <2>1, WrittenTypes
  <2> DEFINE a == [x \in {w} |-> r]
  <2>3. a \in Answers1 /\ RowsOf(a)
    <3>1. r \in Row
      BY <2>1, NextRowLemma
    <3>2. a \in [{w} -> State] /\ \A x \in DOMAIN a : x \in Shown /\ a[x] \in Row
      BY <3>1
    <3>3. {w} \in SUBSET Shown
      OBVIOUS
    <3> HIDE DEF a
    <3> QED BY <3>2, <3>3 DEF Answers1, RowsOf
  <2> HIDE DEF a
  <2>4. Len(events') \in Nat /\ Len(events) <= Len(events')
    BY <1>4, <2>2
  <2>5. AskOK(Reply(c, a, Len(events')), Len(events'))
    BY <1>2, <2>3, <2>4, AskAnswered
  <2>6. \A d \in asks : AskOK(d, Len(events'))
    BY <1>3, <1>4, <2>4, AskMoves
  <2>7. \A d \in asks' : AskOK(d, Len(events'))
    BY <2>1, <2>5, <2>6 DEF a
  <2> QED BY <1>1, <2>2, <2>7, AsksTyped, AsksTypedNext DEF StoreTypes
<1>8. CASE Removes(c)
  <2>1. /\ UNCHANGED <<known, events>>
        /\ stored' = [stored EXCEPT ![c.of] = Nothing]
        /\ asks' = (asks \ {c}) \cup {Reply(c, [x \in {} |-> Nothing], Len(events))}
    BY <1>8 DEF Removes
  <2>2. stored' \in [Shown -> Row \cup {Nothing}] /\ AttemptsBelow'
    BY <1>2, <1>5, <2>1 DEF AttemptsBelow
  <2>3. [x \in {} |-> Nothing] \in Answers1 /\ RowsOf([x \in {} |-> Nothing])
    BY EmptyAnswer DEF RowsOf
  <2>4. AskOK(Reply(c, [x \in {} |-> Nothing], Len(events)), Len(events))
    BY <1>2, <1>4, <2>3, AskAnswered
  <2>5. \A d \in asks' : AskOK(d, Len(events'))
    BY <1>3, <2>1, <2>4
  <2> QED BY <1>1, <2>1, <2>2, <2>5, AsksTyped, AsksTypedNext DEF StoreTypes
<1>9. CASE Refuses(c)
  <2>1. UNCHANGED <<stored, known, events>> /\ asks' = asks \ {c}
    BY <1>9 DEF Refuses
  <2>2. \A d \in asks' : AskOK(d, Len(events'))
    BY <1>3, <2>1
  <2>3. AttemptsBelow'
    BY <1>5, <2>1 DEF AttemptsBelow
  <2> QED BY <1>1, <2>1, <2>2, <2>3, AsksTyped, AsksTypedNext DEF StoreTypes
<1> QED BY <1>6, <1>7, <1>8, <1>9, AnswerCases DEF StoreInv

LEMMA AskForTypes ==
  ASSUME StoreInv, StoreTypes, NEW w \in Shown, NEW kind \in Kinds, AskFor(kind, w) PROVE StoreTypes'
<1>1. /\ UNCHANGED <<stored, known, up, events, view, clearedIds, stops, dropped, overtaken, swallowed>>
      /\ asks' = asks \cup {Asked(kind, w)} /\ issued' = issued + 1
  BY DEF AskFor
<1>2. \A d \in asks : AskOK(d, Len(events))
  BY AsksTyped DEF StoreTypes
<1>3. AskOK(Asked(kind, w), Len(events))
  BY QueueLength, AskMade
<1>4. issued' \in Nat
  BY <1>1, AsksTyped DEF StoreTypes
<1>5. AttemptsBelow'
  BY <1>1 DEF StoreTypes, AttemptsBelow
<1> QED BY <1>1, <1>2, <1>3, <1>4, <1>5, AsksTyped, AsksTypedNext DEF StoreTypes

LEMMA NewerTyped ==
  ASSUME NEW r \in Row \cup {Nothing}, NEW s \in Row PROVE Newer(r, s) \in Row
BY DEF Newer

LEMMA EventArrivesTypes == ASSUME StoreInv, StoreTypes, EventArrives PROVE StoreTypes'
<1> DEFINE e == Head(events)
           left == {[c EXCEPT !.behind = IF @ > 0 THEN @ - 1 ELSE 0] : c \in asks}
<1>1. /\ events # <<>> /\ events' = Tail(events)
      /\ IF e.of \in clearedIds
           THEN asks' = left /\ UNCHANGED <<view, issued>>
           ELSE /\ view' = [view EXCEPT ![e.of] = Newer(@, e.state)]
                /\ asks' \in {left, AskedAgain(e.of, left)}
                /\ issued' \in {issued, issued + 1}
      /\ UNCHANGED <<stored, known, up, clearedIds, stops, dropped, overtaken, swallowed>>
  BY DEF EventArrives
<1>2. /\ events \in Seq([of : Shown, state : State])
      /\ Len(events) \in Nat \ {0} /\ 1 \in DOMAIN events /\ e = events[1]
      /\ Len(events') = Len(events) - 1 /\ Len(events') \in Nat
      /\ DOMAIN events' = 1 .. Len(events') /\ DOMAIN events = 1 .. Len(events)
      /\ \A i \in DOMAIN events' : events'[i] = events[i + 1]
  <2>1. events \in Seq([of : Shown, state : State]) /\ events # <<>> /\ events' = Tail(events)
    BY <1>1 DEF StoreInv, StoreShape
  <2> QED BY <2>1
<1>3. \A i \in DOMAIN events : events[i].of \in Shown /\ events[i].state \in Row
  BY DEF StoreTypes, StoreTypeOK
<1>4. e.of \in Shown /\ e.state \in Row
  BY <1>2, <1>3
<1>5. \A i \in DOMAIN events' : events'[i].of \in Shown /\ events'[i].state \in Row
  <2> SUFFICES ASSUME NEW i \in DOMAIN events' PROVE i + 1 \in DOMAIN events /\ events'[i] = events[i + 1]
    BY <1>3
  <2> QED BY <1>2
<1>6. \A d \in left : AskOK(d, Len(events'))
  <2> SUFFICES ASSUME NEW c \in asks PROVE AskOK([c EXCEPT !.behind = IF @ > 0 THEN @ - 1 ELSE 0], Len(events'))
    OBVIOUS
  <2>1. AskOK(c, Len(events)) /\ c \in AskType
    BY AsksTyped DEF StoreTypes, StoreInv, StoreShape
  <2> DEFINE n == IF c.behind > 0 THEN c.behind - 1 ELSE 0
  <2>2. n \in 0 .. Len(events') /\ n \in Nat
    BY <1>2, <2>1 DEF AskOK
  <2>3. [c EXCEPT !.behind = IF @ > 0 THEN @ - 1 ELSE 0] = [c EXCEPT !.behind = n]
    OBVIOUS
  <2> HIDE DEF n
  <2>4. PICK d \in {[c EXCEPT !.behind = n]} : SameCall(d, c) /\ d.behind = n
    BY <2>1, <2>2, MovedLemma
  <2> QED BY <2>1, <2>2, <2>3, <2>4 DEF AskOK, SameCall
<1> HIDE DEF left, e
<1>7. \A d \in asks' : AskOK(d, Len(events'))
  <2>1. AskOK(Asked("guarded", e.of), Len(events'))
    BY <1>2, <1>4, AskMade DEF Kinds
  <2> QED BY <1>1, <1>6, <2>1 DEF AskedAgain
<1>8. view' \in [Shown -> Row \cup {Nothing}]
  <2>1. view \in [Shown -> Row \cup {Nothing}]
    BY DEF StoreTypes, StoreTypeOK
  <2>2. Newer(view[e.of], e.state) \in Row
    BY <1>4, <2>1, NewerTyped
  <2> QED BY <1>1, <1>4, <2>1, <2>2
<1>9. issued' \in Nat
  BY <1>1, AsksTyped DEF StoreTypes
<1>10. AttemptsBelow'
  BY <1>1 DEF StoreTypes, AttemptsBelow
<1> QED BY <1>1, <1>5, <1>7, <1>8, <1>9, <1>10, AsksTyped, AsksTypedNext DEF StoreTypes

LEMMA StopsTypes == ASSUME StoreInv, StoreTypes, Stops PROVE StoreTypes'
<1>1. PICK kept \in 0 .. Len(events),
           rejected \in SUBSET {c \in asks : c.kind = "clear" /\ c.state = "answered"} :
        /\ events' = SubSeq(events, 1, kept)
        /\ asks' = {[c EXCEPT !.behind = IF @ < kept THEN @ ELSE kept] :
                      c \in {d \in asks : d.state = "answered"} \ rejected}
  BY DEF Stops
<1>2. /\ up' = FALSE /\ stops' = stops + 1 /\ stops < MaxStops
      /\ UNCHANGED <<stored, known, view, clearedIds, issued, dropped, overtaken, swallowed>>
  BY DEF Stops
<1>3. /\ kept \in Nat /\ Len(events') = kept /\ DOMAIN events' = 1 .. kept
      /\ \A i \in DOMAIN events' : i \in DOMAIN events /\ events'[i] = events[i]
  <2>1. events \in Seq([of : Shown, state : State])
    BY DEF StoreInv, StoreShape
  <2>2. Len(events) \in Nat /\ kept \in Nat /\ kept <= Len(events) /\ DOMAIN events = 1 .. Len(events)
    BY <2>1
  <2>3. \A i \in 1 .. kept : events[i] \in [of : Shown, state : State]
    <3>1. \A i \in 1 .. kept : i \in 1 .. Len(events)
      BY <2>2
    <3> QED BY <2>1, <3>1, ElementOfSeq
  <2>4. /\ SubSeq(events, 1, kept) \in Seq([of : Shown, state : State])
        /\ Len(SubSeq(events, 1, kept)) = IF 1 <= kept THEN kept - 1 + 1 ELSE 0
        /\ \A i \in 1 .. kept - 1 + 1 : SubSeq(events, 1, kept)[i] = events[1 + i - 1]
    BY <2>2, <2>3, SubSeqProperties
  <2>5. Len(events') = kept /\ DOMAIN events' = 1 .. kept
    BY <1>1, <2>2, <2>4
  <2>6. \A i \in 1 .. kept : i \in 1 .. kept - 1 + 1 /\ 1 + i - 1 = i /\ i \in DOMAIN events
    BY <2>2
  <2>7. \A i \in 1 .. kept : events'[i] = events[i]
    BY <1>1, <2>4, <2>6
  <2> QED BY <2>2, <2>5, <2>6, <2>7
<1>4. \A i \in DOMAIN events' : events'[i].of \in Shown /\ events'[i].state \in Row
  BY <1>3 DEF StoreTypes, StoreTypeOK
<1>5. \A d \in asks' : AskOK(d, Len(events'))
  <2> SUFFICES ASSUME NEW c \in asks PROVE AskOK([c EXCEPT !.behind = IF @ < kept THEN @ ELSE kept], kept)
    BY <1>1, <1>3
  <2>1. AskOK(c, Len(events)) /\ c \in AskType
    BY AsksTyped DEF StoreTypes, StoreInv, StoreShape
  <2> DEFINE n == IF c.behind < kept THEN c.behind ELSE kept
  <2>2. n \in 0 .. kept /\ n \in Nat
    BY <1>3, <2>1 DEF AskOK
  <2>3. [c EXCEPT !.behind = IF @ < kept THEN @ ELSE kept] = [c EXCEPT !.behind = n]
    OBVIOUS
  <2> HIDE DEF n
  <2>4. PICK d \in {[c EXCEPT !.behind = n]} : SameCall(d, c) /\ d.behind = n
    BY <2>1, <2>2, MovedLemma
  <2> QED BY <2>1, <2>2, <2>3, <2>4 DEF AskOK, SameCall
<1>6. stops' \in 0 .. MaxStops
  <2>1. stops \in 0 .. MaxStops /\ MaxStops \in Nat
    BY StoreAssumption DEF StoreTypes, StoreTypeOK
  <2> QED BY <1>2, <2>1
<1>7. AttemptsBelow'
  BY <1>2 DEF StoreTypes, AttemptsBelow
<1> QED BY <1>2, <1>4, <1>5, <1>6, <1>7, AsksTyped, AsksTypedNext DEF StoreTypes

LEMMA AppliesTypes == ASSUME StoreInv, StoreTypes, NEW c \in asks, Applies(c) PROVE StoreTypes'
<1>1. /\ clearedIds' = IF c.kind = "clear" THEN clearedIds \cup {c.of}
                       ELSE IF c.kind \in Lists \cup {"submit"} THEN clearedIds \ DOMAIN c.answer
                       ELSE clearedIds
      /\ view' = [w \in Shown |->
                   IF \/ c.kind = "clear" /\ w = c.of
                      \/ c.kind \in Lists /\ MissingFrom(c, w) THEN Nothing
                   ELSE IF w \in DOMAIN c.answer /\ Accepted(c, w) THEN Newer(view[w], c.answer[w])
                   ELSE view[w]]
      /\ dropped' = IF c.kind = "clear" THEN dropped \cup {c.of} ELSE dropped
      /\ overtaken' = overtaken \cup {w \in Shown : Crossed(c, w)}
      /\ UNCHANGED <<stored, known, up, events, stops, swallowed>>
  BY DEF Applies
<1>2. \/ asks' = asks \ {c} /\ UNCHANGED issued
      \/ (\E w \in Shown : asks' = (asks \ {c}) \cup {Asked("selected", w)}) /\ issued' = issued + 1
  BY DEF Applies
<1>3. AskOK(c, Len(events)) /\ \A d \in asks : AskOK(d, Len(events))
  BY AsksTyped DEF StoreTypes
<1>4. \A d \in asks' : AskOK(d, Len(events'))
  <2>1. \A w \in Shown : AskOK(Asked("selected", w), Len(events))
    BY QueueLength, AskMade DEF Kinds
  <2> QED BY <1>1, <1>2, <1>3, <2>1
<1>5. view' \in [Shown -> Row \cup {Nothing}]
  <2>1. view \in [Shown -> Row \cup {Nothing}]
    BY DEF StoreTypes, StoreTypeOK
  <2>2. \A w \in DOMAIN c.answer : c.answer[w] \in Row
    BY <1>3 DEF AskOK, RowsOf
  <2>3. \A w \in Shown : w \in DOMAIN c.answer => Newer(view[w], c.answer[w]) \in Row
    BY <2>1, <2>2, NewerTyped
  <2> QED BY <1>1, <2>1, <2>3
<1>6. clearedIds' \subseteq Shown /\ dropped' \subseteq Shown /\ overtaken' \subseteq dropped' \cup Shown
  <2>1. c.of \in Shown
    BY <1>3 DEF AskOK
  <2>2. clearedIds \subseteq Shown /\ dropped \subseteq Shown /\ overtaken \subseteq dropped \cup Shown
    BY DEF StoreTypes, StoreTypeOK
  <2> QED BY <1>1, <2>1, <2>2
<1>7. issued' \in Nat
  BY <1>2, AsksTyped DEF StoreTypes
<1>8. AttemptsBelow'
  BY <1>1 DEF StoreTypes, AttemptsBelow
<1> QED BY <1>1, <1>4, <1>5, <1>6, <1>7, <1>8, AsksTyped, AsksTypedNext DEF StoreTypes

LEMMA ReadyTypes == ASSUME StoreInv, StoreTypes, Ready PROVE StoreTypes'
<1>1. PICK found \in SUBSET {w \in Shown : stored[w] # Nothing /\ stored[w].sequence < MaxSequence} :
        stored' = [w \in Shown |-> IF w \in found THEN Advanced(stored[w], FALSE) ELSE stored[w]]
  BY DEF Ready
<1>2. /\ up' = TRUE
      /\ \/ swallowed' = TRUE /\ UNCHANGED <<asks, issued>>
         \/ /\ asks' = asks \cup {Asked("reconcile", CHOOSE w \in Shown : TRUE)}
            /\ issued' = issued + 1 /\ UNCHANGED swallowed
      /\ UNCHANGED <<known, events, view, clearedIds, stops, dropped, overtaken>>
  BY DEF Ready
<1>3. ASSUME NEW w \in Shown
      PROVE  /\ stored'[w] \in Row \cup {Nothing}
             /\ stored'[w] # Nothing => stored'[w].attempt <= stored'[w].sequence
  <2>1. CASE w \in found
    <3>1. NextRow(w, stored'[w])
      BY <1>1, <2>1 DEF NextRow
    <3> QED BY <3>1, NextRowLemma
  <2>2. CASE w \notin found
    BY <1>1, <2>2 DEF StoreTypes, StoreTypeOK, AttemptsBelow
  <2> QED BY <2>1, <2>2
<1>4. stored' \in [Shown -> Row \cup {Nothing}] /\ AttemptsBelow'
  BY <1>1, <1>3 DEF AttemptsBelow
<1>5. \A d \in asks' : AskOK(d, Len(events'))
  <2>1. AskOK(Asked("reconcile", CHOOSE w \in Shown : TRUE), Len(events))
    <3>1. (CHOOSE w \in Shown : TRUE) \in Shown
      BY StoreAssumption
    <3> QED BY <3>1, QueueLength, AskMade DEF Kinds, Lists
  <2>2. \A d \in asks : AskOK(d, Len(events))
    BY AsksTyped DEF StoreTypes
  <2> QED BY <1>2, <2>1, <2>2
<1>6. issued' \in Nat /\ swallowed' \in BOOLEAN
  <2>1. issued \in Nat /\ swallowed \in BOOLEAN
    BY DEF StoreTypes, StoreTypeOK
  <2>2. issued' \in Nat
    BY <1>2, <2>1
  <2>3. swallowed' \in BOOLEAN
    BY <1>2, <2>1, Zenon
  <2> QED BY <2>2, <2>3
<1> QED BY <1>2, <1>4, <1>5, <1>6, AsksTyped, AsksTypedNext DEF StoreTypes

\* No row is committed, retried or marked past the bound, no queued event or
\* reply speaks of a state no row was in, and a reply never waits for more
\* events than there are, however calls, replies and exits fall.
THEOREM StoreTypesCorrect == StoreSpec => []StoreTypeOK
<1>1. StoreInit => StoreTypes
  <2> SUFFICES ASSUME StoreInit PROVE StoreTypes
    OBVIOUS
  <2>1. events = <<>> /\ DOMAIN events = {} /\ asks = {} /\ MaxStops \in Nat
    BY StoreAssumption DEF StoreInit
  <2>2. stops \in 0 .. MaxStops /\ issued \in Nat
    BY <2>1 DEF StoreInit
  <2>4. up \in BOOLEAN /\ swallowed \in BOOLEAN
    BY DEF StoreInit
  <2>5. StoreTypeOK
    BY <2>1, <2>2, <2>4, AsksTyped DEF StoreInit
  <2>3. AttemptsBelow
    BY DEF StoreInit, AttemptsBelow
  <2> QED BY <2>3, <2>5 DEF StoreTypes
<1>2. ASSUME StoreInv, StoreTypes, [StoreNext]_storeVars PROVE StoreTypes'
  <2>1. CASE UNCHANGED storeVars
    BY <1>2, <2>1 DEF storeVars, StoreTypes, StoreTypeOK, AttemptsBelow
  <2>2. CASE StoreNext
    BY <1>2, <2>2, CommitsTypes, AnswerTypes, AskForTypes, EventArrivesTypes, StopsTypes, AppliesTypes, ReadyTypes
    DEF StoreNext
  <2> QED BY <1>2, <2>1, <2>2
<1>3. StoreTypes => StoreTypeOK
  BY DEF StoreTypes
<1> QED BY <1>1, <1>2, <1>3, StoreInitInv, StoreNextInv, PTL DEF StoreSpec
=============================================================================
