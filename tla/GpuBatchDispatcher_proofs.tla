---------------------- MODULE GpuBatchDispatcher_proofs ----------------------
(***************************************************************************)
(* Proofs about the GPU dispatcher, for every set of workflows, attempts,  *)
(* durations, budgets and table sizes that DispatcherAssumption allows.    *)
(*                                                                         *)
(* First the operators: what Only keeps of a sequence, by induction over   *)
(* it; what a round-robin plan holds, by induction over the turns: the     *)
(* front of every queue, within the budgets, never empty.  Then one        *)
(* inductive invariant, IInv, with one lemma per action.                   *)
(***************************************************************************)
EXTENDS GpuBatchDispatcher, WellFoundedInduction, SequenceTheorems, FiniteSetTheorems, TLAPS

-----------------------------------------------------------------------------
(* Induction, without a parameter that is an operator.                     *)

\* A set that contains 0 and the successor of each of its numbers contains
\* every natural number.
LEMMA SetInduction ==
  ASSUME NEW S, 0 \in S, \A n \in Nat : n \in S => n + 1 \in S
  PROVE  \A n \in Nat : n \in S
<1> DEFINE Rest == Nat \ S
<1> SUFFICES ASSUME Rest # {} PROVE FALSE
  OBVIOUS
<1>1. PICK x \in Rest : \A y \in Rest : ~(<<y, x>> \in OpToRel(<, Nat))
  BY NatLessThanWellFounded, WFMin
<1>2. \A y \in Rest : ~(y < x)
  BY <1>1 DEF OpToRel
<1>3. x \in Nat /\ x # 0
  OBVIOUS
<1>4. x - 1 \in Nat /\ x - 1 < x /\ (x - 1) + 1 = x
  BY <1>3
<1>5. x - 1 \in S
  BY <1>2, <1>4
<1> QED BY <1>3, <1>4, <1>5

\* The recursive function of Only exists, so Only is its last value.
LEMMA OnlyFunction ==
  ASSUME NEW T, NEW s \in Seq(T), NEW kept
  PROVE  \E f : /\ f[0] = <<>>
                /\ \A n \in 1 .. Len(s) :
                     f[n] = IF s[n] \in kept THEN Append(f[n - 1], s[n]) ELSE f[n - 1]
                /\ Only(s, kept) = f[Len(s)]
<1> DEFINE After(x, n) == IF s[n] \in kept THEN Append(x, s[n]) ELSE x
           Fcn(g, k) == g = [n \in 0 .. k |-> IF n = 0 THEN <<>> ELSE After(g[n - 1], n)]
           Good == {k \in Nat : \E g : Fcn(g, k)}
<1>1. 0 \in Good
  <2>1. Fcn([n \in 0 .. 0 |-> <<>>], 0)
    OBVIOUS
  <2> QED BY <2>1
<1>2. ASSUME NEW k \in Nat, k \in Good PROVE k + 1 \in Good
  <2> HIDE DEF After
  <2>1. PICK g : Fcn(g, k)
    BY <1>2
  <2> DEFINE h == [n \in 0 .. k + 1 |-> IF n = k + 1 THEN After(g[k], k + 1) ELSE g[n]]
  <2>2. ASSUME NEW n \in 0 .. k + 1
        PROVE  h[n] = IF n = 0 THEN <<>> ELSE After(h[n - 1], n)
    BY <2>1
  <2>3. Fcn(h, k + 1)
    BY <2>2
  <2> HIDE DEF h, Fcn
  <2> QED BY <2>3
<1>3. Len(s) \in Good
  <2> HIDE DEF Good
  <2> QED BY <1>1, <1>2, SetInduction
<1>4. PICK f : Fcn(f, Len(s)) /\ f = CHOOSE g : Fcn(g, Len(s))
  BY <1>3
<1>5. Only(s, kept) = f[Len(s)]
  BY <1>4 DEF Only
<1>6. f[0] = <<>> /\ \A n \in 1 .. Len(s) : f[n] = After(f[n - 1], n)
  <2> HIDE DEF After
  <2> QED BY <1>4
<1> QED BY <1>5, <1>6

\* What Only keeps: the elements of the sequence that are in the set, none
\* twice that was not twice in the sequence, and the first one if it is kept.
LEMMA OnlyLemma ==
  ASSUME NEW T, NEW s \in Seq(T), NEW kept
  PROVE  /\ Only(s, kept) \in Seq(T)
         /\ \A x : Contains(Only(s, kept), x) <=> Contains(s, x) /\ x \in kept
         /\ NoDuplicates(s) => NoDuplicates(Only(s, kept))
         /\ s # <<>> /\ s[1] \in kept => Only(s, kept) # <<>> /\ Only(s, kept)[1] = s[1]
<1>1. PICK f : /\ f[0] = <<>>
               /\ \A n \in 1 .. Len(s) :
                    f[n] = IF s[n] \in kept THEN Append(f[n - 1], s[n]) ELSE f[n - 1]
               /\ Only(s, kept) = f[Len(s)]
  BY OnlyFunction
<1> DEFINE Kept(r, n) == /\ r \in Seq(T)
                         /\ \A x : Contains(r, x) <=> x \in kept /\ \E m \in 1 .. n : s[m] = x
                         /\ NoDuplicates(s) => NoDuplicates(r)
                         /\ n > 0 /\ s[1] \in kept => r # <<>> /\ r[1] = s[1]
           Good == {n \in Nat : n <= Len(s) => Kept(f[n], n)}
<1>2. 0 \in Good
  <2>1. f[0] = <<>>
    BY <1>1
  <2>2. Kept(<<>>, 0)
    BY DEF Contains, NoDuplicates
  <2> HIDE DEF Kept
  <2> QED BY <2>1, <2>2
<1>3. ASSUME NEW n \in Nat, n \in Good, n + 1 <= Len(s) PROVE Kept(f[n + 1], n + 1)
  <2>1. Kept(f[n], n)
    BY <1>3
  <2>2. f[n + 1] = IF s[n + 1] \in kept THEN Append(f[n], s[n + 1]) ELSE f[n]
    <3>1. n + 1 \in 1 .. Len(s) /\ (n + 1) - 1 = n
      BY <1>3
    <3> QED BY <1>1, <3>1
  <2>3. s[n + 1] \in T
    BY <1>3
  <2>4. CASE s[n + 1] \notin kept
    <3>1. f[n + 1] = f[n]
      BY <2>2, <2>4
    <3>2. \A x : x \in kept => ((\E m \in 1 .. n + 1 : s[m] = x) <=> \E m \in 1 .. n : s[m] = x)
      BY <2>4
    <3> QED BY <2>1, <2>4, <3>1, <3>2
  <2>5. CASE s[n + 1] \in kept
    <3> DEFINE r == f[n]
    <3>1. f[n + 1] = Append(r, s[n + 1])
      BY <2>2, <2>5
    <3>2. r \in Seq(T) /\ Append(r, s[n + 1]) \in Seq(T) /\ Len(Append(r, s[n + 1])) = Len(r) + 1
      BY <2>1, <2>3
    <3>3. \A m \in 1 .. Len(r) + 1 : Append(r, s[n + 1])[m] = IF m = Len(r) + 1 THEN s[n + 1] ELSE r[m]
      BY <2>1, <2>3
    <3>4. \A x : Contains(Append(r, s[n + 1]), x) <=> Contains(r, x) \/ x = s[n + 1]
      BY <3>2, <3>3 DEF Contains
    <3>5. \A x : Contains(Append(r, s[n + 1]), x) <=> x \in kept /\ \E m \in 1 .. n + 1 : s[m] = x
      BY <2>1, <2>5, <3>4
    <3>6. ASSUME NoDuplicates(s) PROVE NoDuplicates(Append(r, s[n + 1]))
      <4>1. ~Contains(r, s[n + 1])
        BY <2>1, <3>6, <1>3 DEF NoDuplicates
      <4>2. NoDuplicates(r)
        BY <2>1, <3>6
      <4> QED BY <4>1, <4>2, <3>2, <3>3, SMTT(30) DEF NoDuplicates, Contains
    <3>7. s[1] \in kept => Append(r, s[n + 1]) # <<>> /\ Append(r, s[n + 1])[1] = s[1]
      <4>1. CASE n = 0
        <5>1. r = <<>>
          BY <1>1, <4>1
        <5> QED BY <5>1, <4>1, <3>2, <3>3
      <4>2. CASE n > 0
        BY <4>2, <2>1, <3>2, <3>3
      <4> QED BY <4>1, <4>2
    <3> QED BY <3>1, <3>2, <3>5, <3>6, <3>7
  <2> QED BY <2>4, <2>5
<1>4. \A n \in Nat : n \in Good => n + 1 \in Good
  BY <1>3
<1>5. Len(s) \in Good
  <2> HIDE DEF Good
  <2> QED BY <1>2, <1>4, SetInduction
<1>6. Kept(Only(s, kept), Len(s))
  BY <1>1, <1>5
<1>7. s # <<>> => Len(s) > 0
  OBVIOUS
<1>8. \A x : Contains(s, x) <=> \E m \in 1 .. Len(s) : s[m] = x
  BY DEF Contains
<1> QED BY <1>6, <1>7, <1>8

-----------------------------------------------------------------------------
(* Items and the keys of their attempts.                                   *)

\* A key is a workflow with one of its attempts.
LEMMA KeyLemma ==
  /\ \A w, a : <<w, a>> \in Key <=> w \in Workflow /\ a \in AttemptOf(w)
  /\ \A key \in Key : /\ key = <<key[1], key[2]>>
                      /\ key[1] \in Workflow /\ key[2] \in AttemptOf(key[1])
<1>1. \A k : k \in Key <=> \E w \in Workflow : k \in {w} \X AttemptOf(w)
  BY DEF Key
<1> QED BY <1>1

\* An item is its key with its segment.
LEMMA ItemLemma ==
  /\ \A key \in Key, seg \in Segment :
       /\ ItemOf(key, seg) \in Item
       /\ KeyOf(ItemOf(key, seg)) = key
       /\ ItemOf(key, seg).seg = seg
       /\ ItemOf(key, seg).wf = key[1]
  /\ \A i \in Item : /\ KeyOf(i) \in Key /\ i.seg \in Segment /\ i.wf = KeyOf(i)[1]
                     /\ i = ItemOf(KeyOf(i), i.seg)
<1>1. \A key \in Key : key = <<key[1], key[2]>>
  BY KeyLemma
<1> QED BY <1>1 DEF Item, ItemOf, KeyOf

LEMMA FiniteKeys == IsFiniteSet(Key)
<1>1. \A w \in Workflow : IsFiniteSet({w} \X AttemptOf(w))
  <2> TAKE w \in Workflow
  <2>1. Attempts[w] \in Int /\ 1 \in Int
    BY DispatcherAssumption
  <2>2. IsFiniteSet(AttemptOf(w))
    BY <2>1, FS_Interval DEF AttemptOf
  <2>3. IsFiniteSet({w})
    BY FS_Singleton
  <2> QED BY <2>2, <2>3, FS_Product
<1>2. IsFiniteSet({{w} \X AttemptOf(w) : w \in Workflow})
  <2> DEFINE keys == [w \in Workflow |-> {w} \X AttemptOf(w)]
             all == {{w} \X AttemptOf(w) : w \in Workflow}
  <2>1. keys \in Surjection(Workflow, all)
    BY DEF Surjection
  <2> QED BY <2>1, DispatcherAssumption, FS_Surjection
<1> QED BY <1>1, <1>2, FS_UNION DEF Key

-----------------------------------------------------------------------------
(* The planner.                                                            *)

\* The item that is added to a batch is counted for its attempt only.
LEMMA OffsetLemma ==
  ASSUME NEW b \in Seq(Item), NEW key
  PROVE  /\ Offset(b, key) \in Nat
         /\ Offset(b, key) > 0 => \E n \in DOMAIN b : KeyOf(b[n]) = key
         /\ \A i \in Item : Offset(Append(b, i), key) =
                              IF KeyOf(i) = key THEN Offset(b, key) + 1 ELSE Offset(b, key)
<1> DEFINE Of(s) == {n \in DOMAIN s : KeyOf(s[n]) = key}
<1>1. IsFiniteSet(Of(b))
  BY FS_Interval, FS_Subset
<1>2. Offset(b, key) \in Nat
  BY <1>1, FS_CardinalityType DEF Offset
<1>3. Offset(b, key) > 0 => Of(b) # {}
  BY <1>1, FS_EmptySet DEF Offset
<1>4. ASSUME NEW i \in Item
      PROVE  Offset(Append(b, i), key) = IF KeyOf(i) = key THEN Offset(b, key) + 1 ELSE Offset(b, key)
  <2>1. DOMAIN Append(b, i) = 1 .. Len(b) + 1 /\ DOMAIN b = 1 .. Len(b)
    OBVIOUS
  <2>2. \A n \in 1 .. Len(b) + 1 : Append(b, i)[n] = IF n = Len(b) + 1 THEN i ELSE b[n]
    OBVIOUS
  <2>3. Of(Append(b, i)) = IF KeyOf(i) = key THEN Of(b) \cup {Len(b) + 1} ELSE Of(b)
    BY <2>1, <2>2
  <2>4. Len(b) + 1 \notin Of(b)
    BY <2>1
  <2>5. Cardinality(Of(b) \cup {Len(b) + 1}) = Cardinality(Of(b)) + 1
    BY <1>1, <2>4, FS_AddElement
  <2> QED BY <2>3, <2>5 DEF Offset
<1> QED BY <1>2, <1>3, <1>4

\* The queues hold segments, none twice: what the planner relies on.
QueuesOK ==
  /\ queues \in [Key -> Seq(Segment)]
  /\ \A key \in Key : NoDuplicates(queues[key])
  /\ rotation \in [Workflow -> Seq(Nat)] /\ \A w \in Workflow : rotation[w] \in Seq(AttemptOf(w))
  /\ order \in Seq(Workflow)

\* A batch holds the front of every queue, and nothing twice.
Fronts(b) ==
  /\ b \in Seq(Item)
  /\ \A key \in Key : Offset(b, key) <= Len(queues[key])
  /\ \A n \in DOMAIN b : \E m \in 1 .. Offset(b, KeyOf(b[n])) : b[n].seg = queues[KeyOf(b[n])][m]
  /\ \A key \in Key : \A m \in 1 .. Offset(b, key) : \E n \in DOMAIN b : b[n] = ItemOf(key, queues[key][m])
  /\ NoDuplicates(b)

\* A batch keeps to the limits.
WithinLimits(b) ==
  /\ \A n \in DOMAIN b : Contains(Eligible, b[n].wf) /\ SameBucket(b[n], Seed)
  /\ b # <<>> => Fits(b)

\* The next item of an attempt keeps a batch a front of the queues.
LEMMA FrontLemma ==
  ASSUME QueuesOK, NEW b, Fronts(b), NEW key \in Key, Offset(b, key) < Len(queues[key])
  PROVE  /\ Candidate(b, key) \in Item
         /\ KeyOf(Candidate(b, key)) = key
         /\ Fronts(Append(b, Candidate(b, key)))
<1> DEFINE i == Candidate(b, key)
           c == Append(b, i)
           at == Offset(b, key) + 1
<1>1. b \in Seq(Item)
  BY DEF Fronts
<1>2. Offset(b, key) \in Nat /\ at \in 1 .. Len(queues[key]) /\ queues[key] \in Seq(Segment)
  BY <1>1, OffsetLemma DEF QueuesOK
<1>3. queues[key][at] \in Segment /\ i = ItemOf(key, queues[key][at])
  BY <1>2 DEF Candidate
<1>4. i \in Item /\ KeyOf(i) = key /\ i.seg = queues[key][at]
  BY <1>3, ItemLemma
<1>5. c \in Seq(Item) /\ DOMAIN c = 1 .. Len(b) + 1 /\ DOMAIN b = 1 .. Len(b)
  BY <1>1, <1>4
<1>6. \A n \in 1 .. Len(b) + 1 : c[n] = IF n = Len(b) + 1 THEN i ELSE b[n]
  BY <1>1, <1>4
<1>7. \A k \in Key : Offset(c, k) = IF k = key THEN at ELSE Offset(b, k)
  BY <1>1, <1>4, OffsetLemma
<1>8. \A k \in Key : Offset(b, k) \in Nat
  BY <1>1, OffsetLemma
<1> HIDE DEF i, c, at
<1>9. \A k \in Key : Offset(c, k) <= Len(queues[k])
  BY <1>2, <1>7 DEF Fronts
<1>10. ASSUME NEW n \in DOMAIN c
       PROVE  \E m \in 1 .. Offset(c, KeyOf(c[n])) : c[n].seg = queues[KeyOf(c[n])][m]
  <2>1. CASE n = Len(b) + 1
    <3>1. c[n] = i /\ Offset(c, key) = at
      BY <2>1, <1>5, <1>6, <1>7
    <3>2. at \in 1 .. at
      BY <1>2
    <3> QED BY <3>1, <3>2, <1>4
  <2>2. CASE n \in DOMAIN b
    <3>1. c[n] = b[n] /\ b[n] \in Item
      BY <2>2, <1>1, <1>5, <1>6
    <3>2. KeyOf(b[n]) \in Key
      BY <3>1, ItemLemma
    <3>3. PICK m \in 1 .. Offset(b, KeyOf(b[n])) : b[n].seg = queues[KeyOf(b[n])][m]
      BY <2>2 DEF Fronts
    <3>4. m \in 1 .. Offset(c, KeyOf(b[n]))
      BY <3>2, <3>3, <1>2, <1>7, <1>8 DEF at
    <3> QED BY <3>1, <3>3, <3>4
  <2> QED BY <2>1, <2>2, <1>5
<1>11. ASSUME NEW k \in Key, NEW m \in 1 .. Offset(c, k)
       PROVE  \E n \in DOMAIN c : c[n] = ItemOf(k, queues[k][m])
  <2>1. CASE k = key /\ m = at
    BY <2>1, <1>1, <1>3, <1>5, <1>6
  <2>2. CASE ~(k = key /\ m = at)
    <3>1. m \in 1 .. Offset(b, k)
      BY <2>2, <1>2, <1>7, <1>8 DEF at
    <3>2. PICK n \in DOMAIN b : b[n] = ItemOf(k, queues[k][m])
      BY <3>1 DEF Fronts
    <3> QED BY <3>2, <1>5, <1>6
  <2> QED BY <2>1, <2>2
<1>12. \A n \in DOMAIN b : b[n] # i
  <2> SUFFICES ASSUME NEW n \in DOMAIN b, b[n] = i PROVE FALSE
    OBVIOUS
  <2>1. PICK m \in 1 .. Offset(b, key) : i.seg = queues[key][m]
    BY <1>4 DEF Fronts
  <2>2. m \in DOMAIN queues[key] /\ at \in DOMAIN queues[key] /\ m # at
    BY <1>2, <1>8 DEF at
  <2> QED BY <2>1, <2>2, <1>4 DEF QueuesOK, NoDuplicates
<1>13. NoDuplicates(c)
  BY <1>5, <1>6, <1>12 DEF Fronts, NoDuplicates
<1> QED BY <1>4, <1>5, <1>9, <1>10, <1>11, <1>13 DEF Fronts, i, c

\* A turn of an eligible workflow keeps the batch a front of the queues and
\* within the limits.
LEMMA TurnLemma ==
  ASSUME QueuesOK, NEW b, Fronts(b), WithinLimits(b), NEW w \in Workflow, Contains(Eligible, w)
  PROVE  Fronts(AddFrom(b, w)) /\ WithinLimits(AddFrom(b, w))
<1> DEFINE may == {a \in AttemptOf(w) : MayAdd(b, <<w, a>>)}
           first == Only(rotation[w], may)
<1>1. first \in Seq(AttemptOf(w)) /\ \A x : Contains(first, x) => x \in may
  BY OnlyLemma DEF QueuesOK
<1>2. CASE first = <<>>
  BY <1>2 DEF AddFrom
<1>3. CASE first # <<>>
  <2> DEFINE key == <<w, first[1]>>
             i == Candidate(b, key)
  <2>1. Contains(first, first[1])
    <3>1. 1 \in 1 .. Len(first)
      BY <1>1, <1>3
    <3> QED BY <3>1 DEF Contains
  <2>2. first[1] \in AttemptOf(w) /\ MayAdd(b, key)
    BY <1>1, <2>1
  <2>3. key \in Key
    BY <2>2, KeyLemma
  <2>4. AddFrom(b, w) = Append(b, i)
    BY <1>3 DEF AddFrom
  <2>5. i \in Item /\ KeyOf(i) = key /\ Fronts(Append(b, i))
    BY <2>2, <2>3, FrontLemma DEF MayAdd
  <2>6. i.wf = w
    BY <2>5, ItemLemma
  <2>7. SameBucket(i, Seed) /\ Fits(Append(b, i))
    BY <2>2 DEF MayAdd
  <2> HIDE DEF i, key
  <2>8. WithinLimits(Append(b, i))
    <3>1. b \in Seq(Item)
      BY DEF Fronts
    <3>2. \A n \in DOMAIN Append(b, i) :
            \/ Append(b, i)[n] = i
            \/ n \in DOMAIN b /\ Append(b, i)[n] = b[n]
      BY <3>1, <2>5
    <3> QED BY <3>2, <2>6, <2>7 DEF WithinLimits
  <2> QED BY <2>4, <2>5, <2>8
<1> QED BY <1>2, <1>3

\* The recursive function of RoundRobin exists, so RoundRobin is its last value.
LEMMA RoundRobinFunction ==
  ASSUME Turns \in Nat
  PROVE  \E f : /\ f[0] = <<>>
                /\ \A n \in 1 .. Turns : f[n] = AddFrom(f[n - 1], TurnOf(n))
                /\ RoundRobin = f[Turns]
<1> DEFINE After(x, n) == CHOOSE more \in {AddFrom(one, TurnOf(n)) : one \in {x}} : TRUE
           Fcn(g, k) == g = [n \in 0 .. k |-> IF n = 0 THEN <<>> ELSE After(g[n - 1], n)]
           Good == {k \in Nat : \E g : Fcn(g, k)}
<1>1. 0 \in Good
  <2>1. Fcn([n \in 0 .. 0 |-> <<>>], 0)
    OBVIOUS
  <2> QED BY <2>1
<1>2. ASSUME NEW k \in Nat, k \in Good PROVE k + 1 \in Good
  <2> HIDE DEF After
  <2>1. PICK g : Fcn(g, k)
    BY <1>2
  <2> DEFINE h == [n \in 0 .. k + 1 |-> IF n = k + 1 THEN After(g[k], k + 1) ELSE g[n]]
  <2>2. ASSUME NEW n \in 0 .. k + 1
        PROVE  h[n] = IF n = 0 THEN <<>> ELSE After(h[n - 1], n)
    BY <2>1
  <2>3. Fcn(h, k + 1)
    BY <2>2
  <2> HIDE DEF h, Fcn
  <2> QED BY <2>3
<1>3. Turns \in Good
  <2> HIDE DEF Good
  <2> QED BY <1>1, <1>2, SetInduction
<1>4. PICK f : Fcn(f, Turns) /\ f = CHOOSE g : Fcn(g, Turns)
  BY <1>3
<1>5. RoundRobin = f[Turns]
  BY <1>4 DEF RoundRobin
<1>6. f[0] = <<>> /\ \A n \in 1 .. Turns : f[n] = After(f[n - 1], n)
  <2> HIDE DEF After
  <2> QED BY <1>4
<1>7. \A x, n : After(x, n) = AddFrom(x, TurnOf(n))
  OBVIOUS
<1> HIDE DEF After
<1> QED BY <1>5, <1>6, <1>7

\* The eligible workflows are the first MaxActive of the order.
LEMMA EligibleLemma ==
  ASSUME QueuesOK, order # <<>>
  PROVE  /\ Eligible \in Seq(Workflow) /\ Len(Eligible) \in 1 .. MaxActive
         /\ Len(Eligible) <= Len(order)
         /\ \A n \in 1 .. Len(Eligible) : Eligible[n] = order[n]
         /\ Turns \in Nat \ {0}
         /\ \A n \in Nat \ {0} : TurnOf(n) \in Workflow /\ Contains(Eligible, TurnOf(n))
         /\ TurnOf(1) = order[1]
<1> DEFINE k == IF Len(order) < MaxActive THEN Len(order) ELSE MaxActive
<1>1. k \in 1 .. MaxActive /\ k <= Len(order) /\ k \in Nat \ {0}
  BY DispatcherAssumption DEF QueuesOK
<1>2. Eligible = SubSeq(order, 1, k)
  BY DEF Eligible
<1> HIDE DEF k
<1>3. Eligible \in Seq(Workflow) /\ Len(Eligible) = k /\ \A n \in 1 .. k : Eligible[n] = order[n]
  BY <1>1, <1>2 DEF QueuesOK
<1>4. Turns \in Nat \ {0}
  <2>1. TargetBatch \in Nat \ {0}
    BY DispatcherAssumption
  <2>2. \A x, y \in Nat \ {0} : x * y \in Nat \ {0}
    OBVIOUS
  <2> QED BY <1>1, <1>3, <2>1, <2>2 DEF Turns
<1>5. ASSUME NEW n \in Nat \ {0}
      PROVE  TurnOf(n) \in Workflow /\ Contains(Eligible, TurnOf(n))
  <2>1. n - 1 \in Nat
    OBVIOUS
  <2>2. ((n - 1) % k) \in 0 .. k - 1
    BY <1>1, <2>1
  <2>3. ((n - 1) % k) + 1 \in 1 .. k
    BY <1>1, <2>2
  <2> QED BY <1>3, <2>3 DEF TurnOf, Contains
<1>6. TurnOf(1) = order[1]
  <2>1. 0 % k = 0
    BY <1>1
  <2> QED BY <1>1, <1>3, <2>1 DEF TurnOf
<1> QED BY <1>1, <1>3, <1>4, <1>5, <1>6

\* Every workflow in the order has an attempt, and every attempt in a rotation
\* has a queue: there is something to plan.
RotationOK ==
  /\ \A w \in Workflow : Contains(order, w) => rotation[w] # <<>>
  /\ \A key \in Key : Contains(rotation[key[1]], key[2]) => queues[key] # <<>>

\* The seed is the item at the head of the queue of the first attempt of the
\* first workflow.
LEMMA SeedLemma ==
  ASSUME QueuesOK, RotationOK, order # <<>>
  PROVE  LET w == order[1]  key == <<w, rotation[w][1]>> IN
           /\ w \in Workflow /\ rotation[w] # <<>> /\ key \in Key
           /\ queues[key] # <<>> /\ Seed = Candidate(<<>>, key)
           /\ Seed \in Item /\ KeyOf(Seed) = key /\ Seed.seg = queues[key][1]
<1> DEFINE w == order[1]
           key == <<w, rotation[w][1]>>
<1>1. w \in Workflow /\ Contains(order, w)
  <2>1. 1 \in 1 .. Len(order)
    BY DEF QueuesOK
  <2> QED BY <2>1 DEF QueuesOK, Contains
<1>2. rotation[w] # <<>> /\ rotation[w] \in Seq(AttemptOf(w))
  BY <1>1 DEF RotationOK, QueuesOK
<1>3. rotation[w][1] \in AttemptOf(w) /\ Contains(rotation[w], rotation[w][1])
  <2>1. 1 \in 1 .. Len(rotation[w])
    BY <1>2
  <2> QED BY <1>2, <2>1 DEF Contains
<1>4. key \in Key /\ key[1] = w /\ key[2] = rotation[w][1]
  BY <1>1, <1>3, KeyLemma
<1>5. queues[key] # <<>> /\ queues[key] \in Seq(Segment)
  BY <1>3, <1>4 DEF RotationOK, QueuesOK
<1>6. Offset(<<>>, key) = 0
  BY FS_EmptySet DEF Offset
<1>7. queues[key][1] \in Segment
  BY <1>5
<1>8. Seed = ItemOf(key, queues[key][1])
  BY DEF Seed
<1>9. Seed = Candidate(<<>>, key)
  BY <1>6, <1>8 DEF Candidate
<1>10. Seed \in Item /\ KeyOf(Seed) = key /\ Seed.seg = queues[key][1]
  <2> HIDE DEF key
  <2> QED BY <1>4, <1>7, <1>8, ItemLemma
<1> QED BY <1>1, <1>2, <1>4, <1>5, <1>9, <1>10

\* One item alone fits unless it is over a budget.
LEMMA OneFits ==
  ASSUME NEW i \in Item, ~OverBudget(i)
  PROVE  Fits(<<i>>)
<1>1. Length(i) \in Nat
  <2>1. i.wf \in Workflow /\ i.seg \in Segment
    BY ItemLemma, KeyLemma
  <2> QED BY <2>1, DispatcherAssumption DEF Length
<1>2. <<i>> \in Seq(Item) /\ Len(<<i>>) = 1 /\ <<i>>[1] = i /\ DOMAIN <<i>> = {1}
  OBVIOUS
<1>3. SumOf(<<i>>) = Length(i)
  <2> DEFINE Fcn(g) == g = [n \in 0 .. Len(<<i>>) |-> IF n = 0 THEN 0 ELSE g[n - 1] + Length(<<i>>[n])]
             one == [n \in 0 .. Len(<<i>>) |-> IF n = 0 THEN 0 ELSE Length(i)]
  <2>1. Fcn(one)
    <3>1. \A n \in 0 .. 1 : n = 0 \/ n = 1
      OBVIOUS
    <3>2. \A n \in 0 .. 1 : one[n] = IF n = 0 THEN 0 ELSE one[n - 1] + Length(<<i>>[n])
      BY <1>1, <1>2, <3>1
    <3> QED BY <1>2, <3>2
  <2>2. PICK g : Fcn(g) /\ g = CHOOSE h : Fcn(h)
    BY <2>1
  <2>3. SumOf(<<i>>) = g[Len(<<i>>)]
    BY <2>2 DEF SumOf
  <2>4. g[0] = 0 /\ g[1] = g[0] + Length(i)
    BY <1>2, <2>2
  <2> QED BY <1>1, <1>2, <2>3, <2>4
<1>4. LongestOf(<<i>>) = Length(i)
  <2>1. {Length(<<i>>[n]) : n \in DOMAIN <<i>>} = {Length(i)}
    BY <1>2
  <2>2. \A n \in DOMAIN <<i>> : Length(<<i>>[n]) <= Length(i)
    BY <1>1, <1>2
  <2> QED BY <2>1, <2>2 DEF LongestOf
<1>5. Length(i) <= MaxTotal /\ Length(i) * 1 <= MaxProduct /\ 1 <= TargetBatch
  BY <1>1, DispatcherAssumption DEF OverBudget
<1> QED BY <1>2, <1>3, <1>4, <1>5 DEF Fits

\* The first turn takes the seed.
LEMMA FirstTurn ==
  ASSUME QueuesOK, RotationOK, order # <<>>, ~OverBudget(Seed)
  PROVE  AddFrom(<<>>, order[1]) = <<Seed>>
<1> DEFINE w == order[1]
           key == <<w, rotation[w][1]>>
           may == {a \in AttemptOf(w) : MayAdd(<<>>, <<w, a>>)}
<1>1. /\ w \in Workflow /\ rotation[w] # <<>> /\ key \in Key
      /\ queues[key] # <<>> /\ Seed = Candidate(<<>>, key) /\ Seed \in Item
  BY SeedLemma
<1>2. Append(<<>>, Seed) = <<Seed>>
  BY <1>1
<1>3. MayAdd(<<>>, key)
  <2>1. Offset(<<>>, key) = 0
    BY FS_EmptySet DEF Offset
  <2>2. Len(queues[key]) > 0
    BY <1>1 DEF QueuesOK
  <2>3. SameBucket(Seed, Seed)
    BY DEF SameBucket
  <2>4. Fits(<<Seed>>)
    BY <1>1, OneFits
  <2> QED BY <1>1, <1>2, <2>1, <2>2, <2>3, <2>4 DEF MayAdd
<1>4. rotation[w][1] \in may
  BY <1>1, <1>3, KeyLemma
<1>5. rotation[w] \in Seq(AttemptOf(w))
  BY <1>1 DEF QueuesOK
<1>6. Only(rotation[w], may) # <<>> /\ Only(rotation[w], may)[1] = rotation[w][1]
  BY <1>1, <1>4, <1>5, OnlyLemma
<1>7. AddFrom(<<>>, w) = Append(<<>>, Candidate(<<>>, key))
  BY <1>6 DEF AddFrom
<1> QED BY <1>1, <1>2, <1>7

\* What the rounds put together is a front of the queues, within the limits,
\* and starts with the seed.
LEMMA RoundRobinLemma ==
  ASSUME QueuesOK, RotationOK, order # <<>>, ~OverBudget(Seed)
  PROVE  /\ Fronts(RoundRobin) /\ WithinLimits(RoundRobin)
         /\ RoundRobin # <<>> /\ RoundRobin[1] = Seed
<1>1. Turns \in Nat \ {0}
  BY EligibleLemma
<1>2. PICK f : /\ f[0] = <<>>
               /\ \A n \in 1 .. Turns : f[n] = AddFrom(f[n - 1], TurnOf(n))
               /\ RoundRobin = f[Turns]
  BY <1>1, RoundRobinFunction
<1> DEFINE Planned(b, n) == /\ Fronts(b) /\ WithinLimits(b)
                            /\ n > 0 => b # <<>> /\ b[1] = Seed
           Good == {n \in Nat : n <= Turns => Planned(f[n], n)}
<1>3. 0 \in Good
  <2>1. Fronts(<<>>)
    <3>1. \A key : Offset(<<>>, key) = 0
      BY FS_EmptySet DEF Offset
    <3> QED BY <3>1 DEF Fronts, NoDuplicates, QueuesOK
  <2>2. WithinLimits(<<>>)
    BY DEF WithinLimits
  <2> QED BY <1>2, <2>1, <2>2
<1>4. ASSUME NEW n \in Nat, n \in Good PROVE n + 1 \in Good
  <2> SUFFICES ASSUME n + 1 <= Turns PROVE Planned(f[n + 1], n + 1)
    OBVIOUS
  <2> DEFINE b == f[n]
             w == TurnOf(n + 1)
  <2>1. Planned(b, n)
    BY <1>1, <1>4
  <2>2. n + 1 \in 1 .. Turns /\ (n + 1) - 1 = n /\ n + 1 \in Nat \ {0}
    BY <1>1
  <2>3. f[n + 1] = AddFrom(b, w)
    BY <1>2, <2>2
  <2>4. w \in Workflow /\ Contains(Eligible, w)
    BY <2>2, EligibleLemma
  <2>5. Fronts(AddFrom(b, w)) /\ WithinLimits(AddFrom(b, w))
    BY <2>1, <2>4, TurnLemma
  <2>6. AddFrom(b, w) # <<>> /\ AddFrom(b, w)[1] = Seed
    <3>1. CASE n = 0
      <4>1. w = order[1] /\ b = <<>>
        BY <3>1, <1>2, EligibleLemma
      <4>2. AddFrom(b, w) = <<Seed>>
        BY <4>1, FirstTurn
      <4> QED BY <4>2
    <3>2. CASE n > 0
      <4>1. b \in Seq(Item) /\ b # <<>> /\ b[1] = Seed
        BY <2>1, <3>2 DEF Fronts
      <4>2. AddFrom(b, w) = b \/ \E i : AddFrom(b, w) = Append(b, i)
        BY DEF AddFrom
      <4>3. \A i : Append(b, i) # <<>> /\ Append(b, i)[1] = b[1]
        <5> TAKE i
        <5>1. b \in Seq(Item \cup {i}) /\ Len(b) > 0
          BY <4>1
        <5> HIDE DEF b
        <5> QED BY <5>1
      <4> QED BY <4>1, <4>2, <4>3
    <3> QED BY <3>1, <3>2
  <2> QED BY <2>3, <2>5, <2>6
<1>5. Turns \in Good
  <2> HIDE DEF Good
  <2> QED BY <1>1, <1>3, <1>4, SetInduction
<1> QED BY <1>1, <1>2, <1>5

\* A plan is never empty: it starts with the head of the first queue.  It is a
\* front of the queues and keeps the limits.
LEMMA PlanLemma ==
  ASSUME QueuesOK, RotationOK, order # <<>>
  PROVE  /\ Fronts(Plan) /\ KeepsLimits(Plan)
         /\ Plan # <<>> /\ Plan[1] = Seed
<1> DEFINE w == order[1]
           key == <<w, rotation[w][1]>>
<1>1. /\ key \in Key /\ queues[key] # <<>> /\ queues[key] \in Seq(Segment)
      /\ Seed \in Item /\ KeyOf(Seed) = key /\ Seed.seg = queues[key][1]
  BY SeedLemma DEF QueuesOK
<1> HIDE DEF key
<1>2. CASE OverBudget(Seed)
  <2> DEFINE b == <<Seed>>
  <2>1. b \in Seq(Item) /\ Len(b) = 1 /\ DOMAIN b = {1} /\ b[1] = Seed
    BY <1>1
  <2>2. \A k : Offset(b, k) = IF k = key THEN 1 ELSE 0
    <3> TAKE k
    <3>1. {n \in DOMAIN b : KeyOf(b[n]) = k} = IF k = key THEN {1} ELSE {}
      BY <1>1, <2>1
    <3> QED BY <3>1, FS_EmptySet, FS_Singleton DEF Offset
  <2>3. Seed = ItemOf(key, queues[key][1])
    BY <1>1, ItemLemma
  <2>4. Fronts(b)
    <3>1. \A k \in Key : Offset(b, k) <= Len(queues[k])
      <4>1. Len(queues[key]) >= 1
        BY <1>1
      <4>2. \A k \in Key : Len(queues[k]) >= 0
        BY DEF QueuesOK
      <4> HIDE DEF b
      <4> QED BY <2>2, <4>1, <4>2
    <3>2. \A n \in DOMAIN b : \E m \in 1 .. Offset(b, KeyOf(b[n])) : b[n].seg = queues[KeyOf(b[n])][m]
      BY <1>1, <2>1, <2>2
    <3>3. \A k \in Key : \A m \in 1 .. Offset(b, k) : \E n \in DOMAIN b : b[n] = ItemOf(k, queues[k][m])
      BY <2>1, <2>2, <2>3
    <3> HIDE DEF b
    <3> QED BY <2>1, <3>1, <3>2, <3>3 DEF Fronts, NoDuplicates
  <2>5. KeepsLimits(b)
    <3>1. {i.wf : i \in ToSet(b)} = {Seed.wf}
      BY <2>1 DEF ToSet
    <3>2. Cardinality({Seed.wf}) = 1
      BY FS_Singleton
    <3>3. TargetBatch >= 1 /\ MaxActive >= 1
      BY DispatcherAssumption
    <3> HIDE DEF b
    <3>4. Cardinality({i.wf : i \in ToSet(b)}) <= MaxActive
      BY <3>1, <3>2, <3>3
    <3> QED BY <2>1, <3>3, <3>4 DEF KeepsLimits
  <2>6. Plan = b
    BY <1>2 DEF Plan
  <2> HIDE DEF b
  <2>7. b # <<>>
    BY <2>1
  <2> QED BY <2>1, <2>4, <2>5, <2>6, <2>7
<1>3. CASE ~OverBudget(Seed)
  <2> DEFINE b == RoundRobin
  <2>1. Fronts(b) /\ WithinLimits(b) /\ b # <<>> /\ b[1] = Seed
    BY <1>3, RoundRobinLemma
  <2>2. Plan = b
    BY <1>3 DEF Plan
  <2> HIDE DEF b
  <2>3. Fits(b) /\ b \in Seq(Item)
    BY <2>1 DEF WithinLimits, Fronts
  <2>4. \A m, n \in DOMAIN b : SameBucket(b[m], b[n])
    BY <2>1 DEF WithinLimits, SameBucket
  <2>5. Cardinality({i.wf : i \in ToSet(b)}) <= MaxActive
    <3> DEFINE k == Len(Eligible)
               all == {Eligible[n] : n \in 1 .. k}
               nth == [n \in 1 .. k |-> Eligible[n]]
    <3>1. k \in 1 .. MaxActive /\ k \in Int
      BY EligibleLemma
    <3>2. IsFiniteSet(1 .. k) /\ Cardinality(1 .. k) = k
      BY <3>1, FS_Interval
    <3>3. nth \in Surjection(1 .. k, all)
      BY DEF Surjection
    <3>4. IsFiniteSet(all) /\ Cardinality(all) <= k /\ Cardinality(all) \in Nat
      BY <3>2, <3>3, FS_Surjection, FS_CardinalityType
    <3>5. {i.wf : i \in ToSet(b)} \subseteq all
      BY <2>1 DEF WithinLimits, ToSet, Contains
    <3> HIDE DEF k, all
    <3>6. /\ Cardinality({i.wf : i \in ToSet(b)}) <= Cardinality(all)
          /\ Cardinality({i.wf : i \in ToSet(b)}) \in Nat
      BY <3>4, <3>5, FS_Subset, FS_CardinalityType
    <3> QED BY <3>1, <3>4, <3>6, DispatcherAssumption
  <2> QED BY <2>1, <2>2, <2>3, <2>4, <2>5 DEF KeepsLimits, Fits
<1> QED BY <1>2, <1>3

-----------------------------------------------------------------------------
(* The invariant.                                                          *)

\* What the thread is doing: only a thread that runs a batch has one in
\* flight, only a closing dispatcher ends its thread, and a closing one has no
\* queue.
ThreadOK ==
  /\ thread # "processing" => inflight = <<>>
  /\ thread \in {"exiting", "closed"} => closing
  /\ closing => Waiting = {}

\* An item that was cancelled before it was answered is in the running batch,
\* and will be discarded: it is marked, or the dispatcher closes.
DoomedOK ==
  /\ doomed \subseteq Inflight
  /\ \A i \in doomed : i \in marked \/ closing

\* A batch that runs is not empty.
BatchNotEmpty == thread = "processing" => inflight # <<>>

IInv ==
  /\ TypeOK
  /\ FuturesAccounted
  /\ RotationFindsWork
  /\ BatchWithinLimits
  /\ ThreadOK
  /\ DoomedOK
  /\ BatchNotEmpty

-----------------------------------------------------------------------------
(* What the operations on sequences do to membership and duplicates.       *)

LEMMA AppendLemma ==
  ASSUME NEW T, NEW s \in Seq(T), NEW x \in T
  PROVE  /\ Append(s, x) \in Seq(T) /\ Append(s, x) # <<>>
         /\ \A y : Contains(Append(s, x), y) <=> Contains(s, y) \/ y = x
         /\ NoDuplicates(s) /\ ~Contains(s, x) => NoDuplicates(Append(s, x))
<1>1. Append(s, x) \in Seq(T) /\ Len(Append(s, x)) = Len(s) + 1 /\ Len(s) \in Nat
  OBVIOUS
<1>2. \A n \in 1 .. Len(s) + 1 : Append(s, x)[n] = IF n = Len(s) + 1 THEN x ELSE s[n]
  OBVIOUS
<1>3. DOMAIN s = 1 .. Len(s) /\ DOMAIN Append(s, x) = 1 .. Len(s) + 1
  BY <1>1
<1>4. Append(s, x) # <<>>
  BY <1>1
<1> QED BY <1>1, <1>2, <1>3, <1>4 DEF Contains, NoDuplicates

LEMMA ConcatLemma ==
  ASSUME NEW T, NEW s \in Seq(T), NEW t \in Seq(T)
  PROVE  /\ s \o t \in Seq(T)
         /\ \A y : Contains(s \o t, y) <=> Contains(s, y) \/ Contains(t, y)
         /\ NoDuplicates(s) /\ NoDuplicates(t) /\ (\A y : ~(Contains(s, y) /\ Contains(t, y)))
              => NoDuplicates(s \o t)
<1>1. s \o t \in Seq(T) /\ Len(s \o t) = Len(s) + Len(t) /\ Len(s) \in Nat /\ Len(t) \in Nat
  OBVIOUS
<1>2. \A n \in 1 .. Len(s) + Len(t) : (s \o t)[n] = IF n <= Len(s) THEN s[n] ELSE t[n - Len(s)]
  OBVIOUS
<1>3. DOMAIN s = 1 .. Len(s) /\ DOMAIN t = 1 .. Len(t) /\ DOMAIN (s \o t) = 1 .. Len(s) + Len(t)
  BY <1>1
<1> DEFINE u == s \o t
           k == Len(s)
           l == Len(t)
<1> HIDE DEF u, k, l
<1>4. \A n \in 1 .. k : n \in 1 .. k + l /\ u[n] = s[n]
  BY <1>1, <1>2 DEF u, k, l
<1>5. \A n \in 1 .. l : k + n \in 1 .. k + l /\ u[k + n] = t[n]
  BY <1>1, <1>2 DEF u, k, l
<1>6. \A n \in 1 .. k + l : n \in 1 .. k \/ \E m \in 1 .. l : n = k + m
  <2> TAKE n \in 1 .. k + l
  <2>1. n \in 1 .. k \/ (n - k \in 1 .. l /\ n = k + (n - k))
    BY <1>1 DEF k, l
  <2> QED BY <2>1
<1>7. \A y : Contains(u, y) <=> Contains(s, y) \/ Contains(t, y)
  <2>1. \A y : Contains(u, y) <=> \E n \in 1 .. k + l : u[n] = y
    BY <1>1 DEF u, k, l, Contains
  <2>2. \A y : Contains(s, y) <=> \E n \in 1 .. k : s[n] = y
    BY DEF k, Contains
  <2>3. \A y : Contains(t, y) <=> \E n \in 1 .. l : t[n] = y
    BY DEF l, Contains
  <2> QED BY <1>4, <1>5, <1>6, <2>1, <2>2, <2>3
<1>8. ASSUME NoDuplicates(s), NoDuplicates(t), \A y : ~(Contains(s, y) /\ Contains(t, y))
      PROVE  NoDuplicates(u)
  <2> SUFFICES ASSUME NEW m \in 1 .. k + l, NEW n \in 1 .. k + l, u[m] = u[n] PROVE m = n
    BY <1>3 DEF NoDuplicates, u, k, l
  <2>1. CASE m \in 1 .. k /\ n \in 1 .. k
    BY <2>1, <1>3, <1>4, <1>8 DEF NoDuplicates, k
  <2>2. CASE m \in 1 .. k /\ n \notin 1 .. k
    <3>1. Contains(s, u[m])
      BY <2>2, <1>4 DEF Contains, k
    <3>2. Contains(t, u[n])
      BY <2>2, <1>5, <1>6 DEF Contains, l
    <3> QED BY <3>1, <3>2, <1>8
  <2>3. CASE m \notin 1 .. k /\ n \in 1 .. k
    BY <2>3, <1>4, <1>5, <1>6, <1>8, ZenonT(30) DEF Contains, k, l
  <2>4. CASE m \notin 1 .. k /\ n \notin 1 .. k
    BY <2>4, <1>3, <1>5, <1>6, <1>8 DEF NoDuplicates, l
  <2> QED BY <2>1, <2>2, <2>3, <2>4
<1> QED BY <1>1, <1>7, <1>8 DEF u

\* What is left of a sequence after its first k elements.
LEMMA RestLemma ==
  ASSUME NEW T, NEW s \in Seq(T), NEW k \in Nat, k <= Len(s)
  PROVE  LET r == SubSeq(s, k + 1, Len(s)) IN
           /\ r \in Seq(T)
           /\ \A y : Contains(r, y) <=> \E n \in k + 1 .. Len(s) : s[n] = y
           /\ NoDuplicates(s) => NoDuplicates(r)
<1> DEFINE r == SubSeq(s, k + 1, Len(s))
           l == Len(s) - k
<1>1. Len(s) \in Nat /\ l \in Nat /\ Len(s) = k + l
  OBVIOUS
<1>2. r \in Seq(T) /\ Len(r) = l /\ DOMAIN r = 1 .. l
  OBVIOUS
<1>3. \A n \in 1 .. l : r[n] = s[k + n]
  OBVIOUS
<1> HIDE DEF r, l
<1>4. \A n \in 1 .. l : k + n \in k + 1 .. k + l
  BY <1>1
<1>5. \A n \in k + 1 .. k + l : n - k \in 1 .. l /\ k + (n - k) = n
  BY <1>1
<1>6. \A y : Contains(r, y) <=> \E n \in k + 1 .. k + l : s[n] = y
  BY <1>2, <1>3, <1>4, <1>5, ZenonT(30) DEF Contains
<1>7. NoDuplicates(s) => NoDuplicates(r)
  <2>1. \A m, n \in 1 .. l : k + m \in DOMAIN s /\ k + n \in DOMAIN s /\ (k + m = k + n => m = n)
    BY <1>1
  <2> QED BY <1>2, <1>3, <2>1 DEF NoDuplicates
<1> QED BY <1>1, <1>2, <1>6, <1>7 DEF r

\* A rotated sequence has the same elements.
LEMMA RotatedLemma ==
  ASSUME NEW T, NEW s \in Seq(T)
  PROVE  /\ Rotated(s) \in Seq(T)
         /\ \A y : Contains(Rotated(s), y) <=> Contains(s, y)
         /\ NoDuplicates(s) => NoDuplicates(Rotated(s))
<1>1. CASE s = <<>>
  BY <1>1 DEF Rotated
<1>2. CASE s # <<>>
  <2> DEFINE r == SubSeq(s, 1 + 1, Len(s))
  <2>1. Len(s) \in Nat /\ 1 <= Len(s) /\ s[1] \in T /\ Head(s) = s[1] /\ Tail(s) = r
    BY <1>2
  <2>2. /\ r \in Seq(T)
        /\ \A y : Contains(r, y) <=> \E n \in 1 + 1 .. Len(s) : s[n] = y
        /\ NoDuplicates(s) => NoDuplicates(r)
    BY <2>1, RestLemma
  <2>3. Rotated(s) = Append(r, s[1])
    BY <1>2, <2>1 DEF Rotated
  <2> HIDE DEF r
  <2>4. \A n \in 1 .. Len(s) : n = 1 \/ n \in 1 + 1 .. Len(s)
    BY <2>1
  <2>5. 1 \in 1 .. Len(s) /\ \A n \in 1 + 1 .. Len(s) : n \in 1 .. Len(s) /\ n # 1
    BY <2>1
  <2>6. \A y : Contains(s, y) <=> Contains(r, y) \/ y = s[1]
    BY <2>2, <2>4, <2>5 DEF Contains
  <2>7. NoDuplicates(s) => ~Contains(r, s[1])
    BY <2>2, <2>5 DEF NoDuplicates
  <2> QED BY <2>1, <2>2, <2>3, <2>6, <2>7, AppendLemma
<1> QED BY <1>1, <1>2

\* A chunk holds segments, none twice.
LEMMA ChunkLemma ==
  ASSUME NEW chunk \in Chunks
  PROVE  chunk \in Seq(Segment) /\ chunk # <<>> /\ NoDuplicates(chunk)
<1>1. PICK lo \in Segment, hi \in Segment : hi - lo \in 0 .. ChunkSize - 1 /\ chunk = Consecutive(lo, hi)
  BY DEF Chunks
<1>2. Segments \in Nat /\ lo \in 1 .. Segments /\ hi \in 1 .. Segments /\ lo <= hi
  <2>1. hi - lo >= 0 /\ lo \in Int /\ hi \in Int
    BY <1>1, DispatcherAssumption DEF Segment
  <2> QED BY <2>1, DispatcherAssumption DEF Segment
<1> DEFINE k == hi - lo + 1
<1>3. k \in Nat /\ k >= 1 /\ \A n \in 1 .. k : lo + n - 1 \in 1 .. Segments
  BY <1>2
<1>4. chunk = [n \in 1 .. k |-> lo + n - 1]
  BY <1>1 DEF Consecutive
<1>5. chunk \in [1 .. k -> Segment]
  BY <1>3, <1>4 DEF Segment
<1>6. chunk \in Seq(Segment) /\ DOMAIN chunk = 1 .. k
  BY <1>3, <1>5, IsASeq
<1>7. chunk # <<>>
  BY <1>3, <1>6
<1>8. NoDuplicates(chunk)
  BY <1>2, <1>3, <1>4 DEF NoDuplicates
<1> QED BY <1>6, <1>7, <1>8

-----------------------------------------------------------------------------
(* What the parts of a step do.                                            *)

\* The futures that wait.
Pendings == {i \in Item : seen[i] = "pending"}

\* How the items that are queued relate to the queues.
QueuedFacts ==
  /\ Queued \subseteq Item
  /\ \A key \in Key, seg \in Segment :
       ItemOf(key, seg) \in Queued <=> Contains(queues[key], seg)
  /\ \A i \in Item : i \in Queued <=> Contains(queues[KeyOf(i)], i.seg)
  /\ \A key \in Key : ItemsOf(key) = {i \in Queued : KeyOf(i) = key}
  /\ \A key \in Key : queues[key] = <<>> <=> ~\E i \in Queued : KeyOf(i) = key

LEMMA QueuedLemma == queues \in [Key -> Seq(Segment)] => QueuedFacts
<1> SUFFICES ASSUME queues \in [Key -> Seq(Segment)] PROVE QueuedFacts
  OBVIOUS
<1>1. \A i \in Item : i \in Queued <=> Contains(queues[KeyOf(i)], i.seg)
  BY DEF Queued
<1>2. \A key \in Key, seg \in Segment : ItemOf(key, seg) \in Queued <=> Contains(queues[key], seg)
  BY <1>1, ItemLemma
<1>3. ASSUME NEW key \in Key
      PROVE  ItemsOf(key) = {i \in Queued : KeyOf(i) = key}
  <2> DEFINE q == queues[key]
  <2>1. q \in Seq(Segment) /\ DOMAIN q = 1 .. Len(q) /\ \A n \in DOMAIN q : q[n] \in Segment
    OBVIOUS
  <2>2. ItemsOf(key) = {ItemOf(key, q[n]) : n \in DOMAIN q}
    BY DEF ItemsOf
  <2> HIDE DEF q
  <2>3. ASSUME NEW n \in DOMAIN q PROVE ItemOf(key, q[n]) \in {i \in Queued : KeyOf(i) = key}
    <3>1. Contains(q, q[n])
      BY <2>1 DEF Contains
    <3> QED BY <2>1, <3>1, <1>2, ItemLemma DEF q
  <2>4. ASSUME NEW i \in Queued, KeyOf(i) = key PROVE i \in {ItemOf(key, q[n]) : n \in DOMAIN q}
    <3>1. i \in Item /\ Contains(q, i.seg)
      BY <2>4, <1>1 DEF q, Queued
    <3>2. PICK n \in DOMAIN q : q[n] = i.seg
      BY <2>1, <3>1 DEF Contains
    <3>3. i = ItemOf(key, i.seg)
      BY <2>4, <3>1, ItemLemma
    <3> QED BY <3>2, <3>3
  <2> QED BY <2>2, <2>3, <2>4
<1>4. ASSUME NEW key \in Key
      PROVE  queues[key] = <<>> <=> ItemsOf(key) = {}
  <2>1. queues[key] = <<>> <=> Len(queues[key]) = 0
    OBVIOUS
  <2>2. Len(queues[key]) \in Nat /\ DOMAIN queues[key] = 1 .. Len(queues[key])
    OBVIOUS
  <2>3. Len(queues[key]) # 0 => 1 \in DOMAIN queues[key]
    BY <2>2
  <2> QED BY <2>1, <2>2, <2>3 DEF ItemsOf
<1>5. Queued \subseteq Item
  BY DEF Queued
<1>6. \A key \in Key : queues[key] = <<>> <=> ~\E i \in Queued : KeyOf(i) = key
  BY <1>3, <1>4
<1> QED BY <1>1, <1>2, <1>3, <1>5, <1>6 DEF QueuedFacts

LEMMA QueuedNext == (queues \in [Key -> Seq(Segment)])' => QueuedFacts'
BY QueuedLemma, PTL

\* Whoever gets an answer no longer waits, and nobody else is touched.
LEMMA ResolveLemma ==
  ASSUME futures \subseteq Item, futures = Pendings, seen \in [Item -> Known], doomed \subseteq Item,
         NEW outcome, DOMAIN outcome \subseteq futures,
         \A i \in DOMAIN outcome : outcome[i] \in Known \ {"pending"},
         NEW newly, newly \subseteq futures, Resolve(outcome, newly)
  PROVE  /\ futures' = futures \ DOMAIN outcome
         /\ futures' \subseteq Item /\ futures' = Pendings'
         /\ seen' \in [Item -> Known]
         /\ \A i \in Item : seen'[i] = IF i \in DOMAIN outcome THEN outcome[i] ELSE seen[i]
         /\ doomed' = (doomed \cup newly) \ DOMAIN outcome
         /\ doomed' \subseteq Item
<1>1. seen' = [i \in Item |-> IF i \in DOMAIN outcome THEN outcome[i] ELSE seen[i]]
  BY DEF Resolve
<1>2. futures' = futures \ DOMAIN outcome /\ doomed' = (doomed \cup newly) \ DOMAIN outcome
  BY DEF Resolve
<1>3. seen' \in [Item -> Known]
  BY <1>1
<1>4. \A i \in Item : i \in futures' <=> seen'[i] = "pending"
  BY <1>1, <1>2 DEF Pendings
<1> QED BY <1>1, <1>2, <1>3, <1>4 DEF Pendings

\* The rotations and the order agree.
RotationShape ==
  /\ rotation \in [Workflow -> Seq(Nat)] /\ \A w \in Workflow : rotation[w] \in Seq(AttemptOf(w))
  /\ order \in Seq(Workflow)
  /\ NoDuplicates(order) /\ \A w \in Workflow : NoDuplicates(rotation[w])
  /\ \A w \in Workflow : Contains(order, w) <=> rotation[w] # <<>>

\* A sequence that is not empty contains something.
LEMMA ContainsLemma ==
  ASSUME NEW T, NEW s \in Seq(T)
  PROVE  /\ s # <<>> <=> \E x \in T : Contains(s, x)
         /\ \A x : Contains(s, x) => x \in T
<1>1. Len(s) \in Nat /\ \A n \in 1 .. Len(s) : s[n] \in T
  OBVIOUS
<1>2. s # <<>> => 1 \in 1 .. Len(s)
  OBVIOUS
<1>3. s = <<>> => Len(s) = 0
  OBVIOUS
<1> QED BY <1>1, <1>2, <1>3 DEF Contains

\* The rotations that are left of a workflow order are pruned from it.
LEMMA PrunedLemma ==
  ASSUME RotationShape, NEW left, \A w \in Workflow : left[w] # <<>> => rotation[w] # <<>>
  PROVE  /\ Pruned(order, left) \in Seq(Workflow)
         /\ NoDuplicates(Pruned(order, left))
         /\ \A w \in Workflow : Contains(Pruned(order, left), w) <=> left[w] # <<>>
<1> DEFINE kept == {w \in Workflow : left[w] # <<>>}
<1>1. order \in Seq(Workflow) /\ NoDuplicates(order)
  BY DEF RotationShape
<1>2. /\ Only(order, kept) \in Seq(Workflow)
      /\ NoDuplicates(Only(order, kept))
      /\ \A w : Contains(Only(order, kept), w) <=> Contains(order, w) /\ w \in kept
  BY <1>1, OnlyLemma
<1>3. Pruned(order, left) = Only(order, kept)
  BY DEF Pruned
<1> QED BY <1>2, <1>3 DEF RotationShape

\* Attempts that are dropped leave the rotations, nothing else does.
LEMMA DropLemma ==
  ASSUME RotationShape, NEW keys, DropAttempts(keys)
  PROVE  /\ RotationShape'
         /\ \A w \in Workflow : \A a \in AttemptOf(w) :
              Contains(rotation'[w], a) <=> Contains(rotation[w], a) /\ <<w, a>> \notin keys
<1>1. ASSUME NEW w \in Workflow
      PROVE  /\ rotation'[w] \in Seq(AttemptOf(w)) /\ NoDuplicates(rotation'[w])
             /\ \A a \in AttemptOf(w) :
                  Contains(rotation'[w], a) <=> Contains(rotation[w], a) /\ <<w, a>> \notin keys
             /\ rotation'[w] # <<>> => rotation[w] # <<>>
  <2> DEFINE kept == {a \in AttemptOf(w) : <<w, a>> \notin keys}
  <2>1. rotation'[w] = Only(rotation[w], kept)
    BY DEF DropAttempts
  <2>2. rotation[w] \in Seq(AttemptOf(w)) /\ NoDuplicates(rotation[w])
    BY DEF RotationShape
  <2>3. /\ Only(rotation[w], kept) \in Seq(AttemptOf(w)) /\ NoDuplicates(Only(rotation[w], kept))
        /\ \A a : Contains(Only(rotation[w], kept), a) <=> Contains(rotation[w], a) /\ a \in kept
    BY <2>2, OnlyLemma
  <2>4. rotation'[w] # <<>> => rotation[w] # <<>>
    BY <2>1, <2>2, <2>3, ContainsLemma
  <2> QED BY <2>1, <2>3, <2>4
<1>2. \A w \in Workflow : AttemptOf(w) \subseteq Nat
  BY DEF AttemptOf
<1>3. rotation' \in [Workflow -> Seq(Nat)]
  <2>1. \A w \in Workflow : rotation'[w] \in Seq(Nat)
    BY <1>1, <1>2, SeqMonotonic
  <2>2. rotation' = [w \in Workflow |-> rotation'[w]]
    BY DEF DropAttempts
  <2> QED BY <2>1, <2>2
<1>4. order' = Pruned(order, rotation')
  BY DEF DropAttempts
<1>5. /\ order' \in Seq(Workflow) /\ NoDuplicates(order')
      /\ \A w \in Workflow : Contains(order', w) <=> rotation'[w] # <<>>
  BY <1>1, <1>4, PrunedLemma
<1>6. RotationShape'
  BY <1>1, <1>3, <1>5 DEF RotationShape, NoDuplicates, Contains
<1> QED BY <1>1, <1>6

\* A key is remembered last; the oldest may be forgotten for it.
LEMMA RememberLemma ==
  ASSUME tombstones \in Seq(Key), Len(tombstones) <= MaxTombstones, NEW key \in Key
  PROVE  /\ Remember(key) \in Seq(Key) /\ Len(Remember(key)) <= MaxTombstones
         /\ \A k : Contains(Remember(key), k) => Contains(tombstones, k) \/ k = key
<1> DEFINE longer == Append(tombstones, key)
           rest == SubSeq(longer, 1 + 1, Len(longer))
<1>1. MaxTombstones \in Nat /\ MaxTombstones >= 1 /\ Len(tombstones) \in Nat
  BY DispatcherAssumption
<1>2. longer \in Seq(Key) /\ Len(longer) = Len(tombstones) + 1 /\ longer # <<>>
  BY AppendLemma
<1>3. \A k : Contains(longer, k) <=> Contains(tombstones, k) \/ k = key
  BY AppendLemma
<1> HIDE DEF longer
<1>4. Tail(longer) = rest
  BY <1>2
<1>5. rest \in Seq(Key) /\ \A k : Contains(rest, k) <=> \E n \in 1 + 1 .. Len(longer) : longer[n] = k
  BY <1>1, <1>2, RestLemma
<1>6. Len(Tail(longer)) = Len(longer) - 1
  BY <1>2
<1>7. \A k : Contains(rest, k) => Contains(longer, k)
  <2>1. \A n \in 1 + 1 .. Len(longer) : n \in 1 .. Len(longer)
    BY <1>1, <1>2
  <2> QED BY <1>5, <2>1 DEF Contains
<1> HIDE DEF rest
<1>8. Remember(key) = IF Contains(tombstones, key) THEN tombstones
                      ELSE IF Len(longer) > MaxTombstones THEN rest ELSE longer
  BY <1>4 DEF Remember, longer
<1>9. CASE Contains(tombstones, key)
  BY <1>8, <1>9
<1>10. CASE ~Contains(tombstones, key) /\ Len(longer) > MaxTombstones
  <2>1. Remember(key) = rest
    BY <1>8, <1>10
  <2> QED BY <2>1, <1>1, <1>2, <1>3, <1>4, <1>5, <1>6, <1>7
<1>11. CASE ~Contains(tombstones, key) /\ ~(Len(longer) > MaxTombstones)
  <2>1. Remember(key) = longer
    BY <1>8, <1>11
  <2> QED BY <2>1, <1>1, <1>2, <1>3, <1>11
<1> QED BY <1>9, <1>10, <1>11

\* Keys that are remembered together also fit the table.
LEMMA RememberAllLemma ==
  ASSUME tombstones \in Seq(Key), NEW keys \in SUBSET Key, NEW result \in RememberAll(keys)
  PROVE  result \in Seq(Key) /\ Len(result) <= MaxTombstones
<1>1. Cardinality(keys) \in Nat
  BY FiniteKeys, FS_Subset, FS_CardinalityType
<1>2. PICK s \in SetToSeqs(keys) :
        result = IF Len(tombstones \o s) > MaxTombstones
                   THEN SubSeq(tombstones \o s, Len(tombstones \o s) - MaxTombstones + 1, Len(tombstones \o s))
                   ELSE tombstones \o s
  BY DEF RememberAll
<1>3. s \in [1 .. Cardinality(keys) -> Key]
  BY DEF SetToSeqs
<1>4. s \in Seq(Key)
  BY <1>1, <1>3, IsASeq
<1> DEFINE all == tombstones \o s
           start == Len(all) - MaxTombstones
<1>5. all \in Seq(Key) /\ Len(all) \in Nat
  BY <1>4
<1>6. MaxTombstones \in Nat /\ MaxTombstones >= 1
  BY DispatcherAssumption
<1> HIDE DEF all
<1>7. CASE Len(all) > MaxTombstones
  <2>1. start \in Nat /\ start <= Len(all) /\ start + 1 = Len(all) - MaxTombstones + 1
    BY <1>5, <1>6, <1>7
  <2>4. result = SubSeq(all, Len(all) - MaxTombstones + 1, Len(all))
    BY <1>2, <1>7 DEF all
  <2>5. result = SubSeq(all, start + 1, Len(all))
    BY <2>1, <2>4
  <2> HIDE DEF start
  <2>2. SubSeq(all, start + 1, Len(all)) \in Seq(Key)
    BY <1>5, <2>1, RestLemma
  <2>3. Len(SubSeq(all, start + 1, Len(all))) = MaxTombstones
    <3>1. Len(all) - (start + 1) + 1 = MaxTombstones
      BY <1>5, <1>6 DEF start
    <3>2. Len(SubSeq(all, start + 1, Len(all))) = Len(all) - (start + 1) + 1
      BY <1>5, <1>6, <2>1, <3>1
    <3> QED BY <3>1, <3>2
  <2> QED BY <1>6, <2>5, <2>2, <2>3
<1>8. CASE ~(Len(all) > MaxTombstones)
  BY <1>2, <1>5, <1>6, <1>8 DEF all
<1> QED BY <1>7, <1>8

-----------------------------------------------------------------------------
(* One lemma per action.                                                   *)

\* An attempt with a queue is in the rotation of its workflow, and no other.
QueueMatch == \A key \in Key : Contains(rotation[key[1]], key[2]) <=> queues[key] # <<>>

\* The same invariant, in the parts that the steps keep.
Parts ==
  /\ RotationShape /\ QueueMatch
  /\ queues \in [Key -> Seq(Segment)] /\ \A key \in Key : NoDuplicates(queues[key])
  /\ inflight \in Seq(Item) /\ NoDuplicates(inflight) /\ KeepsLimits(inflight)
  /\ futures \subseteq Item /\ futures = Pendings /\ futures = Queued \cup Inflight
  /\ Queued \cap Inflight = {}
  /\ tombstones \in Seq(Key) /\ Len(tombstones) <= MaxTombstones
  /\ \A key \in Waiting : ~Contains(tombstones, key)
  /\ marked \subseteq Inflight
  /\ thread \in {"waiting", "processing", "exiting", "closed"}
  /\ closing \in BOOLEAN /\ loaded \in BOOLEAN /\ seen \in [Item -> Known]
  /\ ThreadOK /\ DoomedOK /\ BatchNotEmpty

LEMMA InvParts == Parts <=> IInv
<1>1. ASSUME Parts PROVE IInv
  <2>1. Inflight \subseteq Item
    BY <1>1 DEF Parts, Inflight, ToSet
  <2>2. TypeOK
    BY <1>1, <2>1 DEF Parts, TypeOK, RotationShape, DoomedOK
  <2>3. FuturesAccounted
    BY <1>1 DEF Parts, FuturesAccounted, Pendings
  <2>4. RotationFindsWork
    BY <1>1 DEF Parts, RotationFindsWork, RotationShape, QueueMatch
  <2>5. BatchWithinLimits
    BY <1>1 DEF Parts, BatchWithinLimits, KeepsLimits, Inflight
  <2> QED BY <1>1, <2>2, <2>3, <2>4, <2>5 DEF IInv, Parts
<1>2. ASSUME IInv PROVE Parts
  BY <1>2 DEF Parts, IInv, TypeOK, FuturesAccounted, RotationFindsWork, BatchWithinLimits,
              RotationShape, QueueMatch, Pendings, KeepsLimits, Inflight
<1> QED BY <1>1, <1>2

LEMMA InvPartsNext == Parts' => IInv'
BY InvParts, PTL

\* What the invariant gives to every step.
LEMMA InvFacts ==
  ASSUME IInv
  PROVE  /\ RotationShape /\ QueueMatch /\ QueuesOK /\ RotationOK
         /\ queues \in [Key -> Seq(Segment)]
         /\ QueuedFacts
         /\ futures \subseteq Item /\ futures = Pendings /\ futures = Queued \cup Inflight
         /\ seen \in [Item -> Known] /\ doomed \subseteq Item
         /\ Parts
<1>1. QueuedFacts
  BY QueuedLemma DEF IInv, TypeOK
<1>2. Parts
  BY InvParts
<1>3. QueuesOK /\ RotationOK
  BY DEF IInv, TypeOK, FuturesAccounted, RotationFindsWork, QueuesOK, RotationOK
<1> QED BY <1>1, <1>2, <1>3 DEF Parts, IInv, TypeOK

\* An empty batch keeps the limits.
LEMMA EmptyBatch ==
  /\ <<>> \in Seq(Item) /\ ToSet(<<>>) = {} /\ NoDuplicates(<<>>) /\ KeepsLimits(<<>>)
<1>1. ToSet(<<>>) = {}
  BY DEF ToSet
<1>2. {i.wf : i \in ToSet(<<>>)} = {}
  BY <1>1
<1>3. Cardinality({}) = 0
  BY FS_EmptySet
<1>4. TargetBatch \in Nat /\ MaxActive \in Nat
  BY DispatcherAssumption
<1> DEFINE nobody == {i.wf : i \in ToSet(<<>>)}
<1>5. Cardinality(nobody) <= MaxActive
  <2>1. nobody = {}
    BY <1>2
  <2> HIDE DEF nobody
  <2> QED BY <2>1, <1>3, <1>4
<1>6. Len(<<>>) = 0 /\ ~(Len(<<>>) > 1) /\ <<>> \in Seq(Item)
  OBVIOUS
<1>7. NoDuplicates(<<>>)
  BY DEF NoDuplicates
<1>8. KeepsLimits(<<>>)
  BY <1>4, <1>5, <1>6 DEF KeepsLimits
<1> QED BY <1>1, <1>6, <1>7, <1>8

\* Initially there is nothing.
LEMMA InitInv == Init => IInv
<1> SUFFICES ASSUME Init PROVE IInv
  OBVIOUS
<1>1. queues \in [Key -> Seq(Segment)] /\ \A key \in Key : queues[key] = <<>>
  BY DEF Init, NoQueues
<1>2. Queued = {}
  BY <1>1, QueuedLemma, ItemLemma DEF QueuedFacts
<1>3. Inflight = {}
  BY EmptyBatch DEF Init, Inflight
<1>4. \A x : ~Contains(<<>>, x)
  BY DEF Contains
<1>5. RotationShape /\ QueueMatch
  BY <1>1, <1>4, KeyLemma DEF Init, RotationShape, QueueMatch, NoDuplicates
<1>6. Waiting = {} /\ MaxTombstones >= 0
  BY <1>1, DispatcherAssumption DEF Waiting
<1>7. futures = Pendings /\ seen \in [Item -> Known]
  BY DEF Init, Pendings, Known
<1>8. ThreadOK /\ DoomedOK /\ BatchNotEmpty
  BY <1>6 DEF Init, ThreadOK, DoomedOK, BatchNotEmpty
<1>9. tombstones \in Seq(Key) /\ Len(tombstones) <= MaxTombstones
  BY <1>6 DEF Init
<1>10. \A key \in Key : NoDuplicates(queues[key])
  BY <1>1, EmptyBatch
<1>11. Parts
  BY <1>1, <1>2, <1>3, <1>5, <1>6, <1>7, <1>8, <1>9, <1>10, EmptyBatch DEF Init, Parts
<1> QED BY <1>11, InvParts

\* A submitted attempt joins the rotation of its workflow, at its end.
LEMMA JoinLemma ==
  ASSUME RotationShape, QueueMatch, NEW key \in Key,
         rotation' = [rotation EXCEPT ![key[1]] = IF queues[key] = <<>> THEN Append(@, key[2]) ELSE @],
         order' = IF Contains(order, key[1]) THEN order ELSE Append(order, key[1])
  PROVE  /\ RotationShape'
         /\ \A w \in Workflow : \A a \in AttemptOf(w) :
              Contains(rotation'[w], a) <=> Contains(rotation[w], a) \/ <<w, a>> = key
<1> DEFINE joins(w) == w = key[1] /\ queues[key] = <<>>
<1>1. key = <<key[1], key[2]>> /\ key[1] \in Workflow /\ key[2] \in AttemptOf(key[1])
  BY KeyLemma
<1>2. \A w \in Workflow : rotation'[w] = IF joins(w) THEN Append(rotation[w], key[2]) ELSE rotation[w]
  BY DEF RotationShape
<1>3. Contains(rotation[key[1]], key[2]) <=> queues[key] # <<>>
  BY DEF QueueMatch
<1>4. ASSUME NEW w \in Workflow
      PROVE  /\ rotation'[w] \in Seq(AttemptOf(w)) /\ NoDuplicates(rotation'[w])
             /\ \A a \in AttemptOf(w) :
                  Contains(rotation'[w], a) <=> Contains(rotation[w], a) \/ <<w, a>> = key
             /\ rotation'[w] # <<>> <=> rotation[w] # <<>> \/ w = key[1]
  <2>1. rotation[w] \in Seq(AttemptOf(w)) /\ NoDuplicates(rotation[w])
    BY DEF RotationShape
  <2>2. CASE joins(w)
    <3>1. rotation'[w] = Append(rotation[w], key[2]) /\ key[2] \in AttemptOf(w)
      BY <1>1, <1>2, <2>2
    <3>2. ~Contains(rotation[w], key[2])
      BY <1>3, <2>2
    <3> QED BY <1>1, <2>1, <2>2, <3>1, <3>2, AppendLemma
  <2>3. CASE ~joins(w)
    <3>1. rotation'[w] = rotation[w]
      BY <1>2, <2>3
    <3>2. w = key[1] => Contains(rotation[w], key[2]) /\ rotation[w] # <<>>
      BY <1>3, <2>1, <2>3, ContainsLemma
    <3> QED BY <1>1, <2>1, <3>1, <3>2
  <2> QED BY <2>2, <2>3
<1>5. rotation' \in [Workflow -> Seq(Nat)]
  <2>1. \A w \in Workflow : AttemptOf(w) \subseteq Nat
    BY DEF AttemptOf
  <2>2. \A w \in Workflow : rotation'[w] \in Seq(Nat)
    BY <1>4, <2>1, SeqMonotonic
  <2>3. rotation' = [w \in Workflow |-> rotation'[w]]
    BY DEF RotationShape
  <2> QED BY <2>2, <2>3
<1>6. /\ order' \in Seq(Workflow) /\ NoDuplicates(order')
      /\ \A w \in Workflow : Contains(order', w) <=> Contains(order, w) \/ w = key[1]
  BY <1>1, AppendLemma DEF RotationShape
<1>7. \A w \in Workflow : Contains(order', w) <=> rotation'[w] # <<>>
  BY <1>4, <1>6 DEF RotationShape
<1>8. RotationShape'
  BY <1>4, <1>5, <1>6, <1>7 DEF RotationShape, NoDuplicates, Contains
<1> QED BY <1>4, <1>8

\* The new items are queued once: their caller waited for none of them.
LEMMA SubmitInv ==
  ASSUME IInv, NEW key \in Key, NEW chunk \in Chunks, Submit(key, chunk)
  PROVE  IInv'
<1> DEFINE new == {ItemOf(key, seg) : seg \in ToSet(chunk)}
<1>1. Parts /\ QueuedFacts
  BY InvFacts
<1>2. chunk \in Seq(Segment) /\ chunk # <<>> /\ NoDuplicates(chunk)
  BY ChunkLemma
<1>3. \A i \in Item : i \in new <=> KeyOf(i) = key /\ Contains(chunk, i.seg)
  <2>1. \A seg : seg \in ToSet(chunk) <=> Contains(chunk, seg)
    BY DEF ToSet, Contains
  <2>2. \A seg : Contains(chunk, seg) => seg \in Segment
    BY <1>2, ContainsLemma
  <2> QED BY <2>1, <2>2, ItemLemma
<1>4. new \subseteq Item
  <2>1. ToSet(chunk) \subseteq Segment
    BY <1>2 DEF ToSet
  <2> QED BY <2>1, ItemLemma
<1>5. \A seg \in Segment : ItemOf(key, seg) \notin futures
  BY <1>1 DEF Submit, MaySubmit, Parts, Pendings
<1>6. new \cap futures = {}
  <2>1. ToSet(chunk) \subseteq Segment
    BY <1>2 DEF ToSet
  <2> QED BY <1>5, <2>1
<1> HIDE DEF new
<1>7. \A k \in Key : queues'[k] = IF k = key THEN queues[key] \o chunk ELSE queues[k]
  BY <1>1 DEF Submit, Parts
<1>8. /\ queues[key] \o chunk \in Seq(Segment)
      /\ \A y : Contains(queues[key] \o chunk, y) <=> Contains(queues[key], y) \/ Contains(chunk, y)
      /\ NoDuplicates(queues[key] \o chunk)
  <2>1. queues[key] \in Seq(Segment) /\ NoDuplicates(queues[key])
    BY <1>1 DEF Parts
  <2>2. \A y : ~(Contains(queues[key], y) /\ Contains(chunk, y))
    <3>1. \A y : Contains(chunk, y) => y \in Segment
      BY <1>2, ContainsLemma
    <3>2. \A y \in Segment : ~Contains(queues[key], y)
      BY <1>1, <1>5 DEF QueuedFacts, Parts
    <3> QED BY <3>1, <3>2
  <2> QED BY <1>2, <2>1, <2>2, ConcatLemma
<1>9. queues' \in [Key -> Seq(Segment)] /\ \A k \in Key : NoDuplicates(queues'[k])
  <2>1. queues' = [k \in Key |-> queues'[k]]
    BY <1>1 DEF Submit, Parts
  <2>2. \A k \in Key : queues'[k] \in Seq(Segment) /\ NoDuplicates(queues'[k])
    BY <1>1, <1>7, <1>8 DEF Parts
  <2> QED BY <2>1, <2>2
<1>10. QueuedFacts'
  BY <1>9, QueuedNext
<1>11. Queued' = Queued \cup new
  <2>1. \A i \in Item : i \in Queued' <=> i \in Queued \cup new
    <3> TAKE i \in Item
    <3>1. KeyOf(i) \in Key
      BY ItemLemma
    <3>2. i \in Queued' <=> Contains(queues'[KeyOf(i)], i.seg)
      BY <1>10 DEF QueuedFacts, Contains
    <3>3. i \in Queued <=> Contains(queues[KeyOf(i)], i.seg)
      BY <1>1 DEF QueuedFacts
    <3> QED BY <1>3, <1>7, <1>8, <3>1, <3>2, <3>3
  <2> QED BY <1>1, <1>4, <1>10, <2>1 DEF QueuedFacts
<1>12. Inflight' = Inflight
  BY DEF Submit, Inflight
<1>13. futures' = futures \cup new
  BY DEF Submit, new
<1>14. /\ futures' \subseteq Item /\ futures' = Queued' \cup Inflight'
       /\ Queued' \cap Inflight' = {}
  BY <1>1, <1>4, <1>6, <1>11, <1>12, <1>13 DEF Parts
<1>15. seen' = [i \in Item |-> IF i \in new THEN "pending" ELSE seen[i]]
  BY <1>3 DEF Submit, Await
<1>16. seen' \in [Item -> Known] /\ futures' = Pendings'
  <2>1. seen' \in [Item -> Known]
    BY <1>1, <1>15 DEF Parts, Known
  <2>2. Pendings' = Pendings \cup new
    BY <1>4, <1>15 DEF Pendings
  <2> QED BY <1>1, <1>13, <2>1, <2>2 DEF Parts
<1>17. /\ RotationShape'
       /\ \A w \in Workflow : \A a \in AttemptOf(w) :
            Contains(rotation'[w], a) <=> Contains(rotation[w], a) \/ <<w, a>> = key
  BY <1>1, JoinLemma DEF Submit, Parts
<1>18. queues'[key] # <<>>
  BY <1>2, <1>7, <1>8, ContainsLemma
<1>19. QueueMatch'
  <2>1. \A k \in Key : Contains(rotation'[k[1]], k[2]) <=> queues'[k] # <<>>
    BY <1>1, <1>7, <1>17, <1>18, KeyLemma DEF Parts, QueueMatch
  <2> QED BY <2>1 DEF QueueMatch, Contains
<1>20. \A k \in Waiting' : ~Contains(tombstones', k)
  <2>1. \A k \in Waiting' : k \in Waiting \/ k = key
    BY <1>7 DEF Waiting
  <2> QED BY <1>1, <2>1 DEF Parts, Submit
<1>21. ThreadOK' /\ DoomedOK' /\ BatchNotEmpty'
  BY <1>1, <1>12 DEF Parts, ThreadOK, DoomedOK, BatchNotEmpty, Submit, MaySubmit
<1>22. Parts'
  BY <1>1, <1>9, <1>12, <1>14, <1>16, <1>17, <1>19, <1>20, <1>21 DEF Parts, Submit, NoDuplicates, KeepsLimits
<1> QED BY <1>22, InvPartsNext

LEMMA SubmitCancelledInv ==
  ASSUME IInv, NEW key \in Key, NEW chunk \in Chunks, SubmitCancelled(key, chunk)
  PROVE  IInv'
<1>1. Parts
  BY InvFacts
<1>2. seen' = [i \in Item |-> IF KeyOf(i) = key /\ Contains(chunk, i.seg) THEN "cancelled" ELSE seen[i]]
  BY DEF SubmitCancelled, Await
<1>3. \A i \in Item : KeyOf(i) = key => seen[i] = "idle"
  BY ItemLemma DEF SubmitCancelled, MaySubmit
<1>4. seen' \in [Item -> Known] /\ Pendings' = Pendings
  <2>1. seen' \in [Item -> Known]
    BY <1>1, <1>2 DEF Parts, Known
  <2>2. \A i \in Item : seen'[i] = "pending" <=> seen[i] = "pending"
    BY <1>2, <1>3
  <2> QED BY <2>1, <2>2 DEF Pendings
<1>5. /\ UNCHANGED <<queues, rotation, order, inflight, futures, tombstones, marked, thread,
                     closing, loaded, doomed>>
      /\ Queued' = Queued /\ Inflight' = Inflight /\ Waiting' = Waiting
  BY DEF SubmitCancelled, lists, Queued, Inflight, Waiting
<1>6. RotationShape' /\ QueueMatch' /\ ThreadOK' /\ DoomedOK' /\ BatchNotEmpty'
  BY <1>1, <1>5 DEF Parts, RotationShape, QueueMatch, ThreadOK, DoomedOK, BatchNotEmpty
<1>7. Parts'
  BY <1>1, <1>4, <1>5, <1>6 DEF Parts
<1> QED BY <1>7, InvPartsNext

\* Emptied queues leave the rotations, and their items are not queued.
LEMMA EmptyLemma ==
  ASSUME Parts, NEW keys \in SUBSET Key, DropAttempts(keys),
         queues' = [k \in Key |-> IF k \in keys THEN <<>> ELSE queues[k]]
  PROVE  /\ RotationShape' /\ QueueMatch'
         /\ queues' \in [Key -> Seq(Segment)] /\ \A k \in Key : NoDuplicates(queues'[k])
         /\ Queued' = {i \in Queued : KeyOf(i) \notin keys}
         /\ Waiting' = Waiting \ keys
<1>1. /\ RotationShape'
      /\ \A w \in Workflow : \A a \in AttemptOf(w) :
           Contains(rotation'[w], a) <=> Contains(rotation[w], a) /\ <<w, a>> \notin keys
  BY DropLemma DEF Parts
<1>2. <<>> \in Seq(Segment) /\ NoDuplicates(<<>>) /\ \A x : ~Contains(<<>>, x)
  BY DEF NoDuplicates, Contains
<1>3. \A k \in Key : queues'[k] = IF k \in keys THEN <<>> ELSE queues[k]
  OBVIOUS
<1>4. queues' \in [Key -> Seq(Segment)] /\ \A k \in Key : NoDuplicates(queues'[k])
  BY <1>2 DEF Parts
<1>5. QueuedFacts /\ QueuedFacts'
  BY <1>4, QueuedLemma, QueuedNext DEF Parts
<1>6. Queued' = {i \in Queued : KeyOf(i) \notin keys}
  <2>1. ASSUME NEW i \in Item PROVE i \in Queued' <=> i \in Queued /\ KeyOf(i) \notin keys
    <3>1. KeyOf(i) \in Key
      BY ItemLemma
    <3>2. i \in Queued' <=> Contains(queues'[KeyOf(i)], i.seg)
      BY <1>5 DEF QueuedFacts, Contains
    <3>3. i \in Queued <=> Contains(queues[KeyOf(i)], i.seg)
      BY <1>5 DEF QueuedFacts
    <3> QED BY <1>2, <1>3, <3>1, <3>2, <3>3
  <2> QED BY <1>5, <2>1 DEF QueuedFacts
<1>7. QueueMatch'
  <2>1. \A k \in Key : Contains(rotation'[k[1]], k[2]) <=> queues'[k] # <<>>
    BY <1>1, <1>3, KeyLemma DEF Parts, QueueMatch
  <2> QED BY <2>1 DEF QueueMatch, Contains
<1>8. Waiting' = Waiting \ keys
  BY <1>3 DEF Waiting
<1> QED BY <1>1, <1>4, <1>6, <1>7, <1>8

\* Cancelled items that were queued are answered; those in flight are marked.
LEMMA CancelInv ==
  ASSUME IInv, NEW key \in Key, Cancel(key)
  PROVE  IInv'
<1> DEFINE outcome == [i \in ItemsOf(key) |-> "cancelled"]
           newly == {i \in futures : KeyOf(i) = key}
<1>1. Parts /\ QueuedFacts
  BY InvFacts
<1>2. ItemsOf(key) = {i \in Queued : KeyOf(i) = key} /\ ItemsOf(key) \subseteq futures
  BY <1>1 DEF QueuedFacts, Parts
<1>3. queues' = [k \in Key |-> IF k \in {key} THEN <<>> ELSE queues[k]]
  BY <1>1 DEF Cancel, Parts
<1>4. /\ RotationShape' /\ QueueMatch'
      /\ queues' \in [Key -> Seq(Segment)] /\ \A k \in Key : NoDuplicates(queues'[k])
      /\ Queued' = {i \in Queued : KeyOf(i) \notin {key}}
      /\ Waiting' = Waiting \ {key}
  <2>1. DropAttempts({key})
    BY DEF Cancel
  <2> QED BY <1>1, <1>3, <2>1, EmptyLemma
<1>5. /\ DOMAIN outcome = ItemsOf(key)
      /\ \A i \in DOMAIN outcome : outcome[i] \in Known \ {"pending"}
      /\ newly \subseteq futures /\ Resolve(outcome, newly)
  BY DEF Cancel, Known
<1> HIDE DEF outcome, newly
<1>6. Inflight \subseteq Item
  BY <1>1 DEF Parts
<1>7. /\ futures' = futures \ ItemsOf(key)
      /\ futures' \subseteq Item /\ futures' = Pendings'
      /\ seen' \in [Item -> Known]
      /\ doomed' = (doomed \cup newly) \ ItemsOf(key)
  <2>1. doomed \subseteq Item
    BY <1>1, <1>6 DEF Parts, DoomedOK
  <2> QED BY <1>1, <1>2, <1>5, <2>1, ResolveLemma DEF Parts
<1>8. inflight' = inflight /\ Inflight' = Inflight
  BY DEF Cancel, Inflight
<1>9. futures' = Queued' \cup Inflight' /\ Queued' \cap Inflight' = {}
  BY <1>1, <1>2, <1>4, <1>7, <1>8 DEF Parts
<1>10. marked' = marked \cup {i \in Inflight : KeyOf(i) = key} /\ closing' = closing
  BY DEF Cancel
<1>11. DoomedOK'
  BY <1>1, <1>2, <1>7, <1>8, <1>10 DEF DoomedOK, Parts, newly
<1>12. /\ tombstones' \in Seq(Key) /\ Len(tombstones') <= MaxTombstones
       /\ \A k \in Waiting' : ~Contains(tombstones', k)
  <2>1. tombstones' = Remember(key)
    BY DEF Cancel
  <2>2. /\ Remember(key) \in Seq(Key) /\ Len(Remember(key)) <= MaxTombstones
        /\ \A k : Contains(Remember(key), k) => Contains(tombstones, k) \/ k = key
    BY <1>1, RememberLemma DEF Parts
  <2> QED BY <1>1, <1>4, <2>1, <2>2 DEF Parts
<1>13. ThreadOK' /\ BatchNotEmpty'
  BY <1>1, <1>4, <1>8, <1>10 DEF Parts, ThreadOK, BatchNotEmpty, Cancel
<1>14. marked' \subseteq Inflight'
  BY <1>1, <1>8, <1>10 DEF Parts
<1>15. inflight' \in Seq(Item) /\ NoDuplicates(inflight') /\ KeepsLimits(inflight')
  BY <1>1, <1>8 DEF Parts
<1>16. thread' = thread /\ loaded' = loaded
  BY DEF Cancel
<1>17. Parts'
  BY <1>1, <1>4, <1>7, <1>9, <1>10, <1>11, <1>12, <1>13, <1>14, <1>15, <1>16 DEF Parts, NoDuplicates, KeepsLimits
<1> QED BY <1>17, InvPartsNext

\* A dispatcher that closes empties every queue.
LEMMA CloseInv ==
  ASSUME IInv, Close
  PROVE  IInv'
<1> DEFINE outcome == [i \in Queued |-> "discarded"]
<1>1. Parts /\ QueuedFacts
  BY InvFacts
<1>2. Waiting \in SUBSET Key
  BY DEF Waiting
<1>3. queues' = [k \in Key |-> IF k \in Waiting THEN <<>> ELSE queues[k]]
  BY DEF Close, NoQueues, Waiting
<1>4. /\ RotationShape' /\ QueueMatch'
      /\ queues' \in [Key -> Seq(Segment)] /\ \A k \in Key : NoDuplicates(queues'[k])
      /\ Queued' = {i \in Queued : KeyOf(i) \notin Waiting}
      /\ Waiting' = Waiting \ Waiting
  <2>1. DropAttempts(Waiting)
    BY DEF Close
  <2> QED BY <1>1, <1>2, <1>3, <2>1, EmptyLemma
<1>5. \A i \in Queued : KeyOf(i) \in Waiting
  BY <1>1, ItemLemma DEF QueuedFacts, Waiting
<1>6. Queued' = {} /\ Waiting' = {}
  BY <1>4, <1>5
<1>7. /\ DOMAIN outcome = Queued
      /\ \A i \in DOMAIN outcome : outcome[i] \in Known \ {"pending"}
      /\ Resolve(outcome, futures)
  BY DEF Close, Known
<1> HIDE DEF outcome
<1>8. Inflight \subseteq Item /\ doomed \subseteq Item
  BY <1>1 DEF Parts, DoomedOK
<1>9. /\ futures' = futures \ Queued
      /\ futures' \subseteq Item /\ futures' = Pendings'
      /\ seen' \in [Item -> Known]
      /\ doomed' = (doomed \cup futures) \ Queued
  BY <1>1, <1>7, <1>8, ResolveLemma DEF Parts
<1>10. inflight' = inflight /\ Inflight' = Inflight
  BY DEF Close, Inflight
<1>11. futures' = Queued' \cup Inflight' /\ Queued' \cap Inflight' = {}
  BY <1>1, <1>6, <1>9, <1>10 DEF Parts
<1>12. UNCHANGED <<marked, thread, loaded>> /\ closing' = TRUE
  BY DEF Close
<1>13. DoomedOK'
  BY <1>1, <1>9, <1>10, <1>12 DEF DoomedOK, Parts
<1>14. tombstones' \in Seq(Key) /\ Len(tombstones') <= MaxTombstones
  <2>1. tombstones' \in RememberAll(Waiting)
    BY DEF Close
  <2> QED BY <1>1, <1>2, <2>1, RememberAllLemma DEF Parts
<1>15. ThreadOK' /\ BatchNotEmpty'
  BY <1>1, <1>6, <1>10, <1>12 DEF Parts, ThreadOK, BatchNotEmpty
<1>16. inflight' \in Seq(Item) /\ NoDuplicates(inflight') /\ KeepsLimits(inflight')
  BY <1>1, <1>10 DEF Parts
<1>17. \A k \in Waiting' : ~Contains(tombstones', k)
  BY <1>6
<1>18. Parts'
  BY <1>1, <1>4, <1>9, <1>10, <1>11, <1>12, <1>13, <1>14, <1>15, <1>16, <1>17 DEF Parts, NoDuplicates, KeepsLimits
<1> QED BY <1>18, InvPartsNext

\* What a batch takes is no longer queued, and the rest still is.
LEMMA TakenQueues ==
  ASSUME Parts, NEW b, Fronts(b), Take(b)
  PROVE  /\ queues' \in [Key -> Seq(Segment)] /\ \A k \in Key : NoDuplicates(queues'[k])
         /\ Queued' \cup ToSet(b) = Queued /\ Queued' \cap ToSet(b) = {}
         /\ \A k \in Key : /\ queues'[k] # <<>> => queues[k] # <<>>
                           /\ Offset(b, k) = 0 => queues'[k] = queues[k]
<1> DEFINE Off(k) == Offset(b, k)
<1>1. b \in Seq(Item) /\ \A k \in Key : Off(k) \in Nat /\ Off(k) <= Len(queues[k])
  BY OffsetLemma DEF Fronts
<1> HIDE DEF Off
<1>2. queues' = [k \in Key |-> SubSeq(queues[k], Off(k) + 1, Len(queues[k]))]
  BY DEF Take, Off
<1>3. ASSUME NEW k \in Key
      PROVE  /\ queues[k] \in Seq(Segment) /\ NoDuplicates(queues[k])
             /\ queues'[k] \in Seq(Segment) /\ NoDuplicates(queues'[k])
             /\ \A y : Contains(queues'[k], y) <=> \E n \in Off(k) + 1 .. Len(queues[k]) : queues[k][n] = y
             /\ Off(k) = 0 => queues'[k] = queues[k]
  <2>1. queues[k] \in Seq(Segment) /\ NoDuplicates(queues[k])
    BY DEF Parts
  <2>2. queues'[k] = SubSeq(queues[k], Off(k) + 1, Len(queues[k]))
    BY <1>2
  <2>3. \A s \in Seq(Segment) : SubSeq(s, 0 + 1, Len(s)) = s
    OBVIOUS
  <2>4. Off(k) = 0 => queues'[k] = queues[k]
    BY <2>1, <2>2, <2>3
  <2> DEFINE rest == SubSeq(queues[k], Off(k) + 1, Len(queues[k]))
  <2>5. /\ rest \in Seq(Segment)
        /\ \A y : Contains(rest, y) <=> \E n \in Off(k) + 1 .. Len(queues[k]) : queues[k][n] = y
        /\ NoDuplicates(queues[k]) => NoDuplicates(rest)
    BY <1>1, <2>1, RestLemma
  <2> HIDE DEF rest
  <2>6. queues'[k] = rest
    BY <2>2 DEF rest
  <2> QED BY <2>1, <2>4, <2>5, <2>6
<1>4. ASSUME NEW k \in Key, queues'[k] # <<>> PROVE queues[k] # <<>>
  <2>1. PICK y : Contains(queues'[k], y)
    BY <1>3, <1>4, ContainsLemma
  <2>2. PICK n \in Off(k) + 1 .. Len(queues[k]) : queues[k][n] = y
    BY <1>3, <2>1
  <2>3. n \in DOMAIN queues[k]
    BY <1>1, <1>3, <2>2
  <2> QED BY <2>3
<1>5. queues' \in [Key -> Seq(Segment)]
  BY <1>2, <1>3
<1>6. QueuedFacts /\ QueuedFacts'
  BY <1>5, QueuedLemma, QueuedNext DEF Parts
<1>7. ASSUME NEW i \in Item
      PROVE  /\ i \in ToSet(b) => i \in Queued /\ i \notin Queued'
             /\ i \in Queued' => i \in Queued
             /\ i \in Queued => i \in Queued' \/ i \in ToSet(b)
  <2> DEFINE k == KeyOf(i)
             q == queues[k]
  <2>1. k \in Key /\ i = ItemOf(k, i.seg)
    BY ItemLemma
  <2>2. q \in Seq(Segment) /\ DOMAIN q = 1 .. Len(q) /\ NoDuplicates(q)
    BY <2>1, <1>3
  <2>3. Off(k) \in Nat /\ Off(k) <= Len(q)
    BY <1>1, <2>1
  <2>4. i \in Queued' <=> \E n \in Off(k) + 1 .. Len(q) : q[n] = i.seg
    <3>1. i \in Queued' <=> Contains(queues'[k], i.seg)
      BY <1>6 DEF QueuedFacts, Contains
    <3> QED BY <1>3, <2>1, <3>1
  <2>5. i \in Queued <=> \E n \in 1 .. Len(q) : q[n] = i.seg
    BY <1>6, <2>2 DEF QueuedFacts, Contains
  <2>6. i \in ToSet(b) => \E m \in 1 .. Off(k) : q[m] = i.seg
    BY DEF Fronts, ToSet, Off
  <2>7. ASSUME NEW m \in 1 .. Off(k), q[m] = i.seg PROVE i \in ToSet(b)
    <3>1. PICK n \in DOMAIN b : b[n] = ItemOf(k, q[m])
      BY <2>1, <2>7 DEF Fronts, Off
    <3> QED BY <2>1, <2>7, <3>1 DEF ToSet
  <2> HIDE DEF k, q
  <2>8. \A m \in 1 .. Off(k) : m \in 1 .. Len(q)
    BY <2>2, <2>3
  <2>9. \A n \in Off(k) + 1 .. Len(q) : n \in 1 .. Len(q)
    BY <2>2, <2>3
  <2>10. \A m \in 1 .. Off(k) : \A n \in Off(k) + 1 .. Len(q) : q[m] # q[n]
    <3>1. \A m \in 1 .. Off(k) : \A n \in Off(k) + 1 .. Len(q) : m # n
      BY <2>3
    <3> QED BY <2>2, <2>8, <2>9, <3>1 DEF NoDuplicates
  <2>11. \A n \in 1 .. Len(q) : n \in 1 .. Off(k) \/ n \in Off(k) + 1 .. Len(q)
    BY <2>2, <2>3
  <2> QED BY <2>4, <2>5, <2>6, <2>7, <2>8, <2>9, <2>10, <2>11
<1>8. ToSet(b) \subseteq Item
  BY <1>1 DEF ToSet
<1>9. Queued' \cup ToSet(b) = Queued /\ Queued' \cap ToSet(b) = {}
  BY <1>6, <1>7, <1>8 DEF QueuedFacts
<1> QED BY <1>3, <1>4, <1>5, <1>9 DEF Off

\* Every attempt that still has a queue stays in the rotation, once.
LEMMA TakenRotation ==
  ASSUME Parts, NEW b, Fronts(b), Take(b)
  PROVE  RotationShape' /\ QueueMatch'
<1>1. \A k \in Key : /\ queues'[k] # <<>> => queues[k] # <<>>
                     /\ Offset(b, k) = 0 => queues'[k] = queues[k]
  BY TakenQueues
<1>2. RotationShape /\ QueueMatch /\ b \in Seq(Item)
  BY DEF Parts, Fronts
<1>3. ASSUME NEW w \in Workflow
      PROVE  /\ rotation'[w] \in Seq(AttemptOf(w)) /\ NoDuplicates(rotation'[w])
             /\ \A a \in AttemptOf(w) : Contains(rotation'[w], a) <=> queues'[<<w, a>>] # <<>>
             /\ rotation'[w] # <<>> => rotation[w] # <<>>
  <2> DEFINE r == rotation[w]
             served == Served(b, w)
             back == {a \in served : queues'[<<w, a>>] # <<>>}
             front == AttemptOf(w) \ served
  <2>1. r \in Seq(AttemptOf(w)) /\ NoDuplicates(r)
    BY <1>2 DEF RotationShape
  <2>2. rotation'[w] = Only(r, front) \o Only(r, back)
    BY DEF Take
  <2>3. served \subseteq AttemptOf(w)
    BY DEF Served
  <2>4. ASSUME NEW a \in AttemptOf(w), a \notin served PROVE Offset(b, <<w, a>>) = 0
    <3>1. ~\E n \in DOMAIN b : KeyOf(b[n]) = <<w, a>>
      BY <2>4 DEF Served
    <3> QED BY <1>2, <3>1, OffsetLemma
  <2>5. ASSUME NEW a \in AttemptOf(w) PROVE <<w, a>> \in Key /\ (Contains(r, a) <=> queues[<<w, a>>] # <<>>)
    <3>1. <<w, a>> \in Key
      BY KeyLemma
    <3> QED BY <1>2, <3>1 DEF QueueMatch
  <2> HIDE DEF r, served
  <2>6. /\ Only(r, front) \in Seq(AttemptOf(w)) /\ NoDuplicates(Only(r, front))
        /\ \A x : Contains(Only(r, front), x) <=> Contains(r, x) /\ x \in front
    <3> HIDE DEF front
    <3> QED BY <2>1, OnlyLemma
  <2>7. /\ Only(r, back) \in Seq(AttemptOf(w)) /\ NoDuplicates(Only(r, back))
        /\ \A x : Contains(Only(r, back), x) <=> Contains(r, x) /\ x \in back
    <3> HIDE DEF back
    <3> QED BY <2>1, OnlyLemma
  <2>8. /\ rotation'[w] \in Seq(AttemptOf(w))
        /\ \A x : Contains(rotation'[w], x) <=> Contains(r, x) /\ (x \in front \/ x \in back)
        /\ NoDuplicates(rotation'[w])
    <3>1. \A x : ~(x \in front /\ x \in back)
      OBVIOUS
    <3> HIDE DEF front, back
    <3>2. \A x : ~(Contains(Only(r, front), x) /\ Contains(Only(r, back), x))
      BY <2>6, <2>7, <3>1
    <3> QED BY <2>2, <2>6, <2>7, <3>2, ConcatLemma
  <2>9. \A a \in AttemptOf(w) : Contains(rotation'[w], a) <=> queues'[<<w, a>>] # <<>>
    BY <1>1, <2>3, <2>4, <2>5, <2>8
  <2>10. rotation'[w] # <<>> => r # <<>>
    BY <2>1, <2>8, ContainsLemma
  <2> QED BY <2>8, <2>9, <2>10 DEF r
<1>4. rotation' \in [Workflow -> Seq(Nat)]
  <2>1. \A w \in Workflow : AttemptOf(w) \subseteq Nat
    BY DEF AttemptOf
  <2>2. \A w \in Workflow : rotation'[w] \in Seq(Nat)
    BY <1>3, <2>1, SeqMonotonic
  <2>3. rotation' = [w \in Workflow |-> rotation'[w]]
    BY DEF Take
  <2> QED BY <2>2, <2>3
<1>5. /\ order' \in Seq(Workflow) /\ NoDuplicates(order')
      /\ \A w \in Workflow : Contains(order', w) <=> rotation'[w] # <<>>
  <2> DEFINE left == Pruned(order, rotation')
  <2>1. /\ left \in Seq(Workflow) /\ NoDuplicates(left)
        /\ \A w \in Workflow : Contains(left, w) <=> rotation'[w] # <<>>
    BY <1>2, <1>3, PrunedLemma
  <2>2. order' = Rotated(left)
    BY DEF Take
  <2> HIDE DEF left
  <2> QED BY <2>1, <2>2, RotatedLemma
<1>6. RotationShape'
  BY <1>3, <1>4, <1>5 DEF RotationShape, NoDuplicates, Contains
<1>7. QueueMatch'
  <2>1. \A k \in Key : Contains(rotation'[k[1]], k[2]) <=> queues'[k] # <<>>
    BY <1>3, KeyLemma
  <2> QED BY <2>1 DEF QueueMatch, Contains
<1> QED BY <1>6, <1>7

\* What is taken moves from the queues to the batch.
LEMMA TakeBatchInv ==
  ASSUME IInv, TakeBatch
  PROVE  IInv'
<1>1. Parts /\ QueuesOK /\ RotationOK
  BY InvFacts
<1>2. PICK b : b = Plan /\ Take(b) /\ inflight' = b
  BY DEF TakeBatch
<1>3. Fronts(b) /\ KeepsLimits(b) /\ b # <<>>
  BY <1>1, <1>2, PlanLemma DEF TakeBatch
<1>4. inflight = <<>> /\ Inflight = {} /\ marked = {} /\ doomed = {}
  <2>1. inflight = <<>>
    BY <1>1 DEF Parts, ThreadOK, TakeBatch
  <2>2. Inflight = {}
    BY <2>1, EmptyBatch DEF Inflight
  <2> QED BY <1>1, <2>1, <2>2 DEF Parts, DoomedOK
<1>5. Inflight' = ToSet(b)
  BY <1>2 DEF Inflight, ToSet
<1>6. /\ queues' \in [Key -> Seq(Segment)] /\ \A k \in Key : NoDuplicates(queues'[k])
      /\ Queued' \cup ToSet(b) = Queued /\ Queued' \cap ToSet(b) = {}
      /\ \A k \in Key : queues'[k] # <<>> => queues[k] # <<>>
  BY <1>1, <1>2, <1>3, TakenQueues
<1>7. RotationShape' /\ QueueMatch'
  BY <1>1, <1>2, <1>3, TakenRotation
<1>8. /\ UNCHANGED <<futures, tombstones, marked, closing, loaded, seen, doomed>>
      /\ thread' = "processing"
  BY DEF TakeBatch
<1>9. /\ futures' \subseteq Item /\ futures' = Pendings' /\ seen' \in [Item -> Known]
      /\ futures' = Queued' \cup Inflight' /\ Queued' \cap Inflight' = {}
  BY <1>1, <1>4, <1>5, <1>6, <1>8 DEF Parts, Pendings
<1>10. Waiting' \subseteq Waiting
  BY <1>6 DEF Waiting
<1>11. ThreadOK' /\ DoomedOK' /\ BatchNotEmpty'
  BY <1>1, <1>2, <1>3, <1>4, <1>8, <1>10 DEF Parts, ThreadOK, DoomedOK, BatchNotEmpty
<1>12. b \in Seq(Item) /\ NoDuplicates(b)
  BY <1>3 DEF Fronts
<1>13. Parts'
  BY <1>1, <1>2, <1>3, <1>4, <1>6, <1>7, <1>8, <1>9, <1>10, <1>11, <1>12 DEF Parts, NoDuplicates, KeepsLimits
<1> QED BY <1>13, InvPartsNext

\* The batch that ends is answered, and nothing is in flight.
LEMMA FinishInv ==
  ASSUME IInv, Finish
  PROVE  IInv'
<1> DEFINE outcome == [i \in Inflight |-> IF Discarded(i) THEN "cancelled" ELSE "idle"]
<1>1. Parts /\ QueuedFacts
  BY InvFacts
<1>2. /\ DOMAIN outcome = Inflight
      /\ \A i \in DOMAIN outcome : outcome[i] \in Known \ {"pending"}
      /\ Resolve(outcome, {})
  BY DEF Finish, Known
<1> HIDE DEF outcome
<1>3. Inflight \subseteq Item /\ doomed \subseteq Item
  BY <1>1 DEF Parts, DoomedOK
<1>4. /\ futures' = futures \ Inflight
      /\ futures' \subseteq Item /\ futures' = Pendings'
      /\ seen' \in [Item -> Known]
      /\ doomed' = (doomed \cup {}) \ Inflight
  BY <1>1, <1>2, <1>3, ResolveLemma DEF Parts
<1>5. inflight' = <<>> /\ Inflight' = {}
  BY EmptyBatch DEF Finish, Inflight, ToSet
<1>6. /\ UNCHANGED <<queues, rotation, order, tombstones, closing>>
      /\ loaded' = TRUE /\ thread' = "waiting" /\ marked' = marked \ Inflight
      /\ Queued' = Queued /\ Waiting' = Waiting
  BY DEF Finish, lists, Queued, Waiting
<1>7. futures' = Queued' \cup Inflight' /\ Queued' \cap Inflight' = {}
  BY <1>1, <1>4, <1>5, <1>6 DEF Parts
<1>8. marked' = {} /\ doomed' = {}
  BY <1>1, <1>4, <1>6 DEF Parts, DoomedOK
<1>9. RotationShape' /\ QueueMatch' /\ ThreadOK' /\ DoomedOK' /\ BatchNotEmpty'
  BY <1>1, <1>5, <1>6, <1>8 DEF Parts, RotationShape, QueueMatch, ThreadOK, DoomedOK, BatchNotEmpty
<1>10. Parts'
  BY <1>1, <1>4, <1>5, <1>6, <1>7, <1>8, <1>9, EmptyBatch DEF Parts, NoDuplicates, KeepsLimits
<1> QED BY <1>10, InvPartsNext

\* A model that does not load: every caller is answered and no queue is left.
LEMMA TerminateInv ==
  ASSUME IInv, Terminate
  PROVE  IInv'
<1> DEFINE outcome == [i \in Queued \cup Inflight |->
                         IF i \in Inflight /\ Contains(tombstones, KeyOf(i)) THEN "cancelled" ELSE "discarded"]
<1>1. Parts /\ QueuedFacts
  BY InvFacts
<1>2. /\ DOMAIN outcome = futures
      /\ \A i \in DOMAIN outcome : outcome[i] \in Known \ {"pending"}
      /\ Resolve(outcome, {})
  BY <1>1 DEF Terminate, Known, Parts
<1> HIDE DEF outcome
<1>3. Inflight \subseteq Item /\ doomed \subseteq Item /\ doomed \subseteq futures
  BY <1>1 DEF Parts, DoomedOK
<1>4. /\ futures' = futures \ futures
      /\ futures' \subseteq Item /\ futures' = Pendings'
      /\ seen' \in [Item -> Known]
      /\ doomed' = (doomed \cup {}) \ futures
  BY <1>1, <1>2, <1>3, ResolveLemma DEF Parts
<1>5. Waiting \in SUBSET Key
  BY DEF Waiting
<1>6. queues' = [k \in Key |-> IF k \in Waiting THEN <<>> ELSE queues[k]]
  BY DEF Terminate, NoQueues, Waiting
<1>7. /\ RotationShape' /\ QueueMatch'
      /\ queues' \in [Key -> Seq(Segment)] /\ \A k \in Key : NoDuplicates(queues'[k])
      /\ Queued' = {i \in Queued : KeyOf(i) \notin Waiting}
      /\ Waiting' = Waiting \ Waiting
  <2>1. DropAttempts(Waiting)
    BY DEF Terminate
  <2> QED BY <1>1, <1>5, <1>6, <2>1, EmptyLemma
<1>8. \A i \in Queued : KeyOf(i) \in Waiting
  BY <1>1, ItemLemma DEF QueuedFacts, Waiting
<1>9. inflight' = <<>> /\ Inflight' = {} /\ Queued' = {} /\ Waiting' = {}
  BY <1>7, <1>8, EmptyBatch DEF Terminate, Inflight, ToSet
<1>10. /\ UNCHANGED <<tombstones, loaded>>
       /\ closing' = TRUE /\ thread' = "exiting" /\ marked' = marked \ Inflight
  BY DEF Terminate
<1>11. marked' = {} /\ doomed' = {} /\ futures' = {}
  BY <1>1, <1>3, <1>4, <1>10 DEF Parts
<1>12. ThreadOK' /\ DoomedOK' /\ BatchNotEmpty'
  BY <1>9, <1>10, <1>11 DEF ThreadOK, DoomedOK, BatchNotEmpty
<1>13. Parts'
  BY <1>1, <1>4, <1>7, <1>9, <1>10, <1>11, <1>12, EmptyBatch DEF Parts, NoDuplicates, KeepsLimits
<1> QED BY <1>13, InvPartsNext

LEMMA ExitInv ==
  ASSUME IInv, Exit
  PROVE  IInv'
<1>1. Parts
  BY InvFacts
<1>2. /\ UNCHANGED <<queues, rotation, order, inflight, futures, tombstones, marked, closing, loaded,
                     seen, doomed>>
      /\ thread = "waiting" /\ thread' = "exiting" /\ closing
      /\ Queued' = Queued /\ Inflight' = Inflight /\ Waiting' = Waiting /\ Pendings' = Pendings
  BY DEF Exit, lists, Queued, Inflight, Waiting, Pendings
<1>3. RotationShape' /\ QueueMatch' /\ ThreadOK' /\ DoomedOK' /\ BatchNotEmpty'
  BY <1>1, <1>2 DEF Parts, RotationShape, QueueMatch, ThreadOK, DoomedOK, BatchNotEmpty
<1>4. Parts'
  BY <1>1, <1>2, <1>3 DEF Parts
<1> QED BY <1>4, InvPartsNext

\* When the thread is over, nothing was left to clear but the tombstones.
LEMMA ClosedInv ==
  ASSUME IInv, Closed
  PROVE  IInv'
<1>1. Parts /\ QueuedFacts
  BY InvFacts
<1>2. closing /\ Waiting = {} /\ Inflight = {}
  BY <1>1, EmptyBatch DEF Parts, ThreadOK, Closed, Inflight
<1>3. Queued = {}
  BY <1>1, <1>2, ItemLemma DEF QueuedFacts, Waiting
<1>4. futures = {} /\ doomed = {} /\ Pendings = {}
  BY <1>1, <1>2, <1>3 DEF Parts, DoomedOK
<1>5. /\ queues' = NoQueues /\ rotation' = [w \in Workflow |-> <<>>] /\ order' = <<>>
      /\ inflight' = <<>> /\ futures' = {} /\ tombstones' = <<>> /\ marked' = {}
      /\ thread' = "closed" /\ UNCHANGED <<closing, loaded, seen, doomed>>
  BY DEF Closed
<1>6. queues' \in [Key -> Seq(Segment)] /\ \A k \in Key : queues'[k] = <<>>
  BY <1>5 DEF NoQueues
<1>7. Queued' = {} /\ Waiting' = {} /\ Inflight' = {} /\ Pendings' = {}
  <2>1. QueuedFacts'
    BY <1>6, QueuedNext
  <2>2. Queued' = {}
    BY <1>6, <2>1, ItemLemma DEF QueuedFacts
  <2> QED BY <1>4, <1>5, <1>6, <2>2, EmptyBatch DEF Waiting, Inflight, Pendings, ToSet
<1>8. \A x : ~Contains(<<>>, x)
  BY DEF Contains
<1>9. RotationShape' /\ QueueMatch'
  BY <1>5, <1>6, <1>8, KeyLemma DEF RotationShape, QueueMatch, NoDuplicates, Contains
<1>10. ThreadOK' /\ DoomedOK' /\ BatchNotEmpty'
  BY <1>2, <1>4, <1>5, <1>7 DEF ThreadOK, DoomedOK, BatchNotEmpty
<1>11. \A k \in Key : NoDuplicates(queues'[k])
  BY <1>6, EmptyBatch
<1>12. tombstones' \in Seq(Key) /\ Len(tombstones') <= MaxTombstones
  BY <1>5, DispatcherAssumption
<1>13. Parts'
  BY <1>1, <1>4, <1>5, <1>6, <1>7, <1>9, <1>10, <1>11, <1>12, EmptyBatch DEF Parts, NoDuplicates, KeepsLimits
<1> QED BY <1>13, InvPartsNext

\* Every step keeps the invariant.
LEMMA NextInv == IInv /\ [Next]_vars => IInv'
<1> SUFFICES ASSUME IInv, [Next]_vars PROVE IInv'
  OBVIOUS
<1>1. CASE SomeSubmit
  BY <1>1, SubmitInv, SubmitCancelledInv DEF SomeSubmit
<1>2. CASE \E key \in Key : Cancel(key)
  BY <1>2, CancelInv
<1>3. CASE Close
  BY <1>3, CloseInv
<1>4. CASE TakeBatch
  BY <1>4, TakeBatchInv
<1>5. CASE Finish
  BY <1>5, FinishInv
<1>6. CASE Terminate
  BY <1>6, TerminateInv
<1>7. CASE Exit
  BY <1>7, ExitInv
<1>8. CASE Closed
  BY <1>8, ClosedInv
<1>9. CASE UNCHANGED vars
  <2>1. Parts
    BY InvFacts
  <2>2. /\ UNCHANGED <<queues, rotation, order, inflight, futures, tombstones, marked, thread, closing,
                       loaded, seen, doomed>>
        /\ Queued' = Queued /\ Inflight' = Inflight /\ Waiting' = Waiting /\ Pendings' = Pendings
    BY <1>9 DEF vars, Queued, Inflight, Waiting, Pendings
  <2>3. RotationShape' /\ QueueMatch' /\ ThreadOK' /\ DoomedOK' /\ BatchNotEmpty'
    BY <2>1, <2>2 DEF Parts, RotationShape, QueueMatch, ThreadOK, DoomedOK, BatchNotEmpty
  <2>4. Parts'
    BY <2>1, <2>2, <2>3 DEF Parts
  <2> QED BY <2>4, InvPartsNext
<1> QED BY <1>1, <1>2, <1>3, <1>4, <1>5, <1>6, <1>7, <1>8, <1>9 DEF Next, ThreadStep

LEMMA Invariance == SafetySpec => []IInv
<1> QED BY InitInv, NextInv, PTL DEF SafetySpec

-----------------------------------------------------------------------------
(* The theorems.                                                           *)

\* The variables of the dispatcher keep their types; the table of tombstones
\* keeps to its bound whatever is cancelled or closed.
THEOREM DispatcherTypeOK == SafetySpec => []TypeOK
<1>1. IInv => TypeOK
  BY DEF IInv
<1> QED BY <1>1, Invariance, PTL

\* Every future is in one queue or in the running batch, exactly once, however
\* submissions, cancels, close, failures and batches interleave.
THEOREM DispatcherFuturesAccounted == SafetySpec => []FuturesAccounted
<1>1. IInv => FuturesAccounted
  BY DEF IInv
<1> QED BY <1>1, Invariance, PTL

\* _workflow_attempts and _workflow_order hold exactly the attempts that have a
\* queue, so no queued work is lost to the planner.
THEOREM DispatcherRotationFindsWork == SafetySpec => []RotationFindsWork
<1>1. IInv => RotationFindsWork
  BY DEF IInv
<1> QED BY <1>1, Invariance, PTL

\* What _plan_locked plans keeps to the budgets, the length bucket and the
\* number of workflows, for every duration and every state of the queues.
THEOREM DispatcherBatchWithinLimits == SafetySpec => []BatchWithinLimits
<1>1. IInv => BatchWithinLimits
  BY DEF IInv
<1> QED BY <1>1, Invariance, PTL

\* A plan is never empty: the thread does not spin on batches of nothing, and
\* every batch that runs answers somebody.
THEOREM DispatcherBatchNotEmpty == SafetySpec => []BatchNotEmpty
<1>1. IInv => BatchNotEmpty
  BY DEF IInv
<1> QED BY <1>1, Invariance, PTL

\* A caller that was cancelled or closed while it waited never gets a result.
THEOREM DispatcherNoResultAfterCancel == SafetySpec => NoResultAfterCancel
<1>1. ASSUME IInv, [Next]_vars PROVE [\A i \in doomed : seen'[i] # "idle"]_vars
  <2> SUFFICES ASSUME NEW i \in doomed, Next PROVE seen'[i] # "idle"
    BY <1>1
  <2>1. Parts /\ QueuedFacts
    BY <1>1, InvFacts
  <2>2. i \in Inflight /\ i \in Item /\ seen[i] = "pending" /\ i \in futures /\ i \notin Queued
        /\ (i \in marked \/ closing)
    BY <2>1 DEF Parts, DoomedOK, Pendings
  <2>3. ASSUME NEW key \in Key, NEW chunk, Submit(key, chunk) \/ SubmitCancelled(key, chunk)
        PROVE  seen'[i] # "idle"
    BY <2>2, <2>3 DEF Submit, SubmitCancelled, Await
  <2>4. ASSUME NEW outcome, NEW newly, Resolve(outcome, newly),
               i \in DOMAIN outcome => outcome[i] # "idle"
        PROVE  seen'[i] # "idle"
    BY <2>2, <2>4 DEF Resolve
  <2>5. ASSUME NEW key \in Key, Cancel(key) PROVE seen'[i] # "idle"
    <3>1. Resolve([j \in ItemsOf(key) |-> "cancelled"], {j \in futures : KeyOf(j) = key})
      BY <2>5 DEF Cancel
    <3> QED BY <2>4, <3>1
  <2>6. ASSUME Close PROVE seen'[i] # "idle"
    <3>1. Resolve([j \in Queued |-> "discarded"], futures)
      BY <2>6 DEF Close
    <3> QED BY <2>4, <3>1
  <2>7. ASSUME Finish PROVE seen'[i] # "idle"
    <3> DEFINE outcome == [j \in Inflight |-> IF Discarded(j) THEN "cancelled" ELSE "idle"]
    <3>1. Resolve(outcome, {})
      BY <2>7 DEF Finish
    <3>2. Discarded(i)
      BY <2>2 DEF Discarded
    <3>3. i \in DOMAIN outcome => outcome[i] # "idle"
      BY <3>2
    <3> QED BY <2>4, <3>1, <3>3
  <2>8. ASSUME Terminate PROVE seen'[i] # "idle"
    <3> DEFINE outcome == [j \in Queued \cup Inflight |->
                  IF j \in Inflight /\ Contains(tombstones, KeyOf(j)) THEN "cancelled" ELSE "discarded"]
    <3>1. Resolve(outcome, {})
      BY <2>8 DEF Terminate
    <3>2. i \in DOMAIN outcome => outcome[i] # "idle"
      OBVIOUS
    <3> QED BY <2>4, <3>1, <3>2
  <2>9. ASSUME TakeBatch \/ Exit \/ Closed PROVE seen'[i] # "idle"
    BY <2>2, <2>9 DEF TakeBatch, Exit, Closed
  <2> QED BY <2>3, <2>5, <2>6, <2>7, <2>8, <2>9 DEF Next, SomeSubmit, ThreadStep
<1> QED BY <1>1, Invariance, PTL DEF NoResultAfterCancel, SafetySpec

-----------------------------------------------------------------------------
(* The dispatcher implements BatchService.  On top of IInv the refinement  *)
(* needs ServInv: a batch never overtakes, and a request that _finish      *)
(* would discard was indeed given up.                                      *)

\* The queue of every attempt is in the order of its segments.
QueuesSorted ==
  \A key \in Key : \A m, n \in DOMAIN queues[key] : m < n => queues[key][m] < queues[key][n]

\* Whoever waits with a place before a running request of its attempt runs too.
NobodyOvertaken ==
  \A i, j \in Pendings :
    KeyOf(i) = KeyOf(j) /\ i.seg < j.seg /\ j \in Inflight => i \in Inflight

\* A tombstone, a mark or the close denies a running request its result only
\* if the attempt was cancelled, or the dispatcher closed, while it waited.
DeniedOnlyDoomed == \A i \in Inflight : Discarded(i) => i \in doomed

ServInv == QueuesSorted /\ NobodyOvertaken /\ DeniedOnlyDoomed

LEMMA PartsOf == IInv => Parts /\ QueuedFacts
BY InvFacts

LEMMA PartsNext == IInv' => Parts' /\ QueuedFacts'
BY PartsOf, PTL

\* The names of the service, in the terms of the dispatcher.
LEMMA ServiceNames ==
  /\ Service!Pending = Pendings
  /\ \A key : Service!Of(key) = {i \in Item : KeyOf(i) = key}
BY DEF Service!Pending, Service!Of, Pendings

\* A step that changes nothing the service has is a step of it.
ServiceStutters == UNCHANGED <<seen, Inflight, doomed, closing, loaded>>

LEMMA StutterLemma == ServiceStutters => [Service!Next]_(Service!vars)
BY DEF ServiceStutters, Service!vars

-----------------------------------------------------------------------------
(* The batches. *)

\* What a sequence without repetition holds, as a batch of the service.
LEMMA MayRunLemma ==
  ASSUME NEW b \in Seq(Item), NoDuplicates(b), KeepsLimits(b)
  PROVE  ToSet(b) \in MayRun
<1>1. Len(b) \in 0 .. TargetBatch
  BY DispatcherAssumption DEF KeepsLimits
<1>2. b \in [1 .. Len(b) -> Item]
  OBVIOUS
<1>3. b \in BoundedSeq(Item, TargetBatch)
  BY <1>1, <1>2 DEF BoundedSeq, SeqOf
<1> QED BY <1>3 DEF MayRun

\* A chunk is in the order of the segments.
LEMMA ChunkSorted ==
  ASSUME NEW chunk \in Chunks
  PROVE  \A m, n \in DOMAIN chunk : m < n => chunk[m] < chunk[n]
<1>1. PICK lo \in Segment, hi \in Segment : chunk = Consecutive(lo, hi)
  BY DEF Chunks
<1>2. lo \in Int /\ hi \in Int
  BY DispatcherAssumption DEF Segment
<1> QED BY <1>1, <1>2 DEF Consecutive

\* Queues that keep their entries, or lose all, stay sorted.
LEMMA StillSorted ==
  ASSUME QueuesSorted, \A key \in Key : queues'[key] = queues[key] \/ queues'[key] = <<>>
  PROVE  QueuesSorted'
<1> SUFFICES ASSUME NEW key \in Key, NEW m \in DOMAIN queues'[key], NEW n \in DOMAIN queues'[key], m < n
             PROVE  queues'[key][m] < queues'[key][n]
  BY DEF QueuesSorted
<1>1. queues'[key] = queues[key]
  OBVIOUS
<1> QED BY <1>1 DEF QueuesSorted

\* Nobody is overtaken by a batch that does not grow, when nobody new waits.
LEMMA StillInOrder ==
  ASSUME NobodyOvertaken, Inflight' = Inflight, Pendings' \subseteq Pendings
  PROVE  NobodyOvertaken'
BY DEF NobodyOvertaken, KeyOf

\* Nothing runs: nobody is overtaken and nobody denied.
LEMMA NothingRuns == Inflight = {} => NobodyOvertaken /\ DeniedOnlyDoomed
BY DEF NobodyOvertaken, DeniedOnlyDoomed

LEMMA NothingRunsNext == (Inflight = {})' => (NobodyOvertaken /\ DeniedOnlyDoomed)'
BY NothingRuns, PTL

-----------------------------------------------------------------------------
(* One lemma per action: it keeps ServInv, and is a step of the service.   *)

LEMMA InitService == Init => ServInv /\ Service!Init
<1> SUFFICES ASSUME Init PROVE ServInv /\ Service!Init
  OBVIOUS
<1>1. Inflight = {}
  BY EmptyBatch DEF Init, Inflight
<1>2. QueuesSorted
  BY DEF Init, NoQueues, QueuesSorted
<1>3. Service!Init
  BY <1>1 DEF Init, Service!Init
<1> QED BY <1>1, <1>2, <1>3, NothingRuns DEF ServInv

\* The new requests are those of a caller that waited for none.
LEMMA SubmitServes ==
  ASSUME IInv, IInv', ServInv, NEW key \in Key, NEW chunk \in Chunks, Submit(key, chunk)
  PROVE  ServInv' /\ Service!Next
<1> DEFINE new == {i \in Item : KeyOf(i) = key /\ Contains(chunk, i.seg)}
<1>1. Parts /\ QueuedFacts
  BY PartsOf
<1>2. chunk \in Seq(Segment) /\ chunk # <<>>
  BY ChunkLemma
<1>3. \A i \in Item : KeyOf(i) = key => seen[i] = "idle"
  BY ItemLemma DEF Submit, MaySubmit
<1>4. /\ UNCHANGED <<inflight, tombstones, marked, closing, loaded, doomed>>
      /\ Inflight' = Inflight
  BY DEF Submit, Inflight
<1>5. seen' = [i \in Item |-> IF i \in new THEN "pending" ELSE seen[i]]
  BY DEF Submit, Await
<1>6. QueuesSorted'
  <2>1. queues[key] = <<>>
    BY <1>1, <1>3 DEF QueuedFacts, Parts, Pendings
  <2>2. <<>> \o chunk = chunk
    BY <1>2
  <2>3. queues' = [queues EXCEPT ![key] = @ \o chunk]
    BY DEF Submit
  <2>4. \A k \in Key : queues'[k] = IF k = key THEN chunk ELSE queues[k]
    BY <1>1, <2>1, <2>2, <2>3 DEF Parts
  <2>5. ASSUME NEW k \in Key, NEW m \in DOMAIN queues'[k], NEW n \in DOMAIN queues'[k], m < n
        PROVE  queues'[k][m] < queues'[k][n]
    <3>1. CASE k = key
      BY <2>4, <2>5, <3>1, ChunkSorted
    <3>2. CASE k # key
      BY <2>4, <2>5, <3>2 DEF ServInv, QueuesSorted
    <3> QED BY <3>1, <3>2
  <2> QED BY <2>5 DEF QueuesSorted
<1>7. NobodyOvertaken'
  <2>1. \A j \in Inflight : j \in Item /\ KeyOf(j) # key
    BY <1>1, <1>3 DEF Parts, Pendings
  <2>2. \A i \in Item : KeyOf(i) # key /\ i \in Pendings' => i \in Pendings
    BY <1>5 DEF Pendings
  <2>3. Inflight \subseteq Pendings
    BY <1>1 DEF Parts
  <2>4. \A i, j \in Pendings' :
          KeyOf(i) = KeyOf(j) /\ i.seg < j.seg /\ j \in Inflight => i \in Inflight
    BY <2>1, <2>2, <2>3 DEF ServInv, NobodyOvertaken, Pendings
  <2> QED BY <1>4, <2>4 DEF NobodyOvertaken, KeyOf
<1>8. DeniedOnlyDoomed'
  BY <1>4 DEF ServInv, DeniedOnlyDoomed, Discarded, KeyOf
<1>9. Service!Ask(key, new, "pending")
  <2>1. new # {}
    <3>1. PICK seg \in Segment : Contains(chunk, seg)
      BY <1>2, ContainsLemma
    <3> QED BY <3>1, ItemLemma
  <2>2. ~closing
    BY DEF Submit, MaySubmit
  <2> HIDE DEF new
  <2> QED BY <1>3, <1>4, <1>5, <2>1, <2>2, ServiceNames DEF Service!Ask, Service!Tell
<1>10. new \in SUBSET Service!Of(key)
  BY ServiceNames
<1> HIDE DEF new
<1> QED BY <1>6, <1>7, <1>8, <1>9, <1>10 DEF ServInv, Service!Next

\* A caller that is turned away never waited.
LEMMA SubmitCancelledServes ==
  ASSUME IInv, IInv', ServInv, NEW key \in Key, NEW chunk \in Chunks, SubmitCancelled(key, chunk)
  PROVE  ServInv' /\ Service!Next
<1> DEFINE new == {i \in Item : KeyOf(i) = key /\ Contains(chunk, i.seg)}
<1>1. chunk \in Seq(Segment) /\ chunk # <<>>
  BY ChunkLemma
<1>2. \A i \in Item : KeyOf(i) = key => seen[i] = "idle"
  BY ItemLemma DEF SubmitCancelled, MaySubmit
<1>3. /\ UNCHANGED <<queues, inflight, tombstones, marked, closing, loaded, doomed>>
      /\ Inflight' = Inflight
  BY DEF SubmitCancelled, lists, Inflight
<1>4. seen' = [i \in Item |-> IF i \in new THEN "cancelled" ELSE seen[i]]
  BY DEF SubmitCancelled, Await
<1>5. QueuesSorted' /\ DeniedOnlyDoomed'
  BY <1>3 DEF ServInv, QueuesSorted, DeniedOnlyDoomed, Discarded
<1>6. NobodyOvertaken'
  <2>1. Pendings' \subseteq Pendings
    BY <1>4 DEF Pendings
  <2> QED BY <1>3, <2>1, StillInOrder DEF ServInv
<1>7. Service!Ask(key, new, "cancelled")
  <2>1. new # {}
    <3>1. PICK seg \in Segment : Contains(chunk, seg)
      BY <1>1, ContainsLemma
    <3> QED BY <3>1, ItemLemma
  <2>2. ~closing
    BY DEF SubmitCancelled, MaySubmit
  <2> HIDE DEF new
  <2> QED BY <1>2, <1>3, <1>4, <2>1, <2>2, ServiceNames DEF Service!Ask, Service!Tell
<1>8. new \in SUBSET Service!Of(key)
  BY ServiceNames
<1> HIDE DEF new
<1> QED BY <1>5, <1>6, <1>7, <1>8 DEF ServInv, Service!Next

\* The requests of an attempt that is cancelled are those that wait in its
\* queue, answered at once, and those that run, which are doomed.
LEMMA CancelServes ==
  ASSUME IInv, IInv', ServInv, NEW key \in Key, Cancel(key)
  PROVE  ServInv' /\ Service!Next
<1> DEFINE outcome == [i \in ItemsOf(key) |-> "cancelled"]
           newly == {i \in futures : KeyOf(i) = key}
           mine == Pendings \cap {i \in Item : KeyOf(i) = key}
<1>1. Parts /\ QueuedFacts
  BY PartsOf
<1>2. Inflight \subseteq Item /\ doomed \subseteq Inflight
  BY <1>1 DEF Parts, DoomedOK
<1>3. ItemsOf(key) = mine \ Inflight /\ newly = mine
  BY <1>1, <1>2 DEF QueuedFacts, Parts
<1>4. /\ UNCHANGED <<inflight, closing, loaded>> /\ Inflight' = Inflight
      /\ marked' = marked \cup {i \in Inflight : KeyOf(i) = key}
      /\ tombstones' = Remember(key)
      /\ queues' = [queues EXCEPT ![key] = <<>>]
      /\ Resolve(outcome, newly)
  BY DEF Cancel, Inflight
<1>5. DOMAIN outcome = ItemsOf(key) /\ \A i \in DOMAIN outcome : outcome[i] = "cancelled"
  OBVIOUS
<1> HIDE DEF outcome, newly
<1>6. /\ \A i \in Item : seen'[i] = IF i \in ItemsOf(key) THEN outcome[i] ELSE seen[i]
      /\ seen' \in [Item -> Known]
      /\ doomed' = (doomed \cup newly) \ ItemsOf(key)
  <2>1. ItemsOf(key) \subseteq futures /\ newly \subseteq futures /\ doomed \subseteq Item
    BY <1>1, <1>2, <1>3 DEF Parts
  <2>2. \A i \in DOMAIN outcome : outcome[i] \in Known \ {"pending"}
    BY <1>5 DEF Known
  <2> QED BY <1>1, <1>4, <1>5, <2>1, <2>2, ResolveLemma DEF Parts
<1>7. doomed' = doomed \cup (mine \cap Inflight)
  BY <1>2, <1>3, <1>6
<1>8. QueuesSorted'
  <2>1. \A k \in Key : queues'[k] = queues[k] \/ queues'[k] = <<>>
    BY <1>1, <1>4 DEF Parts
  <2> QED BY <2>1, StillSorted DEF ServInv
<1>9. NobodyOvertaken'
  <2>1. Pendings' \subseteq Pendings
    BY <1>5, <1>6 DEF Pendings
  <2> QED BY <1>4, <2>1, StillInOrder DEF ServInv
<1>10. DeniedOnlyDoomed'
  <2>1. \A k : Contains(tombstones', k) => Contains(tombstones, k) \/ k = key
    BY <1>1, <1>4, RememberLemma DEF Parts
  <2>2. ASSUME NEW i \in Inflight,
               Contains(tombstones', KeyOf(i)) \/ i \in marked' \/ closing'
        PROVE  i \in doomed'
    <3>1. CASE KeyOf(i) = key
      <4>1. i \in mine
        BY <1>1, <1>2, <3>1 DEF Parts
      <4> QED BY <1>7, <4>1
    <3>2. CASE KeyOf(i) # key
      <4>1. Discarded(i)
        BY <1>4, <2>1, <2>2, <3>2 DEF Discarded
      <4> QED BY <1>7, <4>1 DEF ServInv, DeniedOnlyDoomed
    <3> QED BY <3>1, <3>2
  <2> QED BY <1>4, <2>2 DEF DeniedOnlyDoomed, Discarded, KeyOf
<1>11. Service!Cancel(key)
  <2>1. seen' = [i \in Item |-> IF i \in mine \ Inflight THEN "cancelled" ELSE seen[i]]
    BY <1>3, <1>5, <1>6
  <2> QED BY <1>4, <1>7, <2>1, ServiceNames DEF Service!Cancel, Service!GiveUp, Service!Tell
<1> QED BY <1>8, <1>9, <1>10, <1>11 DEF ServInv, Service!Next

\* A close gives up everyone who waits.
LEMMA CloseServes ==
  ASSUME IInv, IInv', ServInv, Close
  PROVE  ServInv' /\ Service!Next
<1> DEFINE outcome == [i \in Queued |-> "discarded"]
<1>1. Parts /\ QueuedFacts
  BY PartsOf
<1>2. Inflight \subseteq Pendings /\ doomed \subseteq Inflight /\ Queued = Pendings \ Inflight
  BY <1>1 DEF Parts, DoomedOK
<1>3. /\ UNCHANGED <<inflight, loaded>> /\ Inflight' = Inflight
      /\ ~closing /\ closing' = TRUE
      /\ queues' = NoQueues
      /\ Resolve(outcome, futures)
  BY DEF Close, Inflight
<1>4. DOMAIN outcome = Queued /\ \A i \in DOMAIN outcome : outcome[i] = "discarded"
  OBVIOUS
<1> HIDE DEF outcome
<1>5. /\ \A i \in Item : seen'[i] = IF i \in Queued THEN outcome[i] ELSE seen[i]
      /\ seen' \in [Item -> Known]
      /\ doomed' = (doomed \cup futures) \ Queued
  <2>1. Queued \subseteq futures /\ futures \subseteq futures /\ doomed \subseteq Item
    BY <1>1, <1>2 DEF Parts, Pendings
  <2>2. \A i \in DOMAIN outcome : outcome[i] \in Known \ {"pending"}
    BY <1>4 DEF Known
  <2> QED BY <1>1, <1>3, <1>4, <2>1, <2>2, ResolveLemma DEF Parts
<1>6. doomed' = Inflight
  BY <1>1, <1>2, <1>5 DEF Parts
<1>7. QueuesSorted'
  <2>1. \A k \in Key : queues'[k] = queues[k] \/ queues'[k] = <<>>
    BY <1>3 DEF NoQueues
  <2> QED BY <2>1, StillSorted DEF ServInv
<1>8. NobodyOvertaken'
  <2>1. Pendings' \subseteq Pendings
    BY <1>4, <1>5 DEF Pendings
  <2> QED BY <1>3, <2>1, StillInOrder DEF ServInv
<1>9. DeniedOnlyDoomed'
  BY <1>3, <1>6 DEF DeniedOnlyDoomed
<1>10. Service!Close
  <2>1. seen' = [i \in Item |-> IF i \in Pendings \ Inflight THEN "discarded" ELSE seen[i]]
    BY <1>2, <1>4, <1>5
  <2>2. doomed' = doomed \cup (Pendings \cap Inflight)
    BY <1>2, <1>6
  <2> QED BY <1>3, <2>1, <2>2, ServiceNames DEF Service!Close, Service!GiveUp, Service!Tell
<1> QED BY <1>7, <1>8, <1>9, <1>10 DEF ServInv, Service!Next

\* What a batch takes is the front of every queue, so nobody is overtaken.
LEMMA FrontsInOrder ==
  ASSUME Parts, QueuedFacts, QueuesSorted, NEW b, Fronts(b),
         NEW i \in Queued, NEW j \in ToSet(b), KeyOf(i) = KeyOf(j), i.seg < j.seg
  PROVE  i \in ToSet(b)
<1> DEFINE key == KeyOf(i)
           q == queues[key]
<1>1. b \in Seq(Item) /\ i \in Item /\ j \in Item
  BY DEF Fronts, ToSet, Queued
<1>2. key \in Key /\ i = ItemOf(key, i.seg) /\ i.seg \in Segment /\ j.seg \in Segment
  BY <1>1, ItemLemma
<1>3. q \in Seq(Segment) /\ DOMAIN q = 1 .. Len(q) /\ Len(q) \in Nat
  BY <1>2 DEF Parts
<1>4. Offset(b, key) \in Nat /\ Offset(b, key) <= Len(q)
  BY <1>1, <1>2, OffsetLemma DEF Fronts
<1>5. PICK m \in 1 .. Offset(b, key) : j.seg = q[m]
  BY DEF Fronts, ToSet
<1>6. PICK n \in DOMAIN q : q[n] = i.seg
  BY <1>1 DEF QueuedFacts, Contains
<1>7. m \in DOMAIN q
  BY <1>3, <1>4
<1>8. q[n] < q[m]
  BY <1>5, <1>6
<1>9. q[n] \in Int /\ q[m] \in Int
  BY <1>2, <1>5, <1>6, DispatcherAssumption DEF Segment
<1>10. ~(m < n) /\ m # n
  BY <1>2, <1>6, <1>7, <1>8, <1>9 DEF QueuesSorted
<1>11. n \in 1 .. Offset(b, key)
  BY <1>3, <1>4, <1>6, <1>10
<1>12. PICK k \in DOMAIN b : b[k] = ItemOf(key, q[n])
  BY <1>2, <1>11 DEF Fronts
<1>13. b[k] = i
  BY <1>2, <1>6, <1>12
<1> QED BY <1>13 DEF ToSet

\* A batch begins, of requests that nobody gave up, and not after a close.
LEMMA TakeBatchServes ==
  ASSUME IInv, IInv', ServInv, TakeBatch
  PROVE  ServInv' /\ Service!Next
<1>1. Parts /\ QueuedFacts /\ QueuesOK /\ RotationOK
  BY InvFacts
<1>2. PICK b : b = Plan /\ Take(b) /\ inflight' = b
  BY DEF TakeBatch
<1>3. Fronts(b) /\ KeepsLimits(b) /\ b # <<>>
  BY <1>1, <1>2, PlanLemma DEF TakeBatch
<1>4. Inflight = {} /\ marked = {} /\ Queued = Pendings
  <2>1. inflight = <<>>
    BY <1>1 DEF Parts, ThreadOK, TakeBatch
  <2>2. Inflight = {}
    BY <2>1, EmptyBatch DEF Inflight
  <2> QED BY <1>1, <2>2 DEF Parts
<1>5. ~closing
  <2>1. PICK w \in Workflow : Contains(order, w)
    BY <1>1, ContainsLemma DEF TakeBatch, Parts, RotationShape
  <2>2. PICK a \in AttemptOf(w) : Contains(rotation[w], a)
    BY <1>1, <2>1, ContainsLemma DEF Parts, RotationShape
  <2>3. <<w, a>> \in Waiting
    BY <1>1, <2>2, KeyLemma DEF Parts, QueueMatch, Waiting
  <2> QED BY <1>1, <2>3 DEF Parts, ThreadOK
<1>6. Inflight' = ToSet(b)
  BY <1>2 DEF Inflight, ToSet
<1>7. /\ UNCHANGED <<tombstones, marked, closing, loaded, seen, doomed>>
      /\ Pendings' = Pendings
  BY DEF TakeBatch, Pendings
<1>8. ToSet(b) \subseteq Queued /\ ToSet(b) # {}
  <2>1. ToSet(b) \subseteq Queued
    BY <1>1, <1>2, <1>3, TakenQueues
  <2>2. b \in Seq(Item) /\ 1 \in DOMAIN b
    BY <1>3 DEF Fronts
  <2> QED BY <2>1, <2>2 DEF ToSet
<1>9. \A j \in ToSet(b), i \in Pendings : KeyOf(i) = KeyOf(j) /\ i.seg < j.seg => i \in ToSet(b)
  BY <1>1, <1>3, <1>4, FrontsInOrder DEF ServInv
<1>10. QueuesSorted'
  <2> SUFFICES ASSUME NEW k \in Key, NEW m \in DOMAIN queues'[k], NEW n \in DOMAIN queues'[k], m < n
               PROVE  queues'[k][m] < queues'[k][n]
    BY DEF QueuesSorted
  <2> DEFINE q == queues[k]
             off == Offset(b, k)
  <2>1. q \in Seq(Segment) /\ DOMAIN q = 1 .. Len(q) /\ Len(q) \in Nat
    BY <1>1 DEF Parts
  <2>2. off \in Nat /\ off <= Len(q)
    BY <1>3, OffsetLemma DEF Fronts
  <2>3. queues'[k] = SubSeq(q, off + 1, Len(q))
    BY <1>2 DEF Take
  <2> HIDE DEF q, off
  <2>4. /\ DOMAIN queues'[k] = 1 .. Len(q) - off
        /\ \A l \in 1 .. Len(q) - off : queues'[k][l] = q[off + l]
    BY <2>1, <2>2, <2>3
  <2>5. off + m \in DOMAIN q /\ off + n \in DOMAIN q /\ off + m < off + n
    BY <2>1, <2>2, <2>4
  <2> QED BY <2>4, <2>5 DEF ServInv, QueuesSorted, q
<1>11. NobodyOvertaken'
  BY <1>6, <1>7, <1>9 DEF NobodyOvertaken, KeyOf
<1>12. DeniedOnlyDoomed'
  <2>1. \A i \in ToSet(b) : i \in Item /\ KeyOf(i) \in Waiting
    BY <1>1, <1>8, ItemLemma DEF QueuedFacts, Waiting
  <2>2. \A i \in ToSet(b) : ~Discarded(i)
    BY <1>1, <1>4, <1>5, <2>1 DEF Parts, Discarded
  <2> QED BY <1>6, <1>7, <2>2 DEF DeniedOnlyDoomed, Discarded
<1>13. Service!Start
  <2>1. ToSet(b) \in MayRun
    BY <1>3, MayRunLemma DEF Fronts
  <2>2. \A r \in ToSet(b), q \in Pendings :
          /\ r \in Item /\ q \in Item
          /\ KeyOf(q) = KeyOf(r) /\ q.seg < r.seg => q \in ToSet(b)
    BY <1>4, <1>8, <1>9 DEF Pendings
  <2> QED BY <1>4, <1>5, <1>6, <1>7, <1>8, <2>1, <2>2, ServiceNames DEF Service!Start
<1> QED BY <1>10, <1>11, <1>12, <1>13 DEF ServInv, Service!Next

\* A batch ends: a running request is denied its result exactly if it was
\* given up.
LEMMA FinishServes ==
  ASSUME IInv, IInv', ServInv, Finish
  PROVE  ServInv' /\ Service!Next
<1> DEFINE outcome == [i \in Inflight |-> IF Discarded(i) THEN "cancelled" ELSE "idle"]
<1>1. Parts
  BY PartsOf
<1>2. /\ DOMAIN outcome = Inflight
      /\ \A i \in Inflight : outcome[i] = IF Discarded(i) THEN "cancelled" ELSE "idle"
      /\ Resolve(outcome, {})
  BY DEF Finish
<1> HIDE DEF outcome
<1>3. /\ inflight' = <<>> /\ loaded' = TRUE /\ Inflight' = {}
      /\ UNCHANGED <<queues, closing>>
  BY EmptyBatch DEF Finish, lists, Inflight, ToSet
<1>4. /\ \A i \in Item : seen'[i] = IF i \in Inflight THEN outcome[i] ELSE seen[i]
      /\ seen' \in [Item -> Known]
      /\ doomed' = (doomed \cup {}) \ Inflight
  <2>1. Inflight \subseteq futures /\ {} \subseteq futures /\ doomed \subseteq Item
    BY <1>1 DEF Parts, DoomedOK
  <2>2. \A i \in DOMAIN outcome : outcome[i] \in Known \ {"pending"}
    BY <1>2 DEF Known
  <2> QED BY <1>1, <1>2, <2>1, <2>2, ResolveLemma DEF Parts
<1>5. \A i \in Inflight : Discarded(i) <=> i \in doomed
  BY <1>1 DEF ServInv, DeniedOnlyDoomed, Parts, DoomedOK, Discarded
<1>6. seen' = [i \in Item |-> IF i \notin Inflight THEN seen[i]
                              ELSE IF i \in doomed THEN "cancelled" ELSE "idle"]
  BY <1>2, <1>4, <1>5
<1>7. doomed' = {} /\ Inflight # {}
  <2>1. inflight # <<>> /\ inflight \in Seq(Item)
    BY <1>1 DEF Parts, BatchNotEmpty, Finish
  <2>2. 1 \in DOMAIN inflight
    BY <2>1
  <2>3. Inflight # {}
    BY <2>2 DEF Inflight, ToSet
  <2>4. doomed \subseteq Inflight
    BY <1>1 DEF Parts, DoomedOK
  <2> QED BY <1>4, <2>3, <2>4
<1>8. Service!Serve
  BY <1>3, <1>6, <1>7 DEF Service!Serve
<1>9. QueuesSorted'
  BY <1>3 DEF ServInv, QueuesSorted
<1> QED BY <1>3, <1>8, <1>9, NothingRunsNext DEF ServInv, Service!Next

\* A model that does not load: everyone who waits is answered.
LEMMA TerminateServes ==
  ASSUME IInv, IInv', ServInv, Terminate
  PROVE  ServInv' /\ Service!Next
<1> DEFINE blamed == {i \in Inflight : Contains(tombstones, KeyOf(i))}
           outcome == [i \in Queued \cup Inflight |->
                         IF i \in Inflight /\ Contains(tombstones, KeyOf(i)) THEN "cancelled" ELSE "discarded"]
<1>1. Parts
  BY PartsOf
<1>2. /\ DOMAIN outcome = Pendings
      /\ \A i \in Pendings : outcome[i] = IF i \in blamed THEN "cancelled" ELSE "discarded"
      /\ Resolve(outcome, {})
  BY <1>1 DEF Terminate, Parts
<1>3. blamed \in SUBSET doomed
  BY DEF ServInv, DeniedOnlyDoomed, Discarded
<1> HIDE DEF outcome, blamed
<1>4. /\ inflight' = <<>> /\ closing' = TRUE /\ Inflight' = {}
      /\ ~loaded /\ loaded' = loaded /\ queues' = NoQueues
  BY EmptyBatch DEF Terminate, Inflight, ToSet
<1>5. /\ \A i \in Item : seen'[i] = IF i \in Pendings THEN outcome[i] ELSE seen[i]
      /\ seen' \in [Item -> Known]
      /\ doomed' = (doomed \cup {}) \ Pendings
  <2>1. Pendings \subseteq futures /\ {} \subseteq futures /\ doomed \subseteq Item
    BY <1>1 DEF Parts, DoomedOK
  <2>2. \A i \in DOMAIN outcome : outcome[i] \in Known \ {"pending"}
    BY <1>2 DEF Known
  <2> QED BY <1>1, <1>2, <2>1, <2>2, ResolveLemma DEF Parts
<1>6. seen' = [i \in Item |-> IF i \in blamed THEN "cancelled"
                              ELSE IF i \in Pendings THEN "discarded" ELSE seen[i]]
  <2>1. doomed \subseteq Pendings
    BY <1>1 DEF Parts, DoomedOK
  <2> QED BY <1>2, <1>3, <1>5, <2>1
<1>7. doomed' = {} /\ Inflight # {}
  <2>1. inflight # <<>> /\ inflight \in Seq(Item)
    BY <1>1 DEF Parts, BatchNotEmpty, Terminate
  <2>2. 1 \in DOMAIN inflight
    BY <2>1
  <2>3. Inflight # {}
    BY <2>2 DEF Inflight, ToSet
  <2>4. doomed \subseteq Pendings
    BY <1>1 DEF Parts, DoomedOK
  <2> QED BY <1>5, <2>3, <2>4
<1>8. Service!Fail
  BY <1>3, <1>4, <1>6, <1>7, ServiceNames DEF Service!Fail
<1>9. QueuesSorted'
  <2>1. \A k \in Key : queues'[k] = queues[k] \/ queues'[k] = <<>>
    BY <1>4 DEF NoQueues
  <2> QED BY <2>1, StillSorted DEF ServInv
<1> QED BY <1>4, <1>8, <1>9, NothingRunsNext DEF ServInv, Service!Next

\* The thread that ends changes nothing a caller could see.
LEMMA ThreadEndServes ==
  ASSUME IInv, IInv', ServInv, Exit \/ Closed
  PROVE  ServInv' /\ ServiceStutters
<1>1. Parts
  BY PartsOf
<1>2. inflight = <<>> /\ inflight' = <<>>
  BY <1>1 DEF Parts, ThreadOK, Exit, Closed
<1>3. Inflight = {} /\ Inflight' = {}
  BY <1>2, EmptyBatch DEF Inflight, ToSet
<1>4. UNCHANGED <<seen, doomed, closing, loaded>>
  BY DEF Exit, Closed
<1>5. QueuesSorted'
  <2>1. \A k \in Key : queues'[k] = queues[k] \/ queues'[k] = <<>>
    BY DEF Exit, Closed, lists, NoQueues
  <2> QED BY <2>1, StillSorted DEF ServInv
<1> QED BY <1>3, <1>4, <1>5, NothingRunsNext DEF ServInv, ServiceStutters

LEMMA NextServes ==
  ASSUME IInv, IInv', ServInv, [Next]_vars
  PROVE  ServInv' /\ [Service!Next]_(Service!vars)
<1>1. CASE SomeSubmit
  BY <1>1, SubmitServes, SubmitCancelledServes DEF SomeSubmit
<1>2. CASE \E key \in Key : Cancel(key)
  BY <1>2, CancelServes
<1>3. CASE Close
  BY <1>3, CloseServes
<1>4. CASE TakeBatch
  BY <1>4, TakeBatchServes
<1>5. CASE Finish
  BY <1>5, FinishServes
<1>6. CASE Terminate
  BY <1>6, TerminateServes
<1>7. CASE Exit \/ Closed
  BY <1>7, ThreadEndServes, StutterLemma
<1>8. CASE UNCHANGED vars
  <2>1. ServiceStutters
    BY <1>8 DEF vars, ServiceStutters, Inflight
  <2>2. ServInv'
    BY <1>8 DEF vars, ServInv, QueuesSorted, NobodyOvertaken, DeniedOnlyDoomed, Pendings, Inflight,
                Discarded
  <2> QED BY <2>1, <2>2, StutterLemma
<1> QED BY <1>1, <1>2, <1>3, <1>4, <1>5, <1>6, <1>7, <1>8 DEF Next, ThreadStep

\* The dispatcher implements BatchService: queues, rotations, bounded
\* tombstones, marks and the thread amount to a service in which a request is
\* answered once, in the order of its attempt, and denied its result if and
\* only if it was cancelled or the dispatcher closed while it waited.
THEOREM DispatcherImplementsBatchService == SafetySpec => ImplementsBatchService
<1>1. SafetySpec => [](IInv /\ ServInv)
  <2>1. Init => IInv /\ ServInv
    BY InitInv, InitService
  <2>2. IInv /\ ServInv /\ [Next]_vars => (IInv /\ ServInv)'
    BY NextInv, NextServes
  <2> QED BY <2>1, <2>2, PTL DEF SafetySpec
<1>2. Init => Service!Init
  BY InitService
<1>3. IInv /\ IInv' /\ ServInv /\ [Next]_vars => [Service!Next]_(Service!vars)
  BY NextServes
<1> QED BY <1>1, <1>2, <1>3, PTL DEF SafetySpec, ImplementsBatchService, Service!Spec
=============================================================================
