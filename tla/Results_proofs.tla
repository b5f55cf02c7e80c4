--------------------------- MODULE Results_proofs ---------------------------
(***************************************************************************)
(* Proofs about what a run produces: that the planner's segments cover the *)
(* speech, that splitting a failing batch comes to an end, that no two     *)
(* requests of a summary are recorded under one key, and that the ledger   *)
(* never names an output that is not there.                                *)
(***************************************************************************)
EXTENDS TranscriptionJob, SummaryGenerator, ArtifactLedger, WellFoundedInduction, SequenceTheorems, FiniteSetTheorems, TLAPS

-----------------------------------------------------------------------------
(* Induction over the numbers, and the largest of finitely many of them.   *)

\* A set that contains 0 and the successor of each of its numbers contains
\* every natural number.
LEMMA SetInduction ==
  ASSUME NEW S, 0 \in S, \A n \in Nat : n \in S => n + 1 \in S
  PROVE  \A n \in Nat : n \in S
<1> DEFINE Rest == Nat \ S
<1> SUFFICES ASSUME Rest # {} PROVE FALSE
  OBVIOUS
<1>1. PICK x \in Rest : \A y \in Rest : ~(<<y, x>> \in OpToRel(<, Nat))
  BY NatLessThanWellFounded, WFMin
<1>2. \A y \in Rest : ~(y < x)
  BY <1>1 DEF OpToRel
<1>3. x \in Nat /\ x # 0
  OBVIOUS
<1>4. x - 1 \in Nat /\ x - 1 < x /\ (x - 1) + 1 = x
  BY <1>3
<1>5. x - 1 \in S
  BY <1>2, <1>4
<1> QED BY <1>3, <1>4, <1>5

LEMMA MaxLemma ==
  ASSUME NEW n \in Nat, NEW S \in SUBSET (0 .. n), S # {}
  PROVE  Max(S) \in S /\ \A y \in S : y <= Max(S)
<1> DEFINE HasMax(T) == \E x \in T : \A y \in T : x >= y
           Good == {k \in Nat : \A T \in SUBSET (0 .. k) : T # {} => HasMax(T)}
<1>1. 0 \in Good
  <2> SUFFICES ASSUME NEW T \in SUBSET (0 .. 0), T # {} PROVE HasMax(T)
    OBVIOUS
  <2>1. \A y \in T : y = 0
    OBVIOUS
  <2>2. PICK x \in T : TRUE
    OBVIOUS
  <2>3. \A y \in T : x >= y
    BY <2>1
  <2> QED BY <2>3
<1>2. ASSUME NEW k \in Nat, k \in Good PROVE k + 1 \in Good
  <2> SUFFICES ASSUME NEW T \in SUBSET (0 .. k + 1), T # {} PROVE HasMax(T)
    OBVIOUS
  <2>1. CASE k + 1 \in T
    BY <2>1
  <2>2. CASE k + 1 \notin T
    <3>1. T \in SUBSET (0 .. k)
      BY <2>2
    <3> QED BY <1>2, <3>1
  <2> QED BY <2>1, <2>2
<1>3. n \in Good
  <2> HIDE DEF Good
  <2> QED BY <1>1, <1>2, SetInduction
<1>4. HasMax(S)
  BY <1>3
<1> QED BY <1>4 DEF Max

-----------------------------------------------------------------------------
(* The artifact ledger.                                                    *)

\* The row and its counters, as far as the files depend on them.
LedgerShape ==
  /\ phase \in {"none", "copying", "transcribing", "summarizing", "final", "ended", "cancelled", "cleared"}
  /\ ledger \in Seq(Artifact) /\ unsaved \in Artifact \cup {Unmade}
  /\ files \in [ArtifactKinds \X (1 .. MaxFiles) -> 1 .. MaxFiles \cup {Unmade}]
  /\ staged \in BOOLEAN /\ made \in 0 .. MaxFiles /\ runs \in 0 .. MaxRuns
  /\ wanted \in Nat /\ input \in Nat

\* Everything that is named exists, and there are never more artifacts, nor
\* higher revisions, than files were made.
NamesExist ==
  /\ phase \in {"none", "cleared"} => unsaved = Unmade
  /\ phase = "none" => runs = 0
  /\ phase # "cleared" => wanted <= Len(ledger) /\ input <= Len(ledger)
  /\ phase \in {"summarizing", "final"} => input > 0
  /\ \A i \in DOMAIN ledger : /\ ledger[i].revision <= Len(ledger)
                              /\ ledger[i].inputs \subseteq 1 .. i - 1 /\ ledger[i].edits < i
  /\ Len(ledger) + (IF unsaved = Unmade THEN 0 ELSE 1) <= made
  /\ unsaved # Unmade => /\ unsaved.revision <= Len(ledger) + 1
                         /\ unsaved.inputs \subseteq 1 .. Len(ledger) /\ unsaved.edits <= Len(ledger)
                         /\ unsaved.kind = "checkpoint" => input > 0

\* The file of an artifact that is not committed yet is in place.
UnsavedInPlace == unsaved # Unmade => files[<<unsaved.kind, unsaved.revision>>] = unsaved.bytes

LedgerInv == LedgerShape /\ NamesExist /\ UnsavedInPlace /\ CommittedFilesIntact /\ StaleFollowsEdits

LEMMA LedgerInitInv == LedgerInit => LedgerInv
<1> SUFFICES ASSUME LedgerInit PROVE LedgerInv
  OBVIOUS
<1>1. MaxRuns \in Nat /\ MaxFiles \in Nat
  BY LedgerAssumption
<1>2. LedgerShape
  <2>1. files \in [ArtifactKinds \X (1 .. MaxFiles) -> 1 .. MaxFiles \cup {Unmade}]
    BY DEF LedgerInit
  <2>2. ledger \in Seq(Artifact)
    BY DEF LedgerInit
  <2>3. 0 \in 0 .. MaxFiles /\ 0 \in 0 .. MaxRuns
    BY <1>1
  <2> QED BY <2>1, <2>2, <2>3 DEF LedgerInit, LedgerShape
<1>3. NamesExist /\ UnsavedInPlace /\ CommittedFilesIntact /\ StaleFollowsEdits
  BY DEF LedgerInit, NamesExist, UnsavedInPlace, CommittedFilesIntact, StaleFollowsEdits
<1> QED BY <1>2, <1>3 DEF LedgerInv

\* The next revision of a kind is beyond every revision that the row names.
LEMMA NextRevisionLemma ==
  ASSUME LedgerInv, NEW kind
  PROVE  /\ NextRevision(kind) \in 1 .. Len(ledger) + 1
         /\ \A i \in OfKind(kind) : ledger[i].revision < NextRevision(kind)
<1> DEFINE Revisions == {ledger[i].revision : i \in OfKind(kind)} \cup {0}
<1>1. Len(ledger) \in Nat /\ DOMAIN ledger = 1 .. Len(ledger)
  BY DEF LedgerInv, LedgerShape
<1>2. \A i \in DOMAIN ledger : ledger[i].revision \in 0 .. Len(ledger)
  <2> SUFFICES ASSUME NEW i \in DOMAIN ledger PROVE ledger[i].revision \in 0 .. Len(ledger)
    OBVIOUS
  <2>1. ledger[i] \in Artifact
    BY DEF LedgerInv, LedgerShape
  <2>2. ledger[i].revision \in 1 .. MaxFiles /\ ledger[i].revision <= Len(ledger)
    BY <2>1 DEF Artifact, LedgerInv, NamesExist
  <2> QED BY <1>1, <2>2, LedgerAssumption
<1>3. Revisions \in SUBSET (0 .. Len(ledger)) /\ Revisions # {}
  BY <1>1, <1>2 DEF OfKind
<1>4. Max(Revisions) \in 0 .. Len(ledger) /\ \A r \in Revisions : r <= Max(Revisions)
  <2> HIDE DEF Revisions
  <2> QED BY <1>1, <1>3, MaxLemma
<1>5. \A i \in OfKind(kind) : ledger[i].revision <= Max(Revisions) /\ ledger[i].revision \in Nat
  BY <1>1, <1>2, <1>4 DEF OfKind
<1>6. NextRevision(kind) = Max(Revisions) + 1
  BY DEF NextRevision
<1> HIDE DEF Revisions
<1> QED BY <1>1, <1>4, <1>5, <1>6

\* A new file overwrites none that the row names.
LEMMA PutInPlaceLemma ==
  ASSUME LedgerInv, unsaved = Unmade, ledger' = ledger,
         NEW kind \in ArtifactKinds, NEW inputs \in SUBSET (1 .. Len(ledger)),
         NEW edits \in 0 .. Len(ledger), PutInPlace(kind, inputs, edits)
  PROVE  /\ made' \in 0 .. MaxFiles /\ Len(ledger) + 1 <= made'
         /\ unsaved' \in Artifact /\ unsaved'.revision <= Len(ledger) + 1
         /\ unsaved'.inputs \subseteq 1 .. Len(ledger) /\ unsaved'.edits <= Len(ledger)
         /\ unsaved'.kind = kind
         /\ files' \in [ArtifactKinds \X (1 .. MaxFiles) -> 1 .. MaxFiles \cup {Unmade}]
         /\ UnsavedInPlace' /\ CommittedFilesIntact' /\ StaleFollowsEdits'
<1> DEFINE revision == NextRevision(kind)
<1>1. Len(ledger) \in Nat /\ made \in Nat /\ MaxFiles \in Nat /\ Len(ledger) <= made /\ made < MaxFiles
  BY LedgerAssumption DEF LedgerInv, LedgerShape, NamesExist, PutInPlace
<1>2. made' = made + 1
  BY DEF PutInPlace
<1>3. revision \in 1 .. Len(ledger) + 1 /\ \A i \in OfKind(kind) : ledger[i].revision < revision
  BY NextRevisionLemma
<1>4. /\ files' = [files EXCEPT ![<<kind, revision>>] = made']
      /\ unsaved' = [kind |-> kind, revision |-> revision, inputs |-> inputs, edits |-> edits,
                     stale |-> FALSE, bytes |-> made']
  BY DEF PutInPlace
<1> HIDE DEF revision
<1>5. revision \in 1 .. MaxFiles /\ made' \in 1 .. MaxFiles
  BY <1>1, <1>2, <1>3
<1>6. inputs \in SUBSET (1 .. MaxFiles) /\ edits \in 0 .. MaxFiles
  BY <1>1
<1>7. /\ unsaved' \in Artifact /\ unsaved'.revision = revision /\ unsaved'.inputs = inputs
      /\ unsaved'.edits = edits /\ unsaved'.kind = kind
  BY <1>4, <1>5, <1>6 DEF Artifact
<1>8. files \in [ArtifactKinds \X (1 .. MaxFiles) -> 1 .. MaxFiles \cup {Unmade}]
  BY DEF LedgerInv, LedgerShape
<1>9. files' \in [ArtifactKinds \X (1 .. MaxFiles) -> 1 .. MaxFiles \cup {Unmade}]
  BY <1>4, <1>5, <1>8
<1>10. UnsavedInPlace'
  BY <1>4, <1>5, <1>8 DEF UnsavedInPlace
<1>11. CommittedFilesIntact'
  <2> SUFFICES ASSUME NEW i \in DOMAIN ledger
               PROVE files'[<<ledger[i].kind, ledger[i].revision>>] = ledger[i].bytes
    BY DEF CommittedFilesIntact
  <2>1. files[<<ledger[i].kind, ledger[i].revision>>] = ledger[i].bytes
    BY DEF LedgerInv, CommittedFilesIntact
  <2>2. ledger[i] \in Artifact
    BY DEF LedgerInv, LedgerShape
  <2>3. <<ledger[i].kind, ledger[i].revision>> \in ArtifactKinds \X (1 .. MaxFiles)
    BY <2>2 DEF Artifact
  <2>4. <<ledger[i].kind, ledger[i].revision>> # <<kind, revision>>
    BY <1>3 DEF OfKind
  <2> QED BY <1>4, <1>8, <2>1, <2>3, <2>4
<1>12. StaleFollowsEdits'
  BY DEF LedgerInv, StaleFollowsEdits
<1> QED BY <1>1, <1>2, <1>3, <1>5, <1>7, <1>9, <1>10, <1>11, <1>12

\* The newest of some artifacts, or 0.
LEMMA NewestLemma ==
  ASSUME LedgerInv, NEW S \in SUBSET DOMAIN ledger
  PROVE  Max(S \cup {0}) \in 0 .. Len(ledger) /\ (Max(S \cup {0}) # 0 => Max(S \cup {0}) \in S)
<1>1. Len(ledger) \in Nat /\ DOMAIN ledger = 1 .. Len(ledger)
  BY DEF LedgerInv, LedgerShape
<1>2. S \cup {0} \in SUBSET (0 .. Len(ledger)) /\ S \cup {0} # {}
  BY <1>1
<1>3. Max(S \cup {0}) \in S \cup {0}
  BY <1>1, <1>2, MaxLemma
<1> QED BY <1>1, <1>2, <1>3

LEMMA GenerateInv == LedgerInv /\ Generate => LedgerInv'
<1> SUFFICES ASSUME LedgerInv, Generate PROVE LedgerInv'
  OBVIOUS
<1>1. unsaved = Unmade /\ UNCHANGED <<phase, wanted, input, ledger, staged, runs>>
  BY DEF Generate
<1>2. Len(ledger) \in Nat /\ input \in Nat /\ phase \in {"transcribing", "copying", "summarizing", "final"}
  BY DEF LedgerInv, LedgerShape, Generate
<1>3. input <= Len(ledger) /\ (phase \in {"summarizing", "final"} => input > 0)
  BY <1>2 DEF LedgerInv, NamesExist
<1>4. Max(Fresh("checkpoint") \cup {0}) \in 0 .. Len(ledger)
  BY NewestLemma DEF Fresh, OfKind
<1> DEFINE last == Max(Fresh("checkpoint") \cup {0})
<1>5. \E kind \in ArtifactKinds, inputs \in SUBSET (1 .. Len(ledger)), edits \in 0 .. Len(ledger) :
        PutInPlace(kind, inputs, edits) /\ (kind = "checkpoint" => input > 0)
  <2>1. {} \in SUBSET (1 .. Len(ledger)) /\ 0 \in 0 .. Len(ledger)
    BY <1>2
  <2>2. "transcript" \in ArtifactKinds /\ "checkpoint" \in ArtifactKinds /\ "final" \in ArtifactKinds
    BY DEF ArtifactKinds, Summaries
  <2>3. CASE phase \in {"transcribing", "copying"} /\ PutInPlace("transcript", {}, 0)
    BY <2>1, <2>2, <2>3
  <2>4. CASE phase = "summarizing" /\ PutInPlace("checkpoint", {input}, 0)
    <3>1. {input} \in SUBSET (1 .. Len(ledger)) /\ input > 0
      BY <1>2, <1>3, <2>4
    <3> QED BY <2>1, <2>2, <2>4, <3>1
  <2>5. CASE phase = "final" /\ PutInPlace("final", ({input} \cup {last}) \ {0}, 0)
    <3> HIDE DEF last
    <3>1. ({input} \cup {last}) \ {0} \in SUBSET (1 .. Len(ledger))
      BY <1>2, <1>3, <1>4 DEF last
    <3> QED BY <2>1, <2>2, <2>5, <3>1
  <2> QED BY <2>3, <2>4, <2>5 DEF Generate
<1>6. PICK kind \in ArtifactKinds, inputs \in SUBSET (1 .. Len(ledger)), edits \in 0 .. Len(ledger) :
        PutInPlace(kind, inputs, edits) /\ (kind = "checkpoint" => input > 0)
  BY <1>5
<1>7. /\ made' \in 0 .. MaxFiles /\ Len(ledger) + 1 <= made'
      /\ unsaved' \in Artifact /\ unsaved'.revision <= Len(ledger) + 1
      /\ unsaved'.inputs \subseteq 1 .. Len(ledger) /\ unsaved'.edits <= Len(ledger)
      /\ unsaved'.kind = "checkpoint" => input > 0
      /\ files' \in [ArtifactKinds \X (1 .. MaxFiles) -> 1 .. MaxFiles \cup {Unmade}]
      /\ UnsavedInPlace' /\ CommittedFilesIntact' /\ StaleFollowsEdits'
  BY <1>1, <1>6, PutInPlaceLemma
<1>8. LedgerShape'
  BY <1>1, <1>7 DEF LedgerInv, LedgerShape
<1>9. NamesExist'
  BY <1>1, <1>2, <1>7, LedgerAssumption DEF LedgerInv, NamesExist
<1> QED BY <1>7, <1>8, <1>9 DEF LedgerInv

LEMMA RegisterRevisionInv ==
  ASSUME LedgerInv, NEW i \in DOMAIN ledger, RegisterRevision(i) PROVE LedgerInv'
<1>1. /\ unsaved = Unmade /\ phase \in {"transcribing", "summarizing", "ended", "cancelled"}
      /\ staged' = FALSE /\ UNCHANGED <<phase, wanted, input, ledger, runs>>
      /\ PutInPlace(ledger[i].kind, ledger[i].inputs, i)
  BY DEF RegisterRevision, Suspended
<1>2. Len(ledger) \in Nat /\ i \in 0 .. Len(ledger)
  BY DEF LedgerInv, LedgerShape
<1>3. /\ ledger[i].kind \in ArtifactKinds /\ ledger[i].kind # "checkpoint"
      /\ ledger[i].inputs \in SUBSET (1 .. Len(ledger))
  <2>1. ledger[i] \in Artifact /\ ledger[i].inputs \subseteq 1 .. i - 1
    BY DEF LedgerInv, LedgerShape, NamesExist
  <2>2. ledger[i].kind \in ArtifactKinds /\ ledger[i].kind # "checkpoint"
    BY <2>1 DEF Artifact, RegisterRevision, OfKind
  <2> QED BY <1>2, <2>1, <2>2
<1>7. /\ made' \in 0 .. MaxFiles /\ Len(ledger) + 1 <= made'
      /\ unsaved' \in Artifact /\ unsaved'.revision <= Len(ledger) + 1
      /\ unsaved'.inputs \subseteq 1 .. Len(ledger) /\ unsaved'.edits <= Len(ledger)
      /\ unsaved'.kind = "checkpoint" => input > 0
      /\ files' \in [ArtifactKinds \X (1 .. MaxFiles) -> 1 .. MaxFiles \cup {Unmade}]
      /\ UnsavedInPlace' /\ CommittedFilesIntact' /\ StaleFollowsEdits'
  BY <1>1, <1>2, <1>3, PutInPlaceLemma
<1>8. LedgerShape'
  BY <1>1, <1>7 DEF LedgerInv, LedgerShape
<1>9. NamesExist'
  BY <1>1, <1>2, <1>7, LedgerAssumption DEF LedgerInv, NamesExist
<1> QED BY <1>7, <1>8, <1>9 DEF LedgerInv

\* What the commit appends, and what becomes stale with it.
LEMMA CommitLemma ==
  ASSUME LedgerInv, Save
  PROVE  /\ Len(ledger') = Len(ledger) + 1 /\ ledger' \in Seq(Artifact)
         /\ ledger'[Len(ledger) + 1] = unsaved
         /\ \A i \in 1 .. Len(ledger) :
              ledger'[i] = [ledger[i] EXCEPT !.stale = @ \/ Outdates(unsaved, ledger[i])]
<1> DEFINE old == [i \in DOMAIN ledger |-> [ledger[i] EXCEPT !.stale = @ \/ Outdates(unsaved, ledger[i])]]
<1>1. ledger \in Seq(Artifact) /\ unsaved \in Artifact
  BY DEF LedgerInv, LedgerShape, Save
<1>2. \A i \in DOMAIN ledger : ledger[i] \in Artifact
  BY <1>1
<1>3. \A i \in DOMAIN ledger : [ledger[i] EXCEPT !.stale = @ \/ Outdates(unsaved, ledger[i])] \in Artifact
  <2> SUFFICES ASSUME NEW i \in DOMAIN ledger
               PROVE [ledger[i] EXCEPT !.stale = @ \/ Outdates(unsaved, ledger[i])] \in Artifact
    OBVIOUS
  <2>1. (ledger[i].stale \/ Outdates(unsaved, ledger[i])) \in BOOLEAN
    OBVIOUS
  <2> QED BY <1>2, <2>1 DEF Artifact
<1>4. old \in Seq(Artifact) /\ Len(old) = Len(ledger)
  BY <1>1, <1>3
<1>5. ledger' = Append(old, unsaved)
  BY DEF Save
<1>6. \A i \in 1 .. Len(ledger) : old[i] = [ledger[i] EXCEPT !.stale = @ \/ Outdates(unsaved, ledger[i])]
  BY <1>1
<1> HIDE DEF old
<1>7. /\ Len(Append(old, unsaved)) = Len(ledger) + 1 /\ Append(old, unsaved) \in Seq(Artifact)
      /\ Append(old, unsaved)[Len(ledger) + 1] = unsaved
      /\ \A i \in 1 .. Len(ledger) : Append(old, unsaved)[i] = old[i]
  BY <1>1, <1>4
<1> QED BY <1>5, <1>6, <1>7

LEMMA SaveInv == LedgerInv /\ Save => LedgerInv'
<1> SUFFICES ASSUME LedgerInv, Save PROVE LedgerInv'
  OBVIOUS
<1> DEFINE n == Len(ledger)
<1>1. /\ n \in Nat /\ Len(ledger') = n + 1 /\ ledger' \in Seq(Artifact) /\ ledger'[n + 1] = unsaved
      /\ DOMAIN ledger = 1 .. n /\ DOMAIN ledger' = 1 .. n + 1
  BY CommitLemma DEF LedgerInv, LedgerShape
<1>2. ASSUME NEW i \in 1 .. n
      PROVE  /\ ledger'[i] \in Artifact /\ ledger[i] \in Artifact
             /\ ledger'[i].kind = ledger[i].kind /\ ledger'[i].revision = ledger[i].revision
             /\ ledger'[i].inputs = ledger[i].inputs /\ ledger'[i].edits = ledger[i].edits
             /\ ledger'[i].bytes = ledger[i].bytes
             /\ ~ledger'[i].stale => ~ledger[i].stale /\ ~Outdates(unsaved, ledger[i])
  <2>1. ledger[i] \in Artifact
    BY DEF LedgerInv, LedgerShape
  <2>2. ledger'[i] = [ledger[i] EXCEPT !.stale = @ \/ Outdates(unsaved, ledger[i])]
    BY CommitLemma
  <2>3. ledger'[i] \in Artifact
    BY <1>1
  <2> QED BY <2>1, <2>2, <2>3 DEF Artifact
<1>3. /\ unsaved # Unmade /\ unsaved' = Unmade /\ UNCHANGED <<wanted, files, made, runs>>
      /\ unsaved \in Artifact
  BY DEF LedgerInv, LedgerShape, Save
<1>4. /\ phase \notin {"none", "cleared"} /\ wanted <= n /\ input <= n /\ wanted \in Nat /\ input \in Nat
      /\ n + 1 <= made /\ made \in Nat
  BY <1>3 DEF LedgerInv, LedgerShape, NamesExist
<1>5. /\ phase' \in {"copying", "transcribing", "summarizing", "final", "ended", "cancelled"}
      /\ staged' \in BOOLEAN
      /\ input' \in Nat /\ input' <= n + 1
      /\ phase' \in {"summarizing", "final"} => input' > 0
  <2> HIDE DEF n
  <2>1. staged \in BOOLEAN /\ staged' \in BOOLEAN
    <3>1. staged \in BOOLEAN /\ FALSE \in BOOLEAN /\ (staged' = staged \/ staged' = FALSE)
      BY DEF LedgerInv, LedgerShape, Save
    <3> QED BY <3>1
  <2>2. phase \in {"copying", "transcribing", "summarizing", "final", "ended", "cancelled"}
    BY <1>4 DEF LedgerInv, LedgerShape
  <2>3. phase \in {"summarizing", "final"} => input > 0
    BY DEF LedgerInv, NamesExist
  <2>4. CASE UNCHANGED <<phase, input, staged>>
    BY <1>1, <1>4, <2>1, <2>2, <2>3, <2>4
  <2>5. CASE phase' = "summarizing" /\ input' = (IF wanted # 0 THEN wanted ELSE Len(ledger')) /\ UNCHANGED staged
    BY <1>1, <1>4, <2>1, <2>5
  <2>6. CASE unsaved.kind = "checkpoint" /\ phase' = "final" /\ UNCHANGED <<input, staged>>
    <3>1. input > 0
      BY <1>3, <2>6 DEF LedgerInv, NamesExist
    <3> QED BY <1>1, <1>4, <2>1, <2>6, <3>1
  <2>7. CASE phase' = "ended" /\ staged' = FALSE /\ UNCHANGED input
    BY <1>1, <1>4, <2>1, <2>7
  <2> QED BY <2>4, <2>5, <2>6, <2>7 DEF Save
<1>6. LedgerShape'
  BY <1>1, <1>3, <1>5 DEF LedgerInv, LedgerShape
<1>7. \A i \in 1 .. n + 1 : /\ ledger'[i].revision <= n + 1
                            /\ ledger'[i].inputs \subseteq 1 .. i - 1 /\ ledger'[i].edits < i
  <2> SUFFICES ASSUME NEW i \in 1 .. n + 1
               PROVE  /\ ledger'[i].revision <= n + 1
                      /\ ledger'[i].inputs \subseteq 1 .. i - 1 /\ ledger'[i].edits < i
    OBVIOUS
  <2>1. CASE i = n + 1
    <3>1. unsaved.revision <= n + 1 /\ unsaved.inputs \subseteq 1 .. n /\ unsaved.edits <= n
      BY <1>3 DEF LedgerInv, NamesExist
    <3>2. unsaved.edits \in Nat /\ n = (n + 1) - 1
      BY <1>1, <1>3, LedgerAssumption DEF Artifact
    <3> HIDE DEF n
    <3> QED BY <1>1, <2>1, <3>1, <3>2
  <2>2. CASE i # n + 1
    <3>1. i \in 1 .. n
      BY <1>1, <2>2
    <3>2. ledger[i].revision <= n /\ ledger[i].inputs \subseteq 1 .. i - 1 /\ ledger[i].edits < i
      BY <1>1, <3>1 DEF LedgerInv, NamesExist
    <3>3. ledger[i].revision \in Nat
      BY <1>2, <3>1, LedgerAssumption DEF Artifact
    <3> HIDE DEF n
    <3> QED BY <1>1, <1>2, <3>1, <3>2, <3>3
  <2> QED BY <2>1, <2>2
<1>8. NamesExist'
  <2> HIDE DEF n
  <2>1. wanted' <= n + 1 /\ n + 1 + 0 <= made'
    BY <1>1, <1>3, <1>4
  <2> QED BY <1>1, <1>3, <1>5, <1>7, <2>1 DEF NamesExist
<1>9. UnsavedInPlace'
  BY <1>3 DEF UnsavedInPlace
<1>10. CommittedFilesIntact'
  <2>1. ASSUME NEW i \in 1 .. n + 1
        PROVE files[<<ledger'[i].kind, ledger'[i].revision>>] = ledger'[i].bytes
    <3>1. CASE i = n + 1
      BY <1>1, <1>3, <3>1 DEF LedgerInv, UnsavedInPlace
    <3>2. CASE i # n + 1
      <4>1. i \in 1 .. n
        BY <1>1, <3>2
      <4>2. files[<<ledger[i].kind, ledger[i].revision>>] = ledger[i].bytes
        BY <1>1, <4>1 DEF LedgerInv, CommittedFilesIntact
      <4> QED BY <1>2, <4>1, <4>2
    <3> QED BY <3>1, <3>2
  <2> QED BY <1>1, <1>3, <2>1 DEF CommittedFilesIntact
<1>11. StaleFollowsEdits'
  <2>1. ASSUME NEW i \in 1 .. n + 1, NEW later \in i + 1 .. n + 1,
               ledger'[i].kind \in Summaries, ~ledger'[i].stale, ledger'[later].kind = "transcript"
        PROVE ledger'[later].edits \notin ledger'[i].inputs \cup {0}
    <3>1. i \in 1 .. n
      BY <1>1, <2>1
    <3>2. ledger[i].kind \in Summaries /\ ~ledger[i].stale /\ ~Outdates(unsaved, ledger[i])
      BY <1>2, <2>1, <3>1
    <3>3. CASE later = n + 1
      BY <1>1, <1>2, <2>1, <3>1, <3>2, <3>3 DEF Outdates
    <3>4. CASE later # n + 1
      <4>1. later \in 1 .. n /\ later \in i + 1 .. n
        BY <1>1, <3>1, <3>4
      <4>2. ledger[later].kind = "transcript" => ledger[later].edits \notin ledger[i].inputs \cup {0}
        BY <1>1, <3>1, <3>2, <4>1 DEF LedgerInv, StaleFollowsEdits
      <4> QED BY <1>2, <2>1, <3>1, <4>1, <4>2
    <3> QED BY <3>3, <3>4
  <2> HIDE DEF n
  <2>2. StaleFollowsEdits' <=> \A i \in 1 .. n + 1 : \A later \in i + 1 .. n + 1 :
          ledger'[i].kind \in Summaries /\ ~ledger'[i].stale /\ ledger'[later].kind = "transcript" =>
            ledger'[later].edits \notin ledger'[i].inputs \cup {0}
    BY <1>1 DEF StaleFollowsEdits
  <2> QED BY <2>1, <2>2
<1> QED BY <1>6, <1>8, <1>9, <1>10, <1>11 DEF LedgerInv

\* A retry goes on from transcripts of the row.
LEMMA RetryFromInv ==
  ASSUME LedgerInv, NEW stage, NEW t \in OfKind("transcript") \cup {0}, RetryFrom(stage, t) PROVE LedgerInv'
<1> DEFINE chosen == IF t = 0 THEN NewestTranscript ELSE t
<1>1. Len(ledger) \in Nat /\ t \in 0 .. Len(ledger) /\ NewestTranscript \in 0 .. Len(ledger)
  <2>1. Len(ledger) \in Nat /\ OfKind("transcript") \in SUBSET DOMAIN ledger /\ DOMAIN ledger = 1 .. Len(ledger)
    BY DEF LedgerInv, LedgerShape, OfKind
  <2> QED BY <2>1, NewestLemma DEF NewestTranscript
<1>2. chosen \in 0 .. Len(ledger)
  BY <1>1
<1>3. /\ phase = "ended" /\ unsaved = Unmade /\ runs < MaxRuns /\ runs' = runs + 1 /\ wanted' = t
      /\ UNCHANGED <<ledger, files, unsaved, staged, made>>
  BY DEF RetryFrom
<1>4. \/ phase' = "transcribing" /\ input' = 0
      \/ phase' \in {"summarizing", "final"} /\ chosen # 0 /\ input' = chosen
      \/ phase' = "ended" /\ input' = input
  BY DEF RetryFrom
<1> HIDE DEF chosen
<1>5. runs' \in 0 .. MaxRuns
  BY <1>3, LedgerAssumption DEF LedgerInv, LedgerShape
<1>6. input \in Nat /\ input <= Len(ledger)
  BY <1>3 DEF LedgerInv, LedgerShape, NamesExist
<1>7. /\ phase' \in {"transcribing", "summarizing", "final", "ended"} /\ input' \in Nat /\ input' <= Len(ledger)
      /\ phase' \in {"summarizing", "final"} => input' > 0
  BY <1>1, <1>2, <1>4, <1>6
<1>8. LedgerShape'
  BY <1>1, <1>3, <1>5, <1>7 DEF LedgerInv, LedgerShape
<1>9. NamesExist'
  BY <1>1, <1>3, <1>7 DEF LedgerInv, NamesExist
<1>10. UnsavedInPlace' /\ CommittedFilesIntact' /\ StaleFollowsEdits'
  BY <1>3 DEF LedgerInv, UnsavedInPlace, CommittedFilesIntact, StaleFollowsEdits
<1> QED BY <1>8, <1>9, <1>10 DEF LedgerInv

\* The steps that make no file and commit nothing.
LEMMA OtherLedgerStepsInv ==
  LedgerInv /\ (SubmitNew \/ RunStops \/ EditStops \/ Dies \/ StageEdit \/ ClearRow) => LedgerInv'
<1>1. ASSUME LedgerInv, SubmitNew PROVE LedgerInv'
  <2>1. /\ phase' \in {"transcribing", "copying"} /\ unsaved = Unmade
        /\ UNCHANGED <<wanted, input, ledger, files, unsaved, staged, made>>
    BY <1>1 DEF LedgerInv, NamesExist, SubmitNew
  <2>2. runs' \in 0 .. MaxRuns
    BY <1>1, LedgerAssumption DEF LedgerInv, NamesExist, SubmitNew
  <2>3. LedgerShape'
    BY <1>1, <2>1, <2>2 DEF LedgerInv, LedgerShape
  <2>4. NamesExist'
    BY <1>1, <2>1 DEF LedgerInv, NamesExist, SubmitNew
  <2>5. UnsavedInPlace' /\ CommittedFilesIntact' /\ StaleFollowsEdits'
    BY <1>1, <2>1 DEF LedgerInv, UnsavedInPlace, CommittedFilesIntact, StaleFollowsEdits
  <2> QED BY <2>3, <2>4, <2>5 DEF LedgerInv
<1>2. ASSUME LedgerInv, RunStops \/ EditStops \/ Dies PROVE LedgerInv'
  <2>1. /\ unsaved' = Unmade /\ UNCHANGED <<wanted, input, ledger, files, made, runs>>
        /\ phase' \in {phase, "ended", "cancelled", "cleared"} /\ phase' # "none"
        /\ phase = "cleared" => phase' = "cleared"
    BY <1>2 DEF LedgerInv, NamesExist, RunStops, EditStops, Dies
  <2>2. staged' \in BOOLEAN
    <3>1. staged \in BOOLEAN /\ FALSE \in BOOLEAN /\ (staged' = staged \/ staged' = FALSE)
      BY <1>2 DEF LedgerInv, LedgerShape, RunStops, EditStops, Dies
    <3> QED BY <3>1
  <2>3. LedgerShape'
    BY <1>2, <2>1, <2>2 DEF LedgerInv, LedgerShape
  <2>4. Len(ledger) \in Nat /\ made \in Nat
    BY <1>2, LedgerAssumption DEF LedgerInv, LedgerShape
  <2>5. NamesExist'
    BY <1>2, <2>1, <2>4 DEF LedgerInv, NamesExist
  <2>6. UnsavedInPlace' /\ CommittedFilesIntact' /\ StaleFollowsEdits'
    BY <1>2, <2>1 DEF LedgerInv, UnsavedInPlace, CommittedFilesIntact, StaleFollowsEdits
  <2> QED BY <2>3, <2>5, <2>6 DEF LedgerInv
<1>3. ASSUME LedgerInv, StageEdit PROVE LedgerInv'
  BY <1>3 DEF StageEdit, LedgerInv, LedgerShape, NamesExist, UnsavedInPlace, CommittedFilesIntact, StaleFollowsEdits
<1>4. ASSUME LedgerInv, ClearRow PROVE LedgerInv'
  <2>1. /\ unsaved = Unmade /\ unsaved' = Unmade /\ phase' = "cleared" /\ ledger' = <<>>
        /\ UNCHANGED <<wanted, input, files, staged, made, runs>>
    BY <1>4 DEF ClearRow
  <2>2. ledger' \in Seq(Artifact) /\ DOMAIN ledger' = {} /\ Len(ledger') = 0
    BY <2>1
  <2>3. LedgerShape'
    BY <1>4, <2>1, <2>2 DEF LedgerInv, LedgerShape
  <2>4. made \in Nat
    BY <1>4, LedgerAssumption DEF LedgerInv, LedgerShape
  <2>5. NamesExist'
    BY <2>1, <2>2, <2>4 DEF NamesExist
  <2>6. UnsavedInPlace' /\ CommittedFilesIntact' /\ StaleFollowsEdits'
    BY <2>1, <2>2 DEF UnsavedInPlace, CommittedFilesIntact, StaleFollowsEdits
  <2> QED BY <2>3, <2>5, <2>6 DEF LedgerInv
<1> QED BY <1>1, <1>2, <1>3, <1>4

LEMMA LedgerNextInv == LedgerInv /\ [LedgerNext]_ledgerVars => LedgerInv'
<1> SUFFICES ASSUME LedgerInv, [LedgerNext]_ledgerVars PROVE LedgerInv'
  OBVIOUS
<1>1. CASE \E stage \in {"transcribing", "summarizing", "final"}, t \in OfKind("transcript") \cup {0} :
             RetryFrom(stage, t)
  BY <1>1, RetryFromInv
<1>2. CASE \E i \in DOMAIN ledger : RegisterRevision(i)
  BY <1>2, RegisterRevisionInv
<1>3. CASE UNCHANGED ledgerVars
  BY <1>3 DEF ledgerVars, LedgerInv, LedgerShape, NamesExist, UnsavedInPlace, CommittedFilesIntact, StaleFollowsEdits
<1> QED BY <1>1, <1>2, <1>3, GenerateInv, SaveInv, OtherLedgerStepsInv DEF LedgerNext

\* What the row says of the files stays true and current whatever runs, is
\* edited, fails, is retried or dies, and every artifact is made from earlier
\* ones of the row.
THEOREM LedgerIsSound == LedgerSpec => [](LedgerTypeOK /\ LedgerSound)
<1>1. LedgerInv => LedgerTypeOK
  <2> SUFFICES ASSUME LedgerInv PROVE LedgerTypeOK
    OBVIOUS
  <2>1. \A i \in DOMAIN ledger : ledger[i] \in Artifact
    BY DEF LedgerInv, LedgerShape
  <2>2. wanted \in 0 .. Len(ledger) \/ phase = "cleared"
    BY DEF LedgerInv, LedgerShape, NamesExist
  <2>3. input \in 0 .. Len(ledger) \/ phase = "cleared"
    BY DEF LedgerInv, LedgerShape, NamesExist
  <2> QED BY <2>1, <2>2, <2>3 DEF LedgerInv, LedgerShape, LedgerTypeOK
<1>2. LedgerInv => LedgerSound
  BY DEF LedgerInv, LedgerSound
<1> QED BY <1>1, <1>2, LedgerInitInv, LedgerNextInv, PTL DEF LedgerSpec

-----------------------------------------------------------------------------
(* The requests of a summary.                                              *)

\* Chunks are numbered below the next index, across every merge round, and
\* revisions up to the number made.
RequestInv ==
  /\ slots \in Seq({"chunk", "revision"} \X Nat) /\ index \in Nat
  /\ \A i \in DOMAIN slots : IF slots[i][1] = "chunk" THEN slots[i][2] < index
                             ELSE slots[i][2] <= RevisionsMade
  /\ RevisionsMade <= 2
  /\ RequestsDistinct

LEMMA RevisionsMadeLemma ==
  ASSUME slots \in Seq({"chunk", "revision"} \X Nat)
  PROVE  /\ RevisionsMade \in Nat
         /\ \A k \in Nat : slots' = Append(slots, <<"chunk", k>>) => RevisionsMade' = RevisionsMade
         /\ \A k \in Nat : slots' = Append(slots, <<"revision", k>>) => RevisionsMade' = RevisionsMade + 1
<1> DEFINE n == Len(slots)
           At(s) == {i \in DOMAIN s : s[i][1] = "revision"}
<1>1. n \in Nat /\ DOMAIN slots = 1 .. n
  OBVIOUS
<1>2. IsFiniteSet(At(slots)) /\ Cardinality(At(slots)) \in Nat
  <2>1. IsFiniteSet(1 .. n)
    BY <1>1, FS_Interval
  <2>2. At(slots) \subseteq 1 .. n
    BY <1>1
  <2> HIDE DEF At, n
  <2> QED BY <2>1, <2>2, FS_Subset, FS_CardinalityType
<1>3. ASSUME NEW slot \in {"chunk", "revision"} \X Nat
      PROVE  At(Append(slots, slot)) = IF slot[1] = "revision" THEN At(slots) \cup {n + 1} ELSE At(slots)
  <2>1. /\ DOMAIN Append(slots, slot) = 1 .. n + 1
        /\ \A i \in 1 .. n + 1 : Append(slots, slot)[i] = IF i = n + 1 THEN slot ELSE slots[i]
    OBVIOUS
  <2> QED BY <1>1, <2>1
<1>4. n + 1 \notin At(slots)
  BY <1>1
<1>5. Cardinality(At(slots) \cup {n + 1}) = Cardinality(At(slots)) + 1
  <2> HIDE DEF At, n
  <2> QED BY <1>2, <1>4, FS_AddElement
<1>6. ASSUME NEW k \in Nat, slots' = Append(slots, <<"chunk", k>>) PROVE RevisionsMade' = RevisionsMade
  <2>1. At(slots') = At(slots)
    BY <1>3, <1>6
  <2> QED BY <2>1 DEF RevisionsMade
<1>7. ASSUME NEW k \in Nat, slots' = Append(slots, <<"revision", k>>) PROVE RevisionsMade' = RevisionsMade + 1
  <2>1. At(slots') = At(slots) \cup {n + 1}
    BY <1>3, <1>7
  <2> QED BY <1>5, <2>1 DEF RevisionsMade
<1> QED BY <1>2, <1>6, <1>7 DEF RevisionsMade

\* A request in a slot that no earlier one has used.
LEMMA NewRequestLemma ==
  ASSUME RequestInv, NEW slot \in {"chunk", "revision"} \X Nat, slots' = Append(slots, slot),
         \A i \in DOMAIN slots : slots[i] # slot
  PROVE  /\ slots' \in Seq({"chunk", "revision"} \X Nat) /\ RequestsDistinct'
         /\ \A i \in DOMAIN slots' : slots'[i] = slot \/ (i \in DOMAIN slots /\ slots'[i] = slots[i])
<1>1. slots \in Seq({"chunk", "revision"} \X Nat) /\ Len(slots) \in Nat /\ DOMAIN slots = 1 .. Len(slots)
  BY DEF RequestInv
<1>2. /\ slots' \in Seq({"chunk", "revision"} \X Nat) /\ DOMAIN slots' = 1 .. Len(slots) + 1
      /\ \A i \in 1 .. Len(slots) + 1 : slots'[i] = IF i = Len(slots) + 1 THEN slot ELSE slots[i]
  BY <1>1
<1>3. RequestsDistinct'
  BY <1>1, <1>2 DEF RequestInv, RequestsDistinct
<1> QED BY <1>1, <1>2, <1>3

LEMMA RequestInitInv == SumInit => RequestInv
<1> SUFFICES ASSUME SumInit PROVE RequestInv
  OBVIOUS
<1>1. slots = <<>> /\ DOMAIN slots = {} /\ index = 0
  BY DEF SumInit
<1>2. {i \in DOMAIN slots : slots[i][1] = "revision"} = {}
  BY <1>1
<1>3. RevisionsMade = 0
  BY <1>2, FS_EmptySet DEF RevisionsMade
<1>4. slots \in Seq({"chunk", "revision"} \X Nat)
  BY <1>1
<1> QED BY <1>1, <1>3, <1>4 DEF RequestInv, RequestsDistinct

\* A request for a piece, whichever round it is of.
LEMMA CallInv == RequestInv /\ Call => RequestInv'
<1> SUFFICES ASSUME RequestInv, Call PROVE RequestInv'
  OBVIOUS
<1>1. /\ slots' = Append(slots, <<"chunk", index>>) /\ index' = index + 1 /\ index \in Nat
      /\ <<"chunk", index>> \in {"chunk", "revision"} \X Nat
  BY DEF Call, RequestInv
<1>2. \A i \in DOMAIN slots : slots[i] # <<"chunk", index>>
  BY <1>1 DEF RequestInv
<1>3. /\ slots' \in Seq({"chunk", "revision"} \X Nat) /\ RequestsDistinct'
      /\ \A i \in DOMAIN slots' : slots'[i] = <<"chunk", index>> \/ (i \in DOMAIN slots /\ slots'[i] = slots[i])
  BY <1>1, <1>2, NewRequestLemma
<1>4. RevisionsMade' = RevisionsMade /\ RevisionsMade \in Nat
  BY <1>1, RevisionsMadeLemma DEF RequestInv
<1>5. \A i \in DOMAIN slots : slots[i] \in {"chunk", "revision"} \X Nat
  BY DEF RequestInv
<1>6. \A i \in DOMAIN slots' : IF slots'[i][1] = "chunk" THEN slots'[i][2] < index'
                               ELSE slots'[i][2] <= RevisionsMade'
  BY <1>1, <1>3, <1>4, <1>5 DEF RequestInv
<1> QED BY <1>1, <1>3, <1>4, <1>6 DEF RequestInv

LEMMA ReviseInv == RequestInv /\ Revise => RequestInv'
<1> SUFFICES ASSUME RequestInv, Revise PROVE RequestInv'
  OBVIOUS
<1> DEFINE slot == <<"revision", RevisionsMade + 1>>
<1>1. slots' = Append(slots, slot) /\ index' = index /\ index \in Nat /\ RevisionsMade < 2
  BY DEF Revise, RequestInv
<1>2. RevisionsMade \in Nat /\ RevisionsMade' = RevisionsMade + 1
  BY <1>1, RevisionsMadeLemma DEF RequestInv
<1>3. slot \in {"chunk", "revision"} \X Nat /\ slot[1] = "revision" /\ slot[2] = RevisionsMade + 1
  BY <1>2
<1> HIDE DEF slot
<1>4. \A i \in DOMAIN slots : slots[i] # slot
  BY <1>2, <1>3 DEF RequestInv
<1>5. /\ slots' \in Seq({"chunk", "revision"} \X Nat) /\ RequestsDistinct'
      /\ \A i \in DOMAIN slots' : slots'[i] = slot \/ (i \in DOMAIN slots /\ slots'[i] = slots[i])
  BY <1>1, <1>3, <1>4, NewRequestLemma
<1>6. \A i \in DOMAIN slots : slots[i] \in {"chunk", "revision"} \X Nat
  BY DEF RequestInv
<1>7. \A i \in DOMAIN slots' : IF slots'[i][1] = "chunk" THEN slots'[i][2] < index'
                               ELSE slots'[i][2] <= RevisionsMade'
  BY <1>1, <1>2, <1>3, <1>5, <1>6 DEF RequestInv
<1> QED BY <1>1, <1>2, <1>5, <1>7 DEF RequestInv

LEMMA RequestNextInv == RequestInv /\ [SumNext]_sumVars => RequestInv'
<1> SUFFICES ASSUME RequestInv, [SumNext]_sumVars PROVE RequestInv'
  OBVIOUS
<1>1. CASE UNCHANGED <<slots, index>>
  BY <1>1 DEF RequestInv, RevisionsMade, RequestsDistinct
<1>2. CASE SumBegins
  BY <1>1, <1>2 DEF SumBegins
<1>3. CASE Draft \/ Repair
  BY <1>1, <1>3 DEF Draft, Repair
<1>4. CASE MergeRound
  BY <1>1, <1>4 DEF MergeRound, MergeIndex
<1>5. CASE UNCHANGED sumVars
  BY <1>1, <1>5 DEF sumVars
<1> QED BY <1>2, <1>3, <1>4, <1>5, CallInv, ReviseInv DEF SumNext

\* No two requests of an attempt share an idempotency key, whichever rounds,
\* chunks, failures and revisions it goes through.
THEOREM RequestKeysDistinct == SumSpec => []RequestsDistinct
<1>1. RequestInv => RequestsDistinct
  BY DEF RequestInv
<1> QED BY <1>1, RequestInitInv, RequestNextInv, PTL DEF SumSpec

-----------------------------------------------------------------------------
(* The segment planner.                                                    *)

\* Turns and segments inside a recording.
Bounds(limit) ==
  {t \in [speaker : Speakers, start : 0 .. limit, end : 0 .. limit] : t.start <= t.end}
Spans(limit) == {t \in Bounds(limit) : t.start < t.end}

\* A moment of a speaker lies in one of some segments.
Covered(s, speaker, at) ==
  \E k \in 1 .. Len(s) : s[k].speaker = speaker /\ s[k].start <= at /\ at < s[k].end

Ordered(s) == \A k \in 1 .. Len(s) - 1 : s[k].end <= s[k + 1].start

LEMMA MergeNextType ==
  ASSUME NEW limit \in Nat, NEW m \in Seq(Spans(limit)), NEW t \in Bounds(limit)
  PROVE  MergeNext(m, t) \in Seq(Spans(limit))
<1>1. CASE ~NonEmpty(t)
  BY <1>1 DEF MergeNext
<1>2. CASE NonEmpty(t)
  <2>1. t \in Spans(limit)
    BY <1>2 DEF NonEmpty, Spans
  <2>2. CASE m # <<>>
    <3>1. Len(m) \in 1 .. Len(m) /\ m[Len(m)] \in Spans(limit)
      BY <2>2
    <3>2. Joined(m[Len(m)], t) \in Spans(limit)
      BY <2>1, <3>1 DEF Joined, Greater, Spans, Bounds
    <3>3. [m EXCEPT ![Len(m)] = Joined(@, t)] \in Seq(Spans(limit))
      BY <3>1, <3>2
    <3> QED BY <1>2, <2>1, <2>2, <3>3 DEF MergeNext
  <2>3. CASE m = <<>>
    BY <1>2, <2>1, <2>3 DEF MergeNext
  <2> QED BY <2>2, <2>3
<1> QED BY <1>1, <1>2

LEMMA ClipLemma ==
  ASSUME NEW limit \in Nat, NEW t \in Bounds(limit) PROVE Clip(t, limit) = t
<1>1. t \in [speaker : Speakers, start : 0 .. limit, end : 0 .. limit] /\ t.start <= t.end
  BY DEF Bounds
<1>2. Lesser(t.start, limit) = t.start
  BY <1>1 DEF Lesser
<1>3. Lesser(t.end, limit) = t.end
  BY <1>1 DEF Lesser
<1>4. Greater(t.start, t.end) = t.end
  BY <1>1 DEF Greater
<1>5. Clip(t, limit) = [t EXCEPT !.start = t.start, !.end = t.end]
  BY <1>2, <1>3, <1>4 DEF Clip
<1> QED BY <1>1, <1>5

LEMMA MergedFunction ==
  ASSUME NEW limit \in Nat, NEW ts \in Seq(Bounds(limit))
  PROVE  \E f : /\ f[0] = <<>> /\ \A n \in 1 .. Len(ts) : f[n] = MergeNext(f[n - 1], ts[n])
                /\ Merged(ts, limit) = f[Len(ts)]
<1> DEFINE After(m, n) == MergeNext(m, Clip(ts[n], limit))
           Fcn(g, k) == g = [n \in 0 .. k |-> IF n = 0 THEN <<>> ELSE After(g[n - 1], n)]
           Good == {k \in Nat : \E g : Fcn(g, k)}
<1>1. 0 \in Good
  <2>1. Fcn([n \in 0 .. 0 |-> <<>>], 0)
    OBVIOUS
  <2> QED BY <2>1
<1>2. ASSUME NEW k \in Nat, k \in Good PROVE k + 1 \in Good
  <2> HIDE DEF After
  <2>1. PICK g : Fcn(g, k)
    BY <1>2
  <2> DEFINE h == [n \in 0 .. k + 1 |-> IF n = k + 1 THEN After(g[k], k + 1) ELSE g[n]]
  <2>2. ASSUME NEW n \in 0 .. k + 1
        PROVE  h[n] = IF n = 0 THEN <<>> ELSE After(h[n - 1], n)
    BY <2>1
  <2>3. Fcn(h, k + 1)
    BY <2>2
  <2> HIDE DEF h, Fcn
  <2> QED BY <2>3
<1>3. Len(ts) \in Good
  <2> HIDE DEF Good
  <2> QED BY <1>1, <1>2, SetInduction
<1>4. PICK f : Fcn(f, Len(ts)) /\ f = CHOOSE g : Fcn(g, Len(ts))
  BY <1>3
<1>5. Merged(ts, limit) = f[Len(ts)]
  BY <1>4 DEF Merged
<1>6. f[0] = <<>> /\ \A n \in 1 .. Len(ts) : f[n] = After(f[n - 1], n)
  <2> HIDE DEF After
  <2> QED BY <1>4, SMTT(30)
<1>7. \A n \in 1 .. Len(ts) : Clip(ts[n], limit) = ts[n]
  BY ClipLemma
<1> QED BY <1>5, <1>6, <1>7

\* What merging makes of sorted turns: it covers each moment of each turn with
\* its speaker, and does not overlap if they do not.
LEMMA MergedLemma ==
  ASSUME NEW limit \in Nat, NEW ts \in Seq(Bounds(limit)),
         \A i, j \in 1 .. Len(ts) : i < j => ts[i].start <= ts[j].start
  PROVE  LET m == Merged(ts, limit) IN
         /\ m \in Seq(Spans(limit))
         /\ \A i \in 1 .. Len(ts) : \A at \in ts[i].start .. ts[i].end - 1 : Covered(m, ts[i].speaker, at)
         /\ (\A i, j \in 1 .. Len(ts) : i = j \/ ts[i].end <= ts[j].start \/ ts[j].end <= ts[i].start)
              => Ordered(m)
<1> DEFINE N == Len(ts)
           Disjoint == \A i, j \in 1 .. N : i = j \/ ts[i].end <= ts[j].start \/ ts[j].end <= ts[i].start
<1>1. PICK f : /\ f[0] = <<>> /\ \A n \in 1 .. N : f[n] = MergeNext(f[n - 1], ts[n])
               /\ Merged(ts, limit) = f[N]
  BY MergedFunction
<1> DEFINE Inv(m, n) ==
             /\ m \in Seq(Spans(limit))
             /\ \A i \in 1 .. n : \A at \in ts[i].start .. ts[i].end - 1 : Covered(m, ts[i].speaker, at)
             /\ m # <<>> => n > 0 /\ m[Len(m)].start <= ts[n].start
             /\ Disjoint => /\ Ordered(m)
                            /\ \A k \in 1 .. Len(m) : \E i \in 1 .. n :
                                 ts[i].start < ts[i].end /\ m[k].end = ts[i].end
           Good == {n \in Nat : n <= N => Inv(f[n], n)}
<1>2. 0 \in Good
  <2>1. <<>> \in Seq(Spans(limit)) /\ Len(<<>>) = 0
    OBVIOUS
  <2>2. Inv(<<>>, 0)
    BY <2>1 DEF Ordered
  <2> HIDE DEF Inv
  <2> QED BY <1>1, <2>2
<1>3. ASSUME NEW n \in Nat, n \in Good, n + 1 <= N PROVE Inv(f[n + 1], n + 1)
  <2> DEFINE m == f[n]
             t == ts[n + 1]
             last == Len(m)
             r == MergeNext(m, t)
  <2>1. Inv(m, n)
    <3>1. N \in Nat
      OBVIOUS
    <3>2. n <= N
      BY <1>3, <3>1
    <3> HIDE DEF Inv
    <3> QED BY <1>3, <3>2
  <2>2. n + 1 \in 1 .. N /\ (n + 1) - 1 = n /\ N \in Nat
    BY <1>3
  <2>3. f[n + 1] = r
    BY <1>1, <2>2
  <2>4. t \in Bounds(limit) /\ \A i \in 1 .. n : ts[i] \in Bounds(limit) /\ ts[i].start <= t.start
    BY <1>3, <2>2
  <2>5. /\ m \in Seq(Spans(limit)) /\ last \in Nat
        /\ \A k \in 1 .. last : m[k] \in Spans(limit)
    BY <2>1
  <2>6. /\ t.speaker \in Speakers /\ t.start \in Nat /\ t.end \in Nat /\ t.start <= t.end
        /\ \A i \in 1 .. n : ts[i].start \in Nat /\ ts[i].end \in Nat
        /\ \A k \in 1 .. last : m[k].start \in Nat /\ m[k].end \in Nat
    BY <2>4, <2>5, SMTT(30) DEF Bounds, Spans
  <2>7. r \in Seq(Spans(limit))
    BY <2>4, <2>5, MergeNextType
  <2>8. \A i \in 1 .. n : \A at \in ts[i].start .. ts[i].end - 1 : Covered(m, ts[i].speaker, at)
    BY <2>1
  <2>9. CASE ~NonEmpty(t)
    <3>1. r = m
      BY <2>9 DEF MergeNext
    <3>2. \A i \in 1 .. n + 1 : i \in 1 .. n \/ i = n + 1
      BY <1>3
    <3>3. t.start .. t.end - 1 = {}
      BY <2>6, <2>9 DEF NonEmpty
    <3>4. \A i \in 1 .. n + 1 : \A at \in ts[i].start .. ts[i].end - 1 : Covered(r, ts[i].speaker, at)
      BY <2>8, <3>1, <3>2, <3>3
    <3>5. r # <<>> => n + 1 > 0 /\ r[Len(r)].start <= t.start
      <4>1. CASE m # <<>>
        <5>1. n \in 1 .. n /\ last \in 1 .. last /\ m[last].start <= ts[n].start
          BY <2>1, <2>5, <4>1, <1>3, SMTT(30)
        <5>2. ts[n].start <= t.start
          BY <2>4, <5>1
        <5>3. ts[n].start \in Nat /\ m[last].start \in Nat
          BY <2>6, <5>1
        <5>4. m[last].start <= t.start
          BY <2>6, <5>1, <5>2, <5>3, SMTT(30)
        <5> QED BY <1>3, <3>1, <5>4
      <4> QED BY <4>1, <3>1
    <3>6. Disjoint => /\ Ordered(r)
                      /\ \A k \in 1 .. Len(r) : \E i \in 1 .. n + 1 :
                           ts[i].start < ts[i].end /\ r[k].end = ts[i].end
      <4>1. \A i \in 1 .. n : i \in 1 .. n + 1
        BY <1>3
      <4> QED BY <2>1, <3>1, <4>1
    <3> QED BY <2>3, <2>7, <3>4, <3>5, <3>6
  <2>10. CASE NonEmpty(t) /\ m # <<>> /\ Joins(m[last], t)
    <3> DEFINE prev == m[last]
    <3>1. r = [m EXCEPT ![last] = Joined(prev, t)] /\ Len(r) = last
      BY <2>10, <2>5 DEF MergeNext
    <3>2. last \in 1 .. last /\ prev \in Spans(limit) /\ prev.speaker = t.speaker /\ t.start < t.end
      BY <2>10, <2>5 DEF Joins, NonEmpty
    <3>3. /\ r[last] = Joined(prev, t)
          /\ \A k \in 1 .. last : k # last => r[k] = m[k]
      BY <3>1, <3>2, <2>5
    <3>4. Joined(prev, t) = [prev EXCEPT !.end = IF prev.end < t.end THEN t.end ELSE prev.end]
      BY DEF Joined, Greater
    <3>5. /\ Joined(prev, t).speaker = prev.speaker /\ Joined(prev, t).start = prev.start
          /\ Joined(prev, t).end = IF prev.end < t.end THEN t.end ELSE prev.end
      BY <3>4, <3>2 DEF Spans, Bounds
    <3>6. \A k \in 1 .. last : r[k].speaker = m[k].speaker /\ r[k].start = m[k].start /\ m[k].end <= r[k].end
      <4> SUFFICES ASSUME NEW k \in 1 .. last
                   PROVE  r[k].speaker = m[k].speaker /\ r[k].start = m[k].start /\ m[k].end <= r[k].end
        OBVIOUS
      <4>1. m[k].end \in Nat
        BY <2>6
      <4>2. CASE k = last
        BY <4>1, <4>2, <3>3, <3>5, <2>6
      <4>3. CASE k # last
        <5>1. r[k] = m[k]
          BY <4>3, <3>3
        <5> QED BY <4>1, <5>1
      <4> QED BY <4>2, <4>3
    <3>7. \A i \in 1 .. n : \A at \in ts[i].start .. ts[i].end - 1 : Covered(r, ts[i].speaker, at)
      <4> SUFFICES ASSUME NEW i \in 1 .. n, NEW at \in ts[i].start .. ts[i].end - 1
                   PROVE  Covered(r, ts[i].speaker, at)
        OBVIOUS
      <4>1. PICK k \in 1 .. last : m[k].speaker = ts[i].speaker /\ m[k].start <= at /\ at < m[k].end
        BY <2>8 DEF Covered
      <4>2. m[k].end \in Nat /\ r[k].end \in Nat /\ at \in Int
        <5>1. r[k] \in Spans(limit)
          BY <2>7, <3>1
        <5>2. r[k].end \in Nat
          BY <5>1 DEF Spans, Bounds
        <5> QED BY <5>2, <2>6, SMTT(30)
      <4>3. at < r[k].end
        BY <4>1, <4>2, <3>6, SMTT(30)
      <4> QED BY <4>1, <4>3, <3>6, <3>1 DEF Covered
    <3>8. n > 0 /\ prev.start <= t.start
      <4>1. n \in 1 .. n /\ prev.start <= ts[n].start
        BY <2>1, <2>10, <1>3
      <4>2. ts[n].start <= t.start
        BY <2>4, <4>1
      <4>3. ts[n].start \in Nat /\ prev.start \in Nat
        BY <2>6, <4>1, <3>2
      <4>4. prev.start <= t.start
        BY <2>6, <4>1, <4>2, <4>3, SMTT(30)
      <4> QED BY <4>1, <4>4
    <3>9. \A at \in t.start .. t.end - 1 : Covered(r, t.speaker, at)
      <4> SUFFICES ASSUME NEW at \in t.start .. t.end - 1 PROVE Covered(r, t.speaker, at)
        OBVIOUS
      <4>1. prev.start \in Nat /\ prev.end \in Nat
        BY <2>6, <3>2
      <4>2. prev.start <= at /\ at < Joined(prev, t).end
        <5>2. at \in Int /\ t.start <= at /\ at < t.end
          BY <2>6
        <5>1. prev.start <= at
          <6> HIDE DEF prev, t
          <6> QED BY <3>8, <4>1, <5>2, <2>6
        <5>3. Joined(prev, t).end \in Nat /\ t.end <= Joined(prev, t).end
          BY <3>5, <4>1, <2>6, SMTT(30)
        <5> QED BY <5>1, <5>2, <5>3, <2>6
      <4> QED BY <4>2, <3>1, <3>2, <3>3, <3>5 DEF Covered
    <3>10. \A i \in 1 .. n + 1 : i \in 1 .. n \/ i = n + 1
      BY <1>3
    <3>11. \A i \in 1 .. n + 1 : \A at \in ts[i].start .. ts[i].end - 1 : Covered(r, ts[i].speaker, at)
      BY <3>7, <3>9, <3>10
    <3>12. r # <<>> => n + 1 > 0 /\ r[Len(r)].start <= t.start
      BY <3>1, <3>3, <3>5, <3>8, <1>3
    <3>13. ASSUME Disjoint
           PROVE  /\ Ordered(r)
                  /\ \A k \in 1 .. Len(r) : \E i \in 1 .. n + 1 :
                       ts[i].start < ts[i].end /\ r[k].end = ts[i].end
      <4>1. Ordered(m) /\ \A k \in 1 .. last : \E i \in 1 .. n :
                           ts[i].start < ts[i].end /\ m[k].end = ts[i].end
        BY <2>1, <3>13
      <4>2. Ordered(r)
        <5> SUFFICES ASSUME NEW k \in 1 .. last - 1 PROVE r[k].end <= r[k + 1].start
          BY <3>1 DEF Ordered
        <5>1. k \in 1 .. last /\ k + 1 \in 1 .. last /\ k # last
          BY <2>5
        <5>2. m[k].end <= m[k + 1].start
          BY <4>1 DEF Ordered
        <5> QED BY <5>1, <5>2, <3>3, <3>6
      <4>3. ASSUME NEW k \in 1 .. Len(r)
            PROVE  \E i \in 1 .. n + 1 : ts[i].start < ts[i].end /\ r[k].end = ts[i].end
        <5>1. PICK i \in 1 .. n : ts[i].start < ts[i].end /\ m[k].end = ts[i].end
          BY <4>1, <4>3, <3>1
        <5>2. r[k].end = m[k].end \/ r[k].end = t.end
          BY <3>1, <3>3, <3>5
        <5>3. i \in 1 .. n + 1
          BY <1>3
        <5> QED BY <5>1, <5>2, <5>3, <3>2, <2>2
      <4> QED BY <4>2, <4>3
    <3> HIDE DEF Disjoint
    <3> QED BY <2>3, <2>7, <3>11, <3>12, <3>13
  <2>11. CASE NonEmpty(t) /\ ~(m # <<>> /\ Joins(m[last], t))
    <3>1. r = Append(m, t)
      BY <2>11 DEF MergeNext
    <3>2. t.start < t.end /\ t \in Spans(limit)
      BY <2>11, <2>4 DEF NonEmpty, Spans
    <3>3. Len(r) = last + 1 /\ r[last + 1] = t /\ \A k \in 1 .. last : r[k] = m[k] /\ k \in 1 .. Len(r)
      BY <3>1, <3>2, <2>5
    <3>4. \A i \in 1 .. n : \A at \in ts[i].start .. ts[i].end - 1 : Covered(r, ts[i].speaker, at)
      <4> SUFFICES ASSUME NEW i \in 1 .. n, NEW at \in ts[i].start .. ts[i].end - 1
                   PROVE  Covered(r, ts[i].speaker, at)
        OBVIOUS
      <4>1. PICK k \in 1 .. last : m[k].speaker = ts[i].speaker /\ m[k].start <= at /\ at < m[k].end
        BY <2>8 DEF Covered
      <4> QED BY <4>1, <3>3 DEF Covered
    <3>5. \A at \in t.start .. t.end - 1 : Covered(r, t.speaker, at)
      <4>1. last + 1 \in 1 .. Len(r)
        BY <3>3, <2>5
      <4>2. \A at \in t.start .. t.end - 1 : t.start <= at /\ at < t.end
        BY <2>6
      <4> QED BY <3>3, <4>1, <4>2 DEF Covered
    <3>6. \A i \in 1 .. n + 1 : i \in 1 .. n \/ i = n + 1
      BY <1>3
    <3>7. \A i \in 1 .. n + 1 : \A at \in ts[i].start .. ts[i].end - 1 : Covered(r, ts[i].speaker, at)
      BY <3>4, <3>5, <3>6
    <3>8. r # <<>> => n + 1 > 0 /\ r[Len(r)].start <= t.start
      BY <3>3, <2>6, <1>3
    <3>9. ASSUME Disjoint
          PROVE  /\ Ordered(r)
                 /\ \A k \in 1 .. Len(r) : \E i \in 1 .. n + 1 :
                      ts[i].start < ts[i].end /\ r[k].end = ts[i].end
      <4>1. Ordered(m) /\ \A k \in 1 .. last : \E i \in 1 .. n :
                           ts[i].start < ts[i].end /\ m[k].end = ts[i].end
        BY <2>1, <3>9
      <4>2. Ordered(r)
        <5> SUFFICES ASSUME NEW k \in 1 .. last PROVE r[k].end <= r[k + 1].start
          BY <3>3 DEF Ordered
        <5>1. CASE k = last
          <6>1. PICK i \in 1 .. n : ts[i].start < ts[i].end /\ m[k].end = ts[i].end
            BY <4>1
          <6>2. i \in 1 .. N /\ i # n + 1 /\ n + 1 \in 1 .. N
            BY <2>2, <1>3, SMTT(30)
          <6>3. ts[i].end <= t.start \/ t.end <= ts[i].start
            BY <3>9, <6>2
          <6>4. ts[i].end <= t.start
            BY <6>1, <6>3, <3>2, <2>4, <2>6, SMTT(30)
          <6> QED BY <5>1, <6>1, <6>4, <3>3
        <5>2. CASE k # last
          <6>1. k \in 1 .. last - 1 /\ k + 1 \in 1 .. last
            BY <5>2, <2>5
          <6> QED BY <6>1, <4>1, <3>3 DEF Ordered
        <5> QED BY <5>1, <5>2
      <4>3. ASSUME NEW k \in 1 .. Len(r)
            PROVE  \E i \in 1 .. n + 1 : ts[i].start < ts[i].end /\ r[k].end = ts[i].end
        <5>1. CASE k = last + 1
          <6>1. n + 1 \in 1 .. n + 1
            BY <1>3
          <6> QED BY <5>1, <3>3, <3>2, <6>1
        <5>2. CASE k # last + 1
          <6>1. k \in 1 .. last
            BY <5>2, <3>3, <2>5
          <6>2. \A i \in 1 .. n : i \in 1 .. n + 1
            BY <1>3
          <6> QED BY <6>1, <6>2, <4>1, <3>3
        <5> QED BY <5>1, <5>2
      <4> QED BY <4>2, <4>3
    <3> HIDE DEF Disjoint
    <3> QED BY <2>3, <2>7, <3>7, <3>8, <3>9
  <2> QED BY <2>9, <2>10, <2>11
<1>4. ASSUME NEW n \in Nat, n \in Good PROVE n + 1 \in Good
  <2> HIDE DEF Inv
  <2> QED BY <1>3, <1>4
<1>5. N \in Good
  <2> HIDE DEF Good
  <2> QED BY <1>2, <1>4, SetInduction
<1>6. Inv(f[N], N)
  <2> HIDE DEF Inv
  <2> QED BY <1>5
<1> QED BY <1>1, <1>6

\* What the loop of a split does.
LEMMA SplitFunction ==
  ASSUME NEW limit \in Nat, NEW t \in Spans(limit)
  PROVE  \E f : /\ f[0] = <<>> /\ \A n \in 1 .. t.end - t.start : f[n] = SplitNext(f[n - 1], t)
                /\ Split(t) = f[t.end - t.start]
<1> DEFINE After(s, n) == SplitNext(s, t)
           Fcn(g, k) == g = [n \in 0 .. k |-> IF n = 0 THEN <<>> ELSE After(g[n - 1], n)]
           Good == {k \in Nat : \E g : Fcn(g, k)}
<1>1. 0 \in Good
  <2>1. Fcn([n \in 0 .. 0 |-> <<>>], 0)
    OBVIOUS
  <2> QED BY <2>1
<1>2. ASSUME NEW k \in Nat, k \in Good PROVE k + 1 \in Good
  <2> HIDE DEF After
  <2>1. PICK g : Fcn(g, k)
    BY <1>2
  <2> DEFINE h == [n \in 0 .. k + 1 |-> IF n = k + 1 THEN After(g[k], k + 1) ELSE g[n]]
  <2>2. ASSUME NEW n \in 0 .. k + 1
        PROVE  h[n] = IF n = 0 THEN <<>> ELSE After(h[n - 1], n)
    BY <2>1
  <2>3. Fcn(h, k + 1)
    BY <2>2
  <2> HIDE DEF h, Fcn
  <2> QED BY <2>3
<1>3. t.end - t.start \in Nat
  BY DEF Spans, Bounds
<1>4. t.end - t.start \in Good
  <2> HIDE DEF Good
  <2> QED BY <1>1, <1>2, <1>3, SetInduction
<1>5. PICK f : Fcn(f, t.end - t.start) /\ f = CHOOSE g : Fcn(g, t.end - t.start)
  BY <1>4
<1>6. Split(t) = f[t.end - t.start]
  BY <1>5 DEF Split
<1>7. f[0] = <<>> /\ \A n \in 1 .. t.end - t.start : f[n] = After(f[n - 1], n)
  <2> HIDE DEF After
  <2> QED BY <1>3, <1>5
<1> QED BY <1>6, <1>7

\* A split cuts a turn into pieces that follow each other, none of them longer
\* than MaxSegment.
LEMMA SplitLemma ==
  ASSUME NEW limit \in Nat, NEW t \in Spans(limit)
  PROVE  LET s == Split(t) IN
         /\ s \in Seq(Spans(limit))
         /\ \A k \in 1 .. Len(s) : t.start <= s[k].start /\ s[k].end <= t.end /\ s[k].end <= s[k].start + MaxSegment
         /\ Ordered(s)
         /\ \A at \in t.start .. t.end - 1 : Covered(s, t.speaker, at)
<1> DEFINE N == t.end - t.start
           Cursor(s) == IF s = <<>> THEN t.start ELSE s[Len(s)].end
<1>1. /\ t.start \in Nat /\ t.end \in Nat /\ t.start < t.end /\ t.end <= limit
      /\ t.speaker \in Speakers /\ N \in Nat /\ MaxSegment \in Nat \ {0}
  BY JobAssumption DEF Spans, Bounds
<1>2. PICK f : /\ f[0] = <<>> /\ \A n \in 1 .. N : f[n] = SplitNext(f[n - 1], t)
               /\ Split(t) = f[N]
  BY SplitFunction
<1> DEFINE Inv(s, n) ==
             /\ s \in Seq(Spans(limit))
             /\ \A k \in 1 .. Len(s) : t.start <= s[k].start /\ s[k].end <= t.end /\ s[k].end <= s[k].start + MaxSegment
             /\ Ordered(s)
             /\ Cursor(s) \in Nat /\ t.start <= Cursor(s) /\ Cursor(s) <= t.end
             /\ Cursor(s) >= t.start + n
             /\ \A at \in t.start .. Cursor(s) - 1 : Covered(s, t.speaker, at)
           Good == {n \in Nat : n <= N => Inv(f[n], n)}
<1>3. 0 \in Good
  <2>1. <<>> \in Seq(Spans(limit)) /\ Len(<<>>) = 0
    OBVIOUS
  <2>2. Inv(<<>>, 0)
    BY <1>1, <2>1 DEF Ordered
  <2> HIDE DEF Inv
  <2> QED BY <1>2, <2>2
<1>4. ASSUME NEW n \in Nat, n \in Good, n + 1 <= N PROVE Inv(f[n + 1], n + 1)
  <2> DEFINE s == f[n]
             r == SplitNext(s, t)
             last == Len(s)
             cursor == Cursor(s)
             to == IF cursor + MaxSegment < t.end THEN cursor + MaxSegment ELSE t.end
             piece == [t EXCEPT !.start = cursor, !.end = to]
  <2>1. Inv(s, n)
    <3>1. n <= N
      BY <1>1, <1>4
    <3> HIDE DEF Inv
    <3> QED BY <1>4, <3>1
  <2>2. n + 1 \in 1 .. N /\ (n + 1) - 1 = n
    BY <1>1, <1>4
  <2>3. f[n + 1] = r
    BY <1>2, <2>2
  <2>4. cursor \in Nat /\ t.start <= cursor /\ cursor <= t.end /\ cursor >= t.start + n
    BY <2>1
  <2>5. CASE cursor >= t.end
    <3>1. r = s
      BY <2>5 DEF SplitNext
    <3>2. cursor >= t.start + (n + 1)
      <4> HIDE DEF cursor
      <4> QED BY <1>1, <1>4, <2>4, <2>5
    <3> QED BY <2>1, <2>3, <3>1, <3>2
  <2>6. CASE ~(cursor >= t.end)
    <3> DEFINE r1 == Append(s, piece)
    <3>1. r = Append(s, piece)
      BY <2>6 DEF SplitNext, Lesser
    <3>2. /\ to \in Nat /\ cursor < to /\ to <= t.end /\ to <= cursor + MaxSegment
          /\ to >= t.start + (n + 1) /\ cursor <= limit /\ to <= limit
      <4> HIDE DEF cursor
      <4> QED BY <1>1, <2>4, <2>6
    <3>3. piece.start = cursor /\ piece.end = to /\ piece.speaker = t.speaker
      BY DEF Spans, Bounds
    <3>4. piece \in Spans(limit)
      <4> HIDE DEF cursor, to
      <4>1. cursor \in 0 .. limit /\ to \in 0 .. limit
        BY <3>2, <2>4
      <4>2. t \in [speaker : Speakers, start : 0 .. limit, end : 0 .. limit]
        BY DEF Spans, Bounds
      <4>3. piece \in [speaker : Speakers, start : 0 .. limit, end : 0 .. limit]
        BY <4>1, <4>2
      <4>4. piece.start <= piece.end /\ piece.start < piece.end
        BY <3>2, <3>3, <2>4
      <4> QED BY <4>3, <4>4 DEF Spans, Bounds
    <3>5. /\ s \in Seq(Spans(limit)) /\ last \in Nat
          /\ \A k \in 1 .. last : s[k] \in Spans(limit)
      BY <2>1
    <3> HIDE DEF piece, cursor, to
    <3>6. /\ r \in Seq(Spans(limit)) /\ Len(r) = last + 1 /\ r[last + 1] = piece
          /\ \A k \in 1 .. last : r[k] = s[k] /\ k \in 1 .. Len(r)
      BY <3>1, <3>4, <3>5
    <3>7. ASSUME NEW k \in 1 .. Len(r)
          PROVE  t.start <= r[k].start /\ r[k].end <= t.end /\ r[k].end <= r[k].start + MaxSegment
      <4>1. CASE k = last + 1
        BY <4>1, <3>2, <3>3, <3>6, <2>4
      <4>2. CASE k # last + 1
        <5>1. k \in 1 .. last
          BY <4>2, <3>5, <3>6
        <5> QED BY <5>1, <3>6, <2>1
      <4> QED BY <4>1, <4>2
    <3>8. Ordered(r)
      <4> SUFFICES ASSUME NEW k \in 1 .. last PROVE r[k].end <= r[k + 1].start
        BY <3>5, <3>6 DEF Ordered
      <4>1. CASE k = last
        <5>1. cursor = s[last].end /\ s # <<>>
          BY <4>1, <3>5 DEF cursor
        <5> QED BY <4>1, <5>1, <3>3, <3>6, <2>4, SMTT(30)
      <4>2. CASE k # last
        <5>1. k \in 1 .. last - 1 /\ k + 1 \in 1 .. last
          BY <4>2, <3>5
        <5> QED BY <5>1, <3>6, <2>1 DEF Ordered
      <4> QED BY <4>1, <4>2
    <3>9. Cursor(r) = to
      <4>1. r # <<>>
        BY <3>5, <3>6
      <4> QED BY <4>1, <3>3, <3>6
    <3>10. ASSUME NEW at \in t.start .. to - 1 PROVE Covered(r, t.speaker, at)
      <4>1. CASE at < cursor
        <5>1. at \in t.start .. cursor - 1
          BY <4>1, <1>1, <2>4, <3>2
        <5>2. Covered(s, t.speaker, at)
          BY <5>1, <2>1 DEF cursor
        <5> QED BY <5>2, <3>6 DEF Covered
      <4>2. CASE ~(at < cursor)
        <5>1. cursor <= at /\ at < to /\ last + 1 \in 1 .. Len(r)
          BY <4>2, <1>1, <2>4, <3>2, <3>5, <3>6
        <5> QED BY <5>1, <3>3, <3>6 DEF Covered
      <4> QED BY <4>1, <4>2
    <3>11. Cursor(r) \in Nat /\ t.start <= Cursor(r) /\ Cursor(r) <= t.end /\ Cursor(r) >= t.start + (n + 1)
      <4> HIDE DEF Cursor
      <4> QED BY <1>1, <2>4, <3>2, <3>9
    <3>12. \A at \in t.start .. Cursor(r) - 1 : Covered(r, t.speaker, at)
      <4> HIDE DEF Cursor
      <4> QED BY <3>9, <3>10
    <3> HIDE DEF Cursor, r
    <3> QED BY <2>3, <3>6, <3>7, <3>8, <3>11, <3>12
  <2> QED BY <2>5, <2>6
<1>5. ASSUME NEW n \in Nat, n \in Good PROVE n + 1 \in Good
  <2> HIDE DEF Inv
  <2> QED BY <1>1, <1>4, <1>5
<1>6. N \in Good
  <2> HIDE DEF Good
  <2> QED BY <1>1, <1>3, <1>5, SetInduction
<1>7. Inv(f[N], N)
  <2> HIDE DEF Inv
  <2> QED BY <1>1, <1>6
<1>8. Cursor(f[N]) = t.end
  <2> HIDE DEF Cursor
  <2> QED BY <1>1, <1>7
<1> HIDE DEF Cursor
<1> QED BY <1>2, <1>7, <1>8

\* What the loop over the merged turns does.
LEMMA PlanFunction ==
  ASSUME NEW limit, NEW ts, Len(Merged(ts, limit)) \in Nat
  PROVE  LET m == Merged(ts, limit) IN
         \E f : /\ f[0] = <<>> /\ \A n \in 1 .. Len(m) : f[n] = f[n - 1] \o Split(m[n])
                /\ PlanSegments(ts, limit) = f[Len(m)]
<1> DEFINE m == Merged(ts, limit)
           After(p, n) == p \o Split(m[n])
           Fcn(g, k) == g = [n \in 0 .. k |-> IF n = 0 THEN <<>> ELSE After(g[n - 1], n)]
           Good == {k \in Nat : \E g : Fcn(g, k)}
<1>1. 0 \in Good
  <2>1. Fcn([n \in 0 .. 0 |-> <<>>], 0)
    OBVIOUS
  <2> QED BY <2>1
<1>2. ASSUME NEW k \in Nat, k \in Good PROVE k + 1 \in Good
  <2> HIDE DEF After
  <2>1. PICK g : Fcn(g, k)
    BY <1>2
  <2> DEFINE h == [n \in 0 .. k + 1 |-> IF n = k + 1 THEN After(g[k], k + 1) ELSE g[n]]
  <2>2. ASSUME NEW n \in 0 .. k + 1
        PROVE  h[n] = IF n = 0 THEN <<>> ELSE After(h[n - 1], n)
    BY <2>1
  <2>3. Fcn(h, k + 1)
    BY <2>2
  <2> HIDE DEF h, Fcn
  <2> QED BY <2>3
<1>3. Len(m) \in Good
  <2> HIDE DEF Good
  <2> QED BY <1>1, <1>2, SetInduction
<1>4. PICK f : Fcn(f, Len(m)) /\ f = CHOOSE g : Fcn(g, Len(m))
  BY <1>3
<1>5. PlanSegments(ts, limit) = f[Len(m)]
  BY <1>4 DEF PlanSegments
<1>6. f[0] = <<>> /\ \A n \in 1 .. Len(m) : f[n] = After(f[n - 1], n)
  <2> HIDE DEF After
  <2> QED BY <1>4
<1> QED BY <1>5, <1>6

\* A moment that a sequence of segments covers, a longer one covers.
LEMMA CoveredConcat ==
  ASSUME NEW limit \in Nat, NEW p \in Seq(Spans(limit)), NEW s \in Seq(Spans(limit)), NEW speaker, NEW at,
         Covered(p, speaker, at) \/ Covered(s, speaker, at)
  PROVE  Covered(p \o s, speaker, at)
<1>1. Len(p) \in Nat /\ Len(s) \in Nat /\ Len(p \o s) = Len(p) + Len(s)
  OBVIOUS
<1>2. CASE Covered(p, speaker, at)
  <2>1. PICK k \in 1 .. Len(p) : p[k].speaker = speaker /\ p[k].start <= at /\ at < p[k].end
    BY <1>2 DEF Covered
  <2>2. k \in 1 .. Len(p \o s) /\ (p \o s)[k] = p[k]
    BY <1>1
  <2> QED BY <2>1, <2>2 DEF Covered
<1>3. CASE Covered(s, speaker, at)
  <2>1. PICK k \in 1 .. Len(s) : s[k].speaker = speaker /\ s[k].start <= at /\ at < s[k].end
    BY <1>3 DEF Covered
  <2>2. Len(p) + k \in 1 .. Len(p \o s) /\ (p \o s)[Len(p) + k] = s[k]
    BY <1>1
  <2> QED BY <2>1, <2>2 DEF Covered
<1> QED BY <1>2, <1>3

\* The plan covers what the merged turns cover, and keeps their order.
LEMMA PlanLemma ==
  ASSUME NEW limit \in Nat, NEW ts, NEW m \in Seq(Spans(limit)), m = Merged(ts, limit)
  PROVE  LET p == PlanSegments(ts, limit) IN
         /\ p \in Seq(Spans(limit))
         /\ \A k \in 1 .. Len(p) : p[k].end <= p[k].start + MaxSegment
         /\ \A i \in 1 .. Len(m) : \A at \in m[i].start .. m[i].end - 1 : Covered(p, m[i].speaker, at)
         /\ Ordered(m) => Ordered(p)
<1> DEFINE N == Len(m)
<1>1. PICK f : /\ f[0] = <<>> /\ \A n \in 1 .. N : f[n] = f[n - 1] \o Split(m[n])
               /\ PlanSegments(ts, limit) = f[N]
  <2>1. Len(m) \in Nat
    OBVIOUS
  <2> QED BY <2>1, PlanFunction
<1> DEFINE Inv(p, n) ==
             /\ p \in Seq(Spans(limit))
             /\ \A k \in 1 .. Len(p) : p[k].end <= p[k].start + MaxSegment
             /\ \A i \in 1 .. n : \A at \in m[i].start .. m[i].end - 1 : Covered(p, m[i].speaker, at)
             /\ Ordered(m) => /\ Ordered(p)
                              /\ p # <<>> => n > 0 /\ p[Len(p)].end <= m[n].end
           Good == {n \in Nat : n <= N => Inv(f[n], n)}
<1>2. 0 \in Good
  <2>1. <<>> \in Seq(Spans(limit)) /\ Len(<<>>) = 0
    OBVIOUS
  <2>2. Inv(<<>>, 0)
    BY <2>1 DEF Ordered
  <2> HIDE DEF Inv
  <2> QED BY <1>1, <2>2
<1>3. ASSUME NEW n \in Nat, n \in Good, n + 1 <= N PROVE Inv(f[n + 1], n + 1)
  <2> DEFINE p == f[n]
             t == m[n + 1]
             s == Split(t)
             r == p \o s
  <2>1. Inv(p, n)
    BY <1>3
  <2>2. n + 1 \in 1 .. N /\ (n + 1) - 1 = n /\ N \in Nat
    BY <1>3
  <2>3. f[n + 1] = r
    BY <1>1, <2>2
  <2>4. t \in Spans(limit)
    BY <2>2
  <2>5. /\ s \in Seq(Spans(limit))
        /\ \A k \in 1 .. Len(s) : t.start <= s[k].start /\ s[k].end <= t.end /\ s[k].end <= s[k].start + MaxSegment
        /\ Ordered(s)
        /\ \A at \in t.start .. t.end - 1 : Covered(s, t.speaker, at)
    BY <2>4, SplitLemma
  <2> HIDE DEF s, t
  <2>6. p \in Seq(Spans(limit)) /\ \A k \in 1 .. Len(p) : p[k].end <= p[k].start + MaxSegment
    BY <2>1
  <2> HIDE DEF p
  <2>7. /\ r \in Seq(Spans(limit)) /\ Len(p) \in Nat /\ Len(s) \in Nat /\ Len(r) = Len(p) + Len(s)
        /\ \A k \in 1 .. Len(p) : r[k] = p[k]
        /\ \A k \in 1 .. Len(s) : r[Len(p) + k] = s[k]
    BY <2>5, <2>6
  <2>8. ASSUME NEW k \in 1 .. Len(r)
        PROVE  \/ k \in 1 .. Len(p) /\ r[k] = p[k]
               \/ \E j \in 1 .. Len(s) : k = Len(p) + j /\ r[k] = s[j]
    <3>1. CASE k <= Len(p)
      BY <3>1, <2>7
    <3>2. CASE ~(k <= Len(p))
      <4>1. k - Len(p) \in 1 .. Len(s) /\ Len(p) + (k - Len(p)) = k
        BY <3>2, <2>7
      <4> QED BY <4>1, <2>7
    <3> QED BY <3>1, <3>2
  <2>9. ASSUME NEW k \in 1 .. Len(r) PROVE r[k].end <= r[k].start + MaxSegment
    BY <2>5, <2>6, <2>8
  <2>10. ASSUME NEW i \in 1 .. n + 1, NEW at \in m[i].start .. m[i].end - 1
         PROVE  Covered(r, m[i].speaker, at)
    <3>1. CASE i = n + 1
      <4>1. Covered(s, m[i].speaker, at)
        BY <2>5, <3>1 DEF t
      <4> QED BY <4>1, <2>5, <2>6, CoveredConcat
    <3>2. CASE i # n + 1
      <4>1. i \in 1 .. n
        BY <3>2
      <4>2. Covered(p, m[i].speaker, at)
        BY <2>1, <4>1 DEF p
      <4> QED BY <4>2, <2>5, <2>6, CoveredConcat
    <3> QED BY <3>1, <3>2
  <2>11. /\ \A k \in 1 .. Len(p) : p[k].end \in Nat
         /\ \A k \in 1 .. Len(s) : s[k].start \in Nat /\ s[k].end \in Nat
         /\ t.start \in Nat /\ t.end \in Nat /\ t.start < t.end
    BY <2>4, <2>5, <2>6, SMTT(30) DEF Spans, Bounds
  <2>12. ASSUME Ordered(m)
         PROVE  Ordered(r) /\ (r # <<>> => n + 1 > 0 /\ r[Len(r)].end <= t.end)
    <3>1. Ordered(p) /\ (p # <<>> => n > 0 /\ p[Len(p)].end <= m[n].end)
      BY <2>1, <2>12 DEF p
    <3>2. p # <<>> => p[Len(p)].end <= t.start
      <4> SUFFICES ASSUME p # <<>> PROVE p[Len(p)].end <= t.start
        OBVIOUS
      <4>1. n \in 1 .. N - 1 /\ n \in 1 .. N /\ p[Len(p)].end <= m[n].end
        BY <2>2, <3>1
      <4>2. m[n].end <= t.start
        BY <4>1, <2>12 DEF Ordered, t
      <4>3. Len(p) \in 1 .. Len(p)
        BY <2>6
      <4>4. m[n].end \in Nat
        BY <4>1 DEF Spans, Bounds
      <4> QED BY <4>1, <4>2, <4>3, <4>4, <2>11
    <3>3. Ordered(r)
      <4> SUFFICES ASSUME NEW k \in 1 .. Len(r) - 1 PROVE r[k].end <= r[k + 1].start
        BY DEF Ordered
      <4>1. CASE k + 1 <= Len(p)
        <5>1. k \in 1 .. Len(p) - 1 /\ k \in 1 .. Len(p) /\ k + 1 \in 1 .. Len(p)
          BY <4>1, <2>7
        <5> QED BY <5>1, <2>7, <3>1 DEF Ordered
      <4>2. CASE k = Len(p)
        <5>1. k \in 1 .. Len(p) /\ 1 \in 1 .. Len(s) /\ p # <<>>
          BY <4>2, <2>7
        <5>2. r[k] = p[Len(p)] /\ r[k + 1] = s[1]
          BY <4>2, <5>1, <2>7
        <5>3. p[Len(p)].end <= t.start /\ t.start <= s[1].start
          BY <5>1, <3>2, <2>5
        <5>4. p[Len(p)].end \in Nat /\ s[1].start \in Nat
          BY <4>2, <5>1, <2>11
        <5> QED BY <5>2, <5>3, <5>4, <2>11, SMTT(30)
      <4>3. CASE k > Len(p)
        <5> DEFINE j == k - Len(p)
        <5>1. j \in 1 .. Len(s) - 1 /\ j \in 1 .. Len(s) /\ j + 1 \in 1 .. Len(s)
          BY <4>3, <2>7
        <5>2. k = Len(p) + j /\ k + 1 = Len(p) + (j + 1)
          BY <2>7
        <5> HIDE DEF j
        <5>3. r[k] = s[j] /\ r[k + 1] = s[j + 1]
          BY <5>1, <5>2, <2>7
        <5> QED BY <5>1, <5>3, <2>5 DEF Ordered
      <4> QED BY <4>1, <4>2, <4>3, <2>7
    <3>4. r # <<>> => n + 1 > 0 /\ r[Len(r)].end <= t.end
      <4> SUFFICES ASSUME r # <<>> PROVE r[Len(r)].end <= t.end
        OBVIOUS
      <4>1. Len(r) \in 1 .. Len(r)
        BY <2>7
      <4>2. CASE Len(s) = 0
        <5>1. Len(r) = Len(p) /\ p # <<>> /\ Len(p) \in 1 .. Len(p)
          BY <4>1, <4>2, <2>7
        <5>2. r[Len(r)] = p[Len(p)]
          BY <5>1, <2>7
        <5> QED BY <5>1, <5>2, <3>2, <2>11
      <4>3. CASE Len(s) # 0
        <5>1. Len(s) \in 1 .. Len(s)
          BY <4>3, <2>7
        <5>2. r[Len(r)] = s[Len(s)]
          BY <5>1, <2>7
        <5> QED BY <5>1, <5>2, <2>5
      <4> QED BY <4>2, <4>3
    <3> QED BY <3>3, <3>4
  <2> HIDE DEF r
  <2> QED BY <2>3, <2>7, <2>9, <2>10, <2>12 DEF t
<1>4. ASSUME NEW n \in Nat, n \in Good PROVE n + 1 \in Good
  <2> HIDE DEF Inv
  <2> QED BY <1>3, <1>4
<1>5. N \in Nat
  OBVIOUS
<1>6. N \in Good
  <2> HIDE DEF Good, N
  <2> QED BY <1>2, <1>4, <1>5, SetInduction
<1>7. Inv(f[N], N)
  <2> HIDE DEF Inv
  <2> QED BY <1>5, <1>6
<1> QED BY <1>1, <1>7

\* One sequence has the entries of the other in the order p.
Permutes(p, sorted, ts) ==
  /\ p \in [1 .. Len(ts) -> 1 .. Len(ts)]
  /\ \A i \in 1 .. Len(ts) : sorted[i] = ts[p[i]]
  /\ \A i, j \in 1 .. Len(ts) : p[i] = p[j] => i = j
  /\ \A i \in 1 .. Len(ts) : \E j \in 1 .. Len(ts) : p[j] = i

\* Sorting permutes the turns.
LEMMA SortedLemma ==
  ASSUME NEW limit \in Nat, NEW ts \in Seq(Bounds(limit)), NEW sorted \in Sorted(ts)
  PROVE  /\ sorted \in Seq(Bounds(limit)) /\ Len(sorted) = Len(ts)
         /\ \A i, j \in 1 .. Len(ts) : i < j => sorted[i].start <= sorted[j].start
         /\ \E p : Permutes(p, sorted, ts)
<1> DEFINE D == 1 .. Len(ts)
<1>1. Len(ts) \in Nat /\ DOMAIN ts = D
  OBVIOUS
<1>2. PICK p \in [D -> D] : /\ sorted = [i \in D |-> ts[p[i]]]
                            /\ \A i, j \in D : i < j => p[i] # p[j] /\ ~Earlier(ts[p[j]], ts[p[i]])
  BY <1>1 DEF Sorted
<1>3. \A i \in D : p[i] \in D /\ ts[p[i]] \in Bounds(limit) /\ sorted[i] = ts[p[i]]
  BY <1>2
<1>4. sorted \in Seq(Bounds(limit)) /\ Len(sorted) = Len(ts)
  BY <1>1, <1>2, <1>3
<1>5. ASSUME NEW i \in D, NEW j \in D, i < j PROVE sorted[i].start <= sorted[j].start
  <2>1. ~Earlier(sorted[j], sorted[i])
    BY <1>2, <1>3, <1>5
  <2>2. ~(sorted[j].start < sorted[i].start)
    BY <2>1 DEF Earlier
  <2>3. sorted[i].start \in Nat /\ sorted[j].start \in Nat
    <3>1. sorted[i] \in Bounds(limit) /\ sorted[j] \in Bounds(limit)
      BY <1>3
    <3> QED BY <3>1, SMTT(30) DEF Bounds
  <2> QED BY <2>2, <2>3
<1>6. \A i, j \in D : p[i] = p[j] => i = j
  BY <1>1, <1>2
<1>7. p \in Surjection(D, D)
  <2>1. IsFiniteSet(D)
    BY <1>1, FS_Interval
  <2>2. p \in Injection(D, D)
    BY <1>2, <1>6 DEF Injection, IsInjective
  <2> HIDE DEF D
  <2> QED BY <2>1, <2>2, FS_Injection
<1>8. \A i \in D : \E j \in D : p[j] = i
  BY <1>7 DEF Surjection
<1>9. Permutes(p, sorted, ts)
  BY <1>2, <1>3, <1>6, <1>8 DEF Permutes
<1> QED BY <1>4, <1>5, <1>9

\* The diarization gives turns inside the recording.
LEMMA DiarizationType ==
  ASSUME NEW limit \in Nat, NEW ts \in TurnSets
  PROVE  Diarization(ts, limit) \in Seq(Bounds(limit))
<1> DEFINE Clipped == {Clip(u, limit) : u \in ts}
           kept == {t \in Clipped : NonEmpty(t)}
<1>1. IsFiniteSet(ts) /\ ts \subseteq [speaker : Speakers, start : Nat, end : Nat] /\ 1 \in Speakers
  BY JobAssumption
<1>2. Clipped \subseteq Bounds(limit)
  <2> SUFFICES ASSUME NEW u \in ts PROVE Clip(u, limit) \in Bounds(limit)
    OBVIOUS
  <2> DEFINE from == IF u.start < limit THEN u.start ELSE limit
             upTo == IF u.end < limit THEN u.end ELSE limit
             to == IF from < upTo THEN upTo ELSE from
  <2>1. u \in [speaker : Speakers, start : Nat, end : Nat] /\ u.start \in Nat /\ u.end \in Nat
    BY <1>1
  <2>2. from \in 0 .. limit /\ to \in 0 .. limit /\ from <= to
    BY <2>1
  <2>3. Clip(u, limit) = [u EXCEPT !.start = from, !.end = to]
    BY DEF Clip, Lesser, Greater
  <2> HIDE DEF from, to
  <2> QED BY <2>1, <2>2, <2>3 DEF Bounds
<1>3. IsFiniteSet(kept)
  <2>1. [u \in ts |-> Clip(u, limit)] \in Surjection(ts, Clipped)
    BY DEF Surjection
  <2>2. IsFiniteSet(Clipped)
    BY <1>1, <2>1, FS_Surjection
  <2> QED BY <2>2, FS_Subset
<1>4. CASE kept = {}
  <2>1. [speaker |-> 1, start |-> 0, end |-> limit] \in Bounds(limit)
    BY <1>1 DEF Bounds
  <2> QED BY <1>4, <2>1 DEF Diarization
<1>5. CASE kept # {}
  <2> DEFINE n == Cardinality(kept)
  <2>1. n \in Nat /\ ExistsBijection(1 .. n, kept)
    BY <1>3, FS_CardinalityType
  <2>2. \E f \in [1 .. n -> kept] : IsInjective(f)
    BY <2>1 DEF ExistsBijection, Bijection, Injection
  <2>3. SetToSeq(kept) \in [1 .. n -> kept]
    BY <2>2 DEF SetToSeq
  <2>4. SetToSeq(kept) \in Seq(kept)
    BY <2>1, <2>3
  <2>5. SetToSeq(kept) \in Seq(Bounds(limit))
    BY <1>2, <2>4
  <2>6. Diarization(ts, limit) = SetToSeq(kept)
    BY <1>5 DEF Diarization
  <2> QED BY <2>5, <2>6
<1> QED BY <1>4, <1>5

\* The plan of sorted turns covers what was said.
LEMMA PlanOfSorted ==
  ASSUME NEW limit \in Nat, NEW ts \in Seq(Bounds(limit)), NEW sorted \in Sorted(ts)
  PROVE  LET p == PlanSegments(sorted, limit) IN
         /\ p \in Seq(Spans(limit))
         /\ \A k \in 1 .. Len(p) : p[k].end <= p[k].start + MaxSegment
         /\ \A i \in 1 .. Len(ts) : \A at \in ts[i].start .. ts[i].end - 1 : Covered(p, ts[i].speaker, at)
         /\ (\A i, j \in 1 .. Len(ts) : i = j \/ ts[i].end <= ts[j].start \/ ts[j].end <= ts[i].start)
              => Ordered(p)
<1> DEFINE N == Len(ts)
           m == Merged(sorted, limit)
           p == PlanSegments(sorted, limit)
<1>1. /\ sorted \in Seq(Bounds(limit)) /\ Len(sorted) = N
      /\ \A i, j \in 1 .. N : i < j => sorted[i].start <= sorted[j].start
  BY SortedLemma
<1>2. PICK order : Permutes(order, sorted, ts)
  BY SortedLemma
<1>3. /\ m \in Seq(Spans(limit))
      /\ \A i \in 1 .. N : \A at \in sorted[i].start .. sorted[i].end - 1 : Covered(m, sorted[i].speaker, at)
      /\ (\A i, j \in 1 .. N : i = j \/ sorted[i].end <= sorted[j].start \/ sorted[j].end <= sorted[i].start)
           => Ordered(m)
  <2> HIDE DEF N
  <2> QED BY <1>1, MergedLemma
<1> HIDE DEF m
<1>4. /\ p \in Seq(Spans(limit))
      /\ \A k \in 1 .. Len(p) : p[k].end <= p[k].start + MaxSegment
      /\ \A i \in 1 .. Len(m) : \A at \in m[i].start .. m[i].end - 1 : Covered(p, m[i].speaker, at)
      /\ Ordered(m) => Ordered(p)
  BY <1>3, PlanLemma DEF m
<1> HIDE DEF p
<1>5. ASSUME NEW i \in 1 .. N, NEW at \in ts[i].start .. ts[i].end - 1
      PROVE  Covered(p, ts[i].speaker, at)
  <2>1. PICK j \in 1 .. N : order[j] = i
    BY <1>2 DEF Permutes
  <2>2. sorted[j] = ts[i]
    BY <1>2, <2>1 DEF Permutes
  <2>3. Covered(m, ts[i].speaker, at)
    BY <1>3, <2>2
  <2>4. PICK k \in 1 .. Len(m) : m[k].speaker = ts[i].speaker /\ m[k].start <= at /\ at < m[k].end
    BY <2>3 DEF Covered
  <2>5. m[k].start \in Nat /\ m[k].end \in Nat /\ ts[i].start \in Nat /\ ts[i].end \in Nat
    <3>1. m[k] \in Spans(limit) /\ ts[i] \in Bounds(limit)
      BY <1>3
    <3> QED BY <3>1, SMTT(30) DEF Spans, Bounds
  <2>6. at \in m[k].start .. m[k].end - 1
    BY <2>4, <2>5
  <2> QED BY <1>4, <2>4, <2>6
<1>6. ASSUME \A i, j \in 1 .. N : i = j \/ ts[i].end <= ts[j].start \/ ts[j].end <= ts[i].start
      PROVE  Ordered(p)
  <2>1. ASSUME NEW i \in 1 .. N, NEW j \in 1 .. N
        PROVE  i = j \/ sorted[i].end <= sorted[j].start \/ sorted[j].end <= sorted[i].start
    <3>1. /\ order[i] \in 1 .. N /\ order[j] \in 1 .. N
          /\ sorted[i] = ts[order[i]] /\ sorted[j] = ts[order[j]]
          /\ order[i] = order[j] => i = j
      BY <1>2 DEF Permutes
    <3> QED BY <1>6, <3>1
  <2> QED BY <1>3, <1>4, <2>1
<1> QED BY <1>4, <1>5, <1>6 DEF p

-----------------------------------------------------------------------------
(* The plan of a job.                                                      *)

PlanInv ==
  /\ total \in Nat
  /\ jobStage \in {"diarized", "planned"} => turns \in Seq(Bounds(total))
  /\ plan \in Seq(Spans(total))
  /\ jobStage \in {"new", "diarized"} => plan = <<>>
  /\ jobStage \in {"new", "diarized", "planned"} => next = 1
  /\ next \in 1 .. Len(plan) + 1
  /\ PlanCoversSpeech

LEMMA DiarizePlan == PlanInv /\ Diarize => PlanInv'
<1> SUFFICES ASSUME PlanInv, Diarize PROVE PlanInv'
  OBVIOUS
<1>1. /\ jobStage = "new" /\ jobStage' = "diarized" /\ total' \in Totals
      /\ plan' = <<>> /\ next' = 1
  BY DEF Diarize, PlanInv
<1>2. total' \in Nat
  BY <1>1, JobAssumption
<1>3. turns' \in Seq(Bounds(total'))
  <2>1. PICK ts \in TurnSets : turns' = Diarization(ts, total')
    BY DEF Diarize
  <2> QED BY <1>2, <2>1, DiarizationType
<1>4. plan' \in Seq(Spans(total')) /\ Len(plan') = 0
  BY <1>1
<1>5. PlanCoversSpeech'
  BY <1>1 DEF PlanCoversSpeech
<1>6. next' \in 1 .. Len(plan') + 1
  BY <1>1, <1>4
<1> QED BY <1>1, <1>2, <1>3, <1>4, <1>5, <1>6 DEF PlanInv

LEMMA MakePlanPlan == PlanInv /\ MakePlan => PlanInv'
<1> SUFFICES ASSUME PlanInv, MakePlan PROVE PlanInv'
  OBVIOUS
<1>1. /\ jobStage = "diarized" /\ jobStage' = "planned" /\ total' = total /\ total \in Nat
      /\ turns' = turns /\ turns \in Seq(Bounds(total)) /\ next' = 1
  BY DEF MakePlan, PlanInv
<1>2. PICK sorted \in Sorted(turns) : plan' = PlanSegments(sorted, total)
  BY DEF MakePlan
<1> DEFINE p == PlanSegments(sorted, total)
           N == Len(turns)
<1>3. /\ p \in Seq(Spans(total))
      /\ \A k \in 1 .. Len(p) : p[k].end <= p[k].start + MaxSegment
      /\ \A i \in 1 .. N : \A at \in turns[i].start .. turns[i].end - 1 : Covered(p, turns[i].speaker, at)
      /\ (\A i, j \in 1 .. N : i = j \/ turns[i].end <= turns[j].start \/ turns[j].end <= turns[i].start)
           => Ordered(p)
  BY <1>1, PlanOfSorted
<1> HIDE DEF p, N
<1>4. DOMAIN turns = 1 .. N /\ DOMAIN p = 1 .. Len(p) /\ Len(p) \in Nat
  BY <1>1, <1>3 DEF N
<1>5. ASSUME NEW i \in DOMAIN turns, NEW at \in turns[i].start .. turns[i].end - 1
      PROVE  \E s \in Indices(p) : s.speaker = turns[i].speaker /\ s.start <= at /\ at < s.end
  <2>1. PICK k \in 1 .. Len(p) : p[k].speaker = turns[i].speaker /\ p[k].start <= at /\ at < p[k].end
    BY <1>3, <1>4 DEF Covered
  <2>2. p[k] \in Indices(p)
    BY <1>4 DEF Indices
  <2> QED BY <2>1, <2>2
<1>6. ASSUME NEW s \in Indices(p)
      PROVE  s.start < s.end /\ s.end <= s.start + MaxSegment /\ s.end <= total
  <2>1. PICK k \in 1 .. Len(p) : s = p[k]
    BY <1>4 DEF Indices
  <2>2. s \in Spans(total) /\ s.end <= s.start + MaxSegment
    BY <1>3, <2>1
  <2> QED BY <1>1, <2>2 DEF Spans, Bounds
<1>7. (\A i, j \in DOMAIN turns : i = j \/ turns[i].end <= turns[j].start \/ turns[j].end <= turns[i].start)
        => \A i \in 1 .. Len(p) - 1 : p[i].end <= p[i + 1].start
  BY <1>3, <1>4 DEF Ordered
<1>8. plan' = p
  BY <1>2 DEF p
<1>9. PlanCoversSpeech'
  BY <1>1, <1>5, <1>6, <1>7, <1>8 DEF PlanCoversSpeech
<1>10. next' \in 1 .. Len(plan') + 1
  BY <1>1, <1>4, <1>8
<1> QED BY <1>1, <1>3, <1>8, <1>9, <1>10 DEF PlanInv

LEMMA AssemblePlan == PlanInv /\ Assemble => PlanInv'
<1> SUFFICES ASSUME PlanInv, Assemble PROVE PlanInv'
  OBVIOUS
<1>1. /\ plan' = plan /\ total' = total /\ jobStage' = "chunk" /\ next' = ChunkEnd + 1
      /\ plan \in Seq(Spans(total)) /\ total \in Nat /\ next \in 1 .. Len(plan) + 1
  BY DEF Assemble, PlanInv
<1>2. BatchSize \in Nat \ {0} /\ Len(plan) \in Nat
  BY <1>1, JobAssumption
<1>3. ChunkEnd \in 0 .. Len(plan)
  BY <1>1, <1>2 DEF ChunkEnd, Lesser
<1>4. PlanCoversSpeech'
  BY <1>1 DEF PlanCoversSpeech
<1>5. next' \in 1 .. Len(plan') + 1
  BY <1>1, <1>2, <1>3
<1> QED BY <1>1, <1>4, <1>5 DEF PlanInv

\* The other steps leave the plan, and do not come back to it.
LEMMA PlanKept ==
  ASSUME PlanInv, total' = total, plan' = plan, next' = next,
         jobStage' \in {"chunk", "cpu", "submit", "gpu", "assemble", "merge", "done", "raised"}
           \/ (jobStage' = jobStage /\ turns' = turns)
  PROVE  PlanInv'
<1>1. CASE jobStage' \in {"chunk", "cpu", "submit", "gpu", "assemble", "merge", "done", "raised"}
  <2>1. jobStage' \notin {"new", "diarized", "planned"}
    BY <1>1
  <2>2. PlanCoversSpeech'
    BY <2>1 DEF PlanCoversSpeech
  <2> QED BY <2>1, <2>2 DEF PlanInv
<1>2. CASE jobStage' = jobStage /\ turns' = turns
  <2>1. PlanCoversSpeech'
    BY <1>2 DEF PlanInv, PlanCoversSpeech
  <2> QED BY <1>2, <2>1 DEF PlanInv
<1> QED BY <1>1, <1>2

LEMMA PlanNext == PlanInv /\ [JobNext]_jobVars => PlanInv'
<1> SUFFICES ASSUME PlanInv, [JobNext]_jobVars PROVE PlanInv'
  OBVIOUS
<1> DEFINE Later == {"chunk", "cpu", "submit", "gpu", "assemble", "merge", "done", "raised"}
           Kept == total' = total /\ plan' = plan /\ next' = next
<1>1. CASE Diarize
  BY <1>1, DiarizePlan
<1>2. CASE MakePlan
  BY <1>2, MakePlanPlan
<1>3. CASE Assemble
  BY <1>3, AssemblePlan
<1>4. CASE JobRaises \/ TakeChunk \/ OutcomeEndsJob \/ SortOutput \/ Export
  <2>1. Kept /\ jobStage' \in Later
    BY <1>4 DEF JobRaises, TakeChunk, OutcomeEndsJob, SortOutput, Export
  <2> QED BY <2>1, PlanKept
<1>5. CASE BatchAnswered
  <2>1. Kept /\ jobStage' \in Later
    BY <1>5 DEF BatchAnswered, Continue
  <2> QED BY <2>1, PlanKept
<1>6. CASE BatchFailed
  <2>1. Kept /\ jobStage' \in Later
    BY <1>6 DEF BatchFailed, Continue
  <2> QED BY <2>1, PlanKept
<1>7. CASE Submit
  <2>1. Kept /\ jobStage' \in Later
    BY <1>7 DEF Submit
  <2> QED BY <2>1, PlanKept
<1>8. CASE OutcomeArrives
  <2>1. Kept /\ jobStage' \in Later
    BY <1>8 DEF OutcomeArrives, Continue
  <2> QED BY <2>1, PlanKept
<1>9. CASE UNCHANGED jobVars
  BY <1>9, PlanKept DEF jobVars
<1> QED BY <1>1, <1>2, <1>3, <1>4, <1>5, <1>6, <1>7, <1>8, <1>9 DEF JobNext

LEMMA PlanInit == JobInit => PlanInv
<1> SUFFICES ASSUME JobInit PROVE PlanInv
  OBVIOUS
<1>1. <<>> \in Seq(Spans(0)) /\ Len(<<>>) = 0
  OBVIOUS
<1>2. PlanCoversSpeech
  BY DEF JobInit, PlanCoversSpeech
<1> QED BY <1>1, <1>2 DEF JobInit, PlanInv

\* Whatever turns the diarization gives of a recording of any length, and in
\* whatever order sorted() leaves equal ones, each moment of speech lies in a
\* segment of its speaker, no segment is empty or longer than MAX_SEGMENT_MS,
\* and turns that do not overlap give segments that do not: the loops of
\* plan_segments that merge and cut lose and repeat nothing.
THEOREM PlansCoverSpeech == JobSpec => []PlanCoversSpeech
<1>1. JobSpec => []PlanInv
  BY PlanInit, PlanNext, PTL DEF JobSpec
<1>2. PlanInv => PlanCoversSpeech
  BY DEF PlanInv
<1> QED BY <1>1, <1>2, PTL

-----------------------------------------------------------------------------
(* The bisection of a chunk.                                               *)

\* c counts the segments before each batch of the stack, which are not empty.
Cuts(c, s) ==
  /\ c \in [1 .. Len(s) + 1 -> Nat]
  /\ \A j \in 1 .. Len(s) : c[j + 1] = c[j] + Len(s[j])
  /\ \A j \in 1 .. Len(s) + 1 : c[j] + (Len(s) + 1 - j) <= c[Len(s) + 1]

\* What the batches on a stack may cost: a batch of n segments takes at most
\* 2n - 1 calls of the model.
Affordable(s, calls, allowed) ==
  \E c : Cuts(c, s) /\ calls + 2 * (c[Len(s) + 1] - c[1]) - Len(s) <= allowed

Batches == Seq(Seq(Nat) \ {<<>>})

ChunkBudget == 2 * Len(Chunk) - 1

BisectInv ==
  /\ modelCalls \in Nat
  /\ jobStage \in {"cpu", "submit", "gpu", "assemble"} => next <= Len(plan)
  /\ jobStage \in {"submit", "gpu"} => modelCalls = 0
  /\ jobStage = "cpu" => stack \in Batches /\ stack # <<>> /\ Affordable(stack, modelCalls, ChunkBudget)
  /\ jobStage = "assemble" => modelCalls <= ChunkBudget

LEMMA PopArithmetic ==
  ASSUME NEW calls \in Nat, NEW allowed \in Int, NEW n \in Nat, NEW a \in Nat, NEW b \in Nat, NEW l \in Nat,
         l >= 1, calls + 2 * (b - a) - n <= allowed
  PROVE  (calls + 1) + 2 * (b - (a + l)) - (n - 1) <= allowed
OBVIOUS

LEMMA CutArithmetic ==
  ASSUME NEW n \in Nat, NEW a \in Nat, NEW b \in Nat, NEW e \in Nat, NEW g \in Nat, NEW h \in Nat,
         g >= 1, h >= 1, e = a + g + h, e + (n + 1 - 2) <= b
  PROVE  a + (n + 1) <= b /\ (a + g) + n <= b
OBVIOUS

LEMMA BisectArithmetic ==
  ASSUME NEW calls \in Nat, NEW allowed \in Int, NEW n \in Nat, NEW a \in Nat, NEW b \in Nat,
         calls + 2 * (b - a) - n <= allowed
  PROVE  (calls + 1) + 2 * (b - a) - (n + 1) <= allowed
OBVIOUS

\* The counts without the first batch.
LEMMA ShiftCuts ==
  ASSUME NEW n \in Nat, NEW c \in [1 .. n + 1 -> Nat]
  PROVE  /\ [j \in 1 .. n |-> c[j + 1]] \in [1 .. n -> Nat]
         /\ \A i \in 1 .. n : [j \in 1 .. n |-> c[j + 1]][i] = c[i + 1]
<1>1. \A j \in 1 .. n : j + 1 \in 1 .. n + 1
  OBVIOUS
<1>2. \A j \in 1 .. n : c[j + 1] \in Nat
  BY <1>1
<1> QED BY <1>2, Zenon

\* A batch that is answered is paid for.
LEMMA PopLemma ==
  ASSUME NEW s \in Batches, s # <<>>, NEW calls \in Nat, NEW allowed \in Int, Affordable(s, calls, allowed)
  PROVE  Tail(s) \in Batches /\ Affordable(Tail(s), calls + 1, allowed)
<1> DEFINE n == Len(s)
<1>1. n \in Nat \ {0} /\ Tail(s) \in Batches /\ Len(Tail(s)) = n - 1 /\ \A j \in 1 .. n - 1 : Tail(s)[j] = s[j + 1]
  BY DEF Batches
<1>2. PICK c : Cuts(c, s) /\ calls + 2 * (c[n + 1] - c[1]) - n <= allowed
  BY DEF Affordable
<1> DEFINE d == [j \in 1 .. n |-> c[j + 1]]
<1>3. /\ c \in [1 .. n + 1 -> Nat]
      /\ \A j \in 1 .. n : c[j + 1] = c[j] + Len(s[j])
      /\ \A j \in 1 .. n + 1 : c[j] + (n + 1 - j) <= c[n + 1]
  BY <1>2 DEF Cuts
<1> HIDE DEF n
<1>4. d \in [1 .. n -> Nat] /\ \A j \in 1 .. n : d[j] = c[j + 1]
  <2>1. n \in Nat
    BY <1>1
  <2> QED BY <1>3, <2>1, ShiftCuts
<1> HIDE DEF d
<1>5. \A j \in 1 .. n - 1 : d[j + 1] = d[j] + Len(Tail(s)[j])
  <2> SUFFICES ASSUME NEW j \in 1 .. n - 1 PROVE d[j + 1] = d[j] + Len(Tail(s)[j])
    OBVIOUS
  <2>1. j \in 1 .. n /\ j + 1 \in 1 .. n
    BY <1>1
  <2> QED BY <1>1, <1>3, <1>4, <2>1
<1>6. \A j \in 1 .. n : d[j] + (n - j) <= d[n]
  <2> SUFFICES ASSUME NEW j \in 1 .. n PROVE d[j] + (n - j) <= d[n]
    OBVIOUS
  <2>1. j + 1 \in 1 .. n + 1 /\ n \in 1 .. n
    BY <1>1
  <2>2. c[j + 1] + (n + 1 - (j + 1)) <= c[n + 1]
    BY <1>3, <2>1
  <2>3. d[j] = c[j + 1] /\ d[n] = c[n + 1] /\ d[j] \in Nat
    BY <1>4, <2>1
  <2> QED BY <1>1, <2>2, <2>3
<1>7. Cuts(d, Tail(s))
  <2>1. Len(Tail(s)) + 1 = n
    BY <1>1
  <2> QED BY <1>1, <1>4, <1>5, <1>6, <2>1, SMTT(30) DEF Cuts
<1>8. (calls + 1) + 2 * (d[Len(Tail(s)) + 1] - d[1]) - Len(Tail(s)) <= allowed
  <2>1. 1 \in 1 .. n /\ n \in 1 .. n /\ 1 \in 1 .. n + 1 /\ n + 1 \in 1 .. n + 1 /\ Len(Tail(s)) + 1 = n
    BY <1>1
  <2>2. d[1] = c[2] /\ d[n] = c[n + 1] /\ c[2] = c[1] + Len(s[1])
    BY <1>3, <1>4, <2>1
  <2>3. c[1] \in Nat /\ c[n + 1] \in Nat
    BY <1>3, <2>1
  <2>4. Len(s[1]) \in Nat /\ Len(s[1]) >= 1
    <3>1. s[1] \in Seq(Nat) \ {<<>>}
      BY <1>1 DEF Batches, n
    <3> QED BY <3>1
  <2>5. (calls + 1) + 2 * (c[n + 1] - (c[1] + Len(s[1]))) - (n - 1) <= allowed
    BY <1>1, <1>2, <2>3, <2>4, PopArithmetic
  <2> QED BY <1>1, <2>1, <2>2, <2>5
<1> QED BY <1>1, <1>7, <1>8 DEF Affordable

\* Two halves cost one call less than the batch they are of.
LEMMA BisectLemma ==
  ASSUME NEW s \in Batches, s # <<>>, NEW calls \in Nat, NEW allowed \in Int, Affordable(s, calls, allowed),
         NEW g \in Seq(Nat) \ {<<>>}, NEW h \in Seq(Nat) \ {<<>>}, Len(g) + Len(h) = Len(Head(s))
  PROVE  <<g, h>> \o Tail(s) \in Batches /\ Affordable(<<g, h>> \o Tail(s), calls + 1, allowed)
<1> DEFINE n == Len(s)
           r == <<g, h>> \o Tail(s)
<1>1. n \in Nat \ {0} /\ Tail(s) \in Batches /\ Len(Tail(s)) = n - 1 /\ \A j \in 1 .. n - 1 : Tail(s)[j] = s[j + 1]
  BY DEF Batches
<1>2. <<g, h>> \in Batches /\ Len(<<g, h>>) = 2 /\ <<g, h>>[1] = g /\ <<g, h>>[2] = h
  BY DEF Batches
<1>3. r \in Batches /\ Len(r) = n + 1
  BY <1>1, <1>2 DEF Batches
<1>4. r[1] = g /\ r[2] = h /\ \A j \in 3 .. n + 1 : r[j] = s[j - 1]
  <2>1. \A j \in 1 .. n - 1 : r[2 + j] = Tail(s)[j]
    BY <1>1, <1>2 DEF Batches
  <2>2. r[1] = g /\ r[2] = h
    BY <1>1, <1>2 DEF Batches
  <2>3. ASSUME NEW j \in 3 .. n + 1 PROVE r[j] = s[j - 1]
    <3>1. j - 2 \in 1 .. n - 1 /\ 2 + (j - 2) = j /\ (j - 2) + 1 = j - 1
      BY <1>1
    <3> QED BY <1>1, <2>1, <3>1
  <2> QED BY <2>2, <2>3
<1>5. PICK c : Cuts(c, s) /\ calls + 2 * (c[n + 1] - c[1]) - n <= allowed
  BY DEF Affordable
<1>6. /\ c \in [1 .. n + 1 -> Nat]
      /\ \A j \in 1 .. n : c[j + 1] = c[j] + Len(s[j])
      /\ \A j \in 1 .. n + 1 : c[j] + (n + 1 - j) <= c[n + 1]
  BY <1>5 DEF Cuts
<1>7. Len(g) \in Nat /\ Len(g) >= 1 /\ Len(h) \in Nat /\ Len(h) >= 1 /\ Len(s[1]) = Len(g) + Len(h)
  <2>1. Len(g) \in Nat /\ Len(g) >= 1
    OBVIOUS
  <2>2. Len(h) \in Nat /\ Len(h) >= 1
    OBVIOUS
  <2>3. Head(s) = s[1]
    BY DEF Batches
  <2> QED BY <2>1, <2>2, <2>3
<1> HIDE DEF n, r
<1>8. /\ c[1] \in Nat /\ c[2] \in Nat /\ c[n + 1] \in Nat
      /\ c[2] = c[1] + Len(g) + Len(h) /\ c[2] + (n + 1 - 2) <= c[n + 1]
  <2>1. 1 \in 1 .. n /\ 1 \in 1 .. n + 1 /\ 2 \in 1 .. n + 1 /\ n + 1 \in 1 .. n + 1
    BY <1>1
  <2>2. c[1 + 1] = c[1] + Len(s[1]) /\ c[2] + (n + 1 - 2) <= c[n + 1]
    BY <1>6, <2>1
  <2>3. c[1] \in Nat /\ c[2] \in Nat /\ c[n + 1] \in Nat
    BY <1>6, <2>1
  <2>4. c[2] = c[1] + Len(s[1])
    BY <2>2
  <2>5. c[2] = c[1] + Len(g) + Len(h)
    BY <1>7, <2>3, <2>4
  <2> QED BY <2>2, <2>3, <2>5
<1> DEFINE d == [j \in 1 .. n + 2 |-> IF j = 1 THEN c[1] ELSE IF j = 2 THEN c[1] + Len(g) ELSE c[j - 1]]
<1>9. /\ d \in [1 .. n + 2 -> Nat]
      /\ d[1] = c[1] /\ d[2] = c[1] + Len(g) /\ \A j \in 3 .. n + 2 : d[j] = c[j - 1] /\ c[j - 1] \in Nat
  <2>1. \A j \in 3 .. n + 2 : j \in 1 .. n + 2 /\ j - 1 \in 1 .. n + 1
    BY <1>1
  <2>2. ASSUME NEW j \in 1 .. n + 2 PROVE j = 1 \/ j = 2 \/ j \in 3 .. n + 2
    BY <1>1
  <2>3. 1 \in 1 .. n + 2 /\ 2 \in 1 .. n + 2
    BY <1>1
  <2>4. \A j \in 3 .. n + 2 : c[j - 1] \in Nat
    BY <1>6, <2>1
  <2>5. c[1] + Len(g) \in Nat
    <3>1. c[1] \in Nat /\ Len(g) \in Nat
      BY <1>7, <1>8
    <3> QED BY <3>1
  <2>6. d \in [1 .. n + 2 -> Nat]
    <3>1. \A j \in 1 .. n + 2 : (IF j = 1 THEN c[1] ELSE IF j = 2 THEN c[1] + Len(g) ELSE c[j - 1]) \in Nat
      BY <1>8, <2>2, <2>4, <2>5
    <3> QED BY <3>1
  <2>7. d[1] = c[1] /\ d[2] = c[1] + Len(g)
    BY <2>3
  <2>8. \A j \in 3 .. n + 2 : d[j] = c[j - 1]
    BY <2>1
  <2> QED BY <2>4, <2>6, <2>7, <2>8
<1> HIDE DEF d
<1>10. \A j \in 1 .. n + 1 : d[j + 1] = d[j] + Len(r[j])
  <2> SUFFICES ASSUME NEW j \in 1 .. n + 1 PROVE d[j + 1] = d[j] + Len(r[j])
    OBVIOUS
  <2>1. CASE j = 1
    BY <2>1, <1>4, <1>9
  <2>2. CASE j = 2
    <3>1. 3 \in 3 .. n + 2
      BY <1>1
    <3> QED BY <2>2, <3>1, <1>4, <1>7, <1>8, <1>9
  <2>3. CASE j # 1 /\ j # 2
    <3>1. j \in 3 .. n + 1 /\ j \in 3 .. n + 2 /\ j + 1 \in 3 .. n + 2 /\ j - 1 \in 1 .. n
      BY <1>1, <2>3
    <3>2. d[j + 1] = c[(j + 1) - 1] /\ d[j] = c[j - 1] /\ r[j] = s[j - 1]
      BY <1>4, <1>9, <3>1
    <3>3. c[(j - 1) + 1] = c[j - 1] + Len(s[j - 1])
      BY <1>6, <3>1
    <3>4. (j + 1) - 1 = (j - 1) + 1
      BY <3>1
    <3> QED BY <3>2, <3>3, <3>4
  <2> QED BY <2>1, <2>2, <2>3
<1>11. \A j \in 1 .. n + 2 : d[j] + (n + 2 - j) <= d[n + 2]
  <2> SUFFICES ASSUME NEW j \in 1 .. n + 2 PROVE d[j] + (n + 2 - j) <= d[n + 2]
    OBVIOUS
  <2>0. n + 2 \in 3 .. n + 2
    BY <1>1
  <2>1. d[n + 2] = c[n + 1]
    <3>1. (n + 2) - 1 = n + 1
      BY <1>1
    <3> QED BY <1>9, <2>0, <3>1
  <2>2. CASE j = 1
    <3>1. c[1] + (n + 1) <= c[n + 1]
      BY <1>1, <1>7, <1>8, CutArithmetic
    <3> QED BY <2>1, <2>2, <1>1, <1>8, <1>9, <3>1
  <2>3. CASE j = 2
    <3>1. (c[1] + Len(g)) + n <= c[n + 1]
      BY <1>1, <1>7, <1>8, CutArithmetic
    <3> QED BY <2>1, <2>3, <1>1, <1>7, <1>8, <1>9, <3>1
  <2>4. CASE j # 1 /\ j # 2
    <3>1. j \in 3 .. n + 2 /\ j - 1 \in 1 .. n + 1
      BY <1>1, <2>4
    <3>2. d[j] = c[j - 1] /\ c[j - 1] \in Nat /\ c[j - 1] + (n + 1 - (j - 1)) <= c[n + 1]
      BY <1>6, <1>9, <3>1
    <3> QED BY <1>1, <1>8, <2>1, <3>1, <3>2
  <2> QED BY <2>2, <2>3, <2>4
<1>12. Cuts(d, r)
  <2>1. Len(r) + 1 = n + 2
    BY <1>1, <1>3
  <2>2. \A j \in 1 .. Len(r) + 1 : d[j] + (Len(r) + 1 - j) <= d[Len(r) + 1]
    <3> SUFFICES ASSUME NEW j \in 1 .. Len(r) + 1 PROVE d[j] + (Len(r) + 1 - j) <= d[Len(r) + 1]
      OBVIOUS
    <3>1. j \in 1 .. n + 2
      BY <2>1
    <3>2. d[j] + (n + 2 - j) <= d[n + 2]
      BY <1>11, <3>1
    <3>3. Len(r) + 1 - j = n + 2 - j
      BY <1>1, <1>3
    <3> QED BY <2>1, <3>2, <3>3
  <2>3. \A j \in 1 .. Len(r) : d[j + 1] = d[j] + Len(r[j])
    BY <1>3, <1>10
  <2>4. d \in [1 .. Len(r) + 1 -> Nat]
    BY <1>9, <2>1
  <2> QED BY <2>2, <2>3, <2>4 DEF Cuts
<1>13. (calls + 1) + 2 * (d[Len(r) + 1] - d[1]) - Len(r) <= allowed
  <2>1. Len(r) + 1 = n + 2 /\ n + 2 \in 3 .. n + 2 /\ (n + 2) - 1 = n + 1
    BY <1>1, <1>3
  <2>2. d[n + 2] = c[n + 1] /\ d[1] = c[1]
    BY <1>9, <2>1
  <2>3. (calls + 1) + 2 * (c[n + 1] - c[1]) - (n + 1) <= allowed
    BY <1>1, <1>5, <1>8, BisectArithmetic
  <2> QED BY <1>3, <2>1, <2>2, <2>3
<1> QED BY <1>3, <1>12, <1>13 DEF Affordable, r

\* Every batch still to run needs a call at least.
LEMMA CostLemma ==
  ASSUME NEW s \in Batches, NEW calls \in Nat, NEW allowed \in Int, Affordable(s, calls, allowed)
  PROVE  calls + Len(s) <= allowed
<1> DEFINE n == Len(s)
<1>1. n \in Nat
  BY DEF Batches
<1>2. PICK c : Cuts(c, s) /\ calls + 2 * (c[n + 1] - c[1]) - n <= allowed
  BY DEF Affordable
<1>3. 1 \in 1 .. n + 1 /\ n + 1 \in 1 .. n + 1
  BY <1>1
<1>4. c[1] \in Nat /\ c[n + 1] \in Nat /\ c[1] + (n + 1 - 1) <= c[n + 1]
  BY <1>2, <1>3 DEF Cuts
<1> HIDE DEF n
<1>5. calls + n <= allowed
  BY <1>1, <1>2, <1>4
<1> QED BY <1>5 DEF n

\* A chunk starts with as many segments as may be sent, and costs nothing yet.
LEMMA ChunkLemma ==
  ASSUME PlanInv, next <= Len(plan)
  PROVE  Len(Chunk) \in Nat \ {0} /\ Chunk \in Seq(Nat) /\ ChunkBudget \in Nat
<1>1. next \in Nat \ {0} /\ Len(plan) \in Nat /\ BatchSize \in Nat \ {0}
  BY JobAssumption DEF PlanInv
<1>2. ChunkEnd \in Nat /\ next <= ChunkEnd
  BY <1>1 DEF ChunkEnd, Lesser
<1>3. ChunkEnd - next + 1 \in Nat \ {0}
  BY <1>1, <1>2
<1>4. Chunk \in Seq(Nat) /\ Len(Chunk) = ChunkEnd - next + 1
  BY <1>1, <1>3 DEF Chunk
<1> QED BY <1>3, <1>4 DEF ChunkBudget

LEMMA InOrderLemma ==
  ASSUME Chunk \in Seq(Nat), NEW s \in InOrder
  PROVE  s \in Seq(Nat) /\ Len(s) <= Len(Chunk)
<1>1. PICK n \in 0 .. Len(Chunk) : s \in [1 .. n -> Indices(Chunk)]
  BY DEF InOrder
<1>2. Indices(Chunk) \subseteq Nat
  BY DEF Indices
<1>3. n \in Nat /\ \A i \in 1 .. n : s[i] \in Nat
  BY <1>1, <1>2
<1>4. s \in Seq(Nat) /\ Len(s) = n
  BY <1>1, <1>3
<1> QED BY <1>1, <1>4

\* One batch of n segments is paid for with 2n - 1 calls.
LEMMA FirstBatchLemma ==
  ASSUME NEW s \in Seq(Nat) \ {<<>>}, NEW allowed \in Int, 2 * Len(s) - 1 <= allowed
  PROVE  <<s>> \in Batches /\ Affordable(<<s>>, 0, allowed)
<1>1. <<s>> \in Batches /\ Len(<<s>>) = 1 /\ <<s>>[1] = s
  BY DEF Batches
<1>2. Len(s) \in Nat /\ Len(s) >= 1
  OBVIOUS
<1> DEFINE n == Len(s)
           c == [j \in 1 .. 2 |-> IF j = 1 THEN 0 ELSE n]
<1> HIDE DEF n
<1>3. n \in Nat /\ n >= 1
  BY <1>2 DEF n
<1>4. c \in [1 .. 2 -> Nat] /\ c[1] = 0 /\ c[2] = n
  BY <1>3
<1> HIDE DEF c
<1>5. \A j \in 1 .. 1 : c[j + 1] = c[j] + Len(<<s>>[j])
  <2>1. 1 + 1 = 2 /\ c[2] = 0 + n
    BY <1>3, <1>4
  <2> QED BY <2>1, <1>1, <1>4 DEF n
<1>6. \A j \in 1 .. 2 : c[j] + (1 + 1 - j) <= c[2]
  <2>1. \A j \in 1 .. 2 : j = 1 \/ j = 2
    OBVIOUS
  <2>2. 0 + (1 + 1 - 1) <= n /\ n + (1 + 1 - 2) <= n
    BY <1>3
  <2> QED BY <2>1, <2>2, <1>4
<1>7. Cuts(c, <<s>>)
  <2>1. 1 + 1 = 2
    OBVIOUS
  <2> QED BY <2>1, <1>1, <1>4, <1>5, <1>6 DEF Cuts
<1>8. 0 + 2 * (c[Len(<<s>>) + 1] - c[1]) - Len(<<s>>) <= allowed
  <2>1. 0 + 2 * (n - 0) - 1 <= allowed
    BY <1>3 DEF n
  <2>2. Len(<<s>>) + 1 = 2
    BY <1>1
  <2> QED BY <2>1, <2>2, <1>1, <1>4
<1> QED BY <1>1, <1>7, <1>8 DEF Affordable

LEMMA TakeChunkBisect == PlanInv /\ BisectInv /\ TakeChunk => BisectInv'
<1> SUFFICES ASSUME PlanInv, BisectInv, TakeChunk PROVE BisectInv'
  OBVIOUS
<1>1. /\ next <= Len(plan) /\ next' = next /\ plan' = plan /\ modelCalls' = 0
  BY DEF TakeChunk
<1>2. PICK inputs \in InOrder :
        /\ stack' = IF inputs = <<>> THEN <<>> ELSE <<inputs>>
        /\ jobStage' = IF inputs = <<>> THEN "assemble" ELSE IF device = "gpu" THEN "submit" ELSE "cpu"
  BY DEF TakeChunk
<1>3. Len(Chunk) \in Nat \ {0} /\ Chunk \in Seq(Nat) /\ ChunkBudget \in Nat
  BY <1>1, ChunkLemma
<1>4. inputs \in Seq(Nat) /\ Len(inputs) <= Len(Chunk)
  BY <1>3, InOrderLemma
<1>5. ChunkBudget' = ChunkBudget
  BY <1>1 DEF ChunkBudget, Chunk, ChunkEnd
<1>6. CASE inputs = <<>>
  <2>1. jobStage' = "assemble" /\ 0 <= ChunkBudget
    BY <1>2, <1>3, <1>6
  <2> QED BY <2>1, <1>1, <1>5 DEF BisectInv
<1>7. CASE inputs # <<>> /\ device = "gpu"
  <2>1. jobStage' = "submit"
    BY <1>2, <1>7
  <2> QED BY <2>1, <1>1 DEF BisectInv
<1>8. CASE inputs # <<>> /\ device # "gpu"
  <2>1. jobStage' = "cpu" /\ stack' = <<inputs>> /\ stack' # <<>>
    BY <1>2, <1>8
  <2>2. 2 * Len(inputs) - 1 <= ChunkBudget
    <3>1. Len(inputs) \in Nat
      BY <1>4
    <3> QED BY <3>1, <1>3, <1>4 DEF ChunkBudget
  <2>3. <<inputs>> \in Batches /\ Affordable(<<inputs>>, 0, ChunkBudget)
    BY <1>3, <1>4, <1>8, <2>2, FirstBatchLemma
  <2>4. stack' \in Batches /\ Affordable(stack', modelCalls', ChunkBudget')
    BY <2>1, <2>3, <1>1, <1>5
  <2> QED BY <2>1, <2>4, <1>1 DEF BisectInv
<1> QED BY <1>6, <1>7, <1>8

\* What a call of the model leaves to do is paid for.
LEMMA ContinueLemma ==
  ASSUME PlanInv, BisectInv, jobStage = "cpu", next' = next, plan' = plan, modelCalls' = modelCalls + 1,
         NEW rest \in Batches, Affordable(rest, modelCalls + 1, ChunkBudget), Continue(rest, "cpu")
  PROVE  BisectInv'
<1>1. next <= Len(plan) /\ modelCalls \in Nat /\ modelCalls + 1 \in Nat
  BY DEF BisectInv
<1>2. ChunkBudget \in Nat
  BY <1>1, ChunkLemma
<1>3. ChunkBudget' = ChunkBudget
  BY DEF ChunkBudget, Chunk, ChunkEnd
<1>4. CASE rest = <<>>
  <2>1. jobStage' = "assemble"
    BY <1>4 DEF Continue
  <2>2. modelCalls + 1 + Len(rest) <= ChunkBudget /\ Len(rest) = 0
    BY <1>1, <1>2, <1>4, CostLemma
  <2>3. modelCalls' <= ChunkBudget'
    BY <2>2, <1>1, <1>2, <1>3
  <2> QED BY <2>1, <2>3, <1>1 DEF BisectInv
<1>5. CASE rest # <<>>
  <2>1. jobStage' = "cpu" /\ stack' = rest
    BY <1>5 DEF Continue
  <2>2. stack' \in Batches /\ stack' # <<>> /\ Affordable(stack', modelCalls', ChunkBudget')
    BY <2>1, <1>3, <1>5
  <2> QED BY <2>1, <2>2, <1>1 DEF BisectInv
<1> QED BY <1>4, <1>5

LEMMA BatchAnsweredBisect == PlanInv /\ BisectInv /\ BatchAnswered => BisectInv'
<1> SUFFICES ASSUME PlanInv, BisectInv, BatchAnswered PROVE BisectInv'
  OBVIOUS
<1>1. /\ jobStage = "cpu" /\ next' = next /\ plan' = plan /\ modelCalls' = modelCalls + 1
      /\ Continue(Tail(stack), "cpu")
  BY DEF BatchAnswered
<1>2. /\ stack \in Batches /\ stack # <<>> /\ Affordable(stack, modelCalls, ChunkBudget)
      /\ modelCalls \in Nat /\ next <= Len(plan)
  BY <1>1 DEF BisectInv
<1>3. ChunkBudget \in Int
  BY <1>2, ChunkLemma
<1>4. Tail(stack) \in Batches /\ Affordable(Tail(stack), modelCalls + 1, ChunkBudget)
  BY <1>2, <1>3, PopLemma
<1> QED BY <1>1, <1>4, ContinueLemma

LEMMA HalvesLemma ==
  ASSUME NEW s \in Seq(Nat), Len(s) >= 2
  PROVE  /\ Halves(s)[1] \in Seq(Nat) \ {<<>>} /\ Halves(s)[2] \in Seq(Nat) \ {<<>>}
         /\ Len(Halves(s)[1]) + Len(Halves(s)[2]) = Len(s)
         /\ Halves(s) = <<Halves(s)[1], Halves(s)[2]>>
<1> DEFINE n == Len(s)
           k == Midpoint(n)
           g == SubSeq(s, 1, k)
           h == SubSeq(s, k + 1, n)
<1>1. n \in Nat /\ n >= 2
  OBVIOUS
<1>2. k \in 1 .. n - 1
  <2>1. n \div 2 \in Nat /\ n \div 2 >= 1 /\ n \div 2 <= n - 1
    BY <1>1
  <2> QED BY <2>1, <1>1 DEF Midpoint, Greater
<1> HIDE DEF k
<1>3. g \in Seq(Nat) /\ Len(g) = k
  <2>1. \A i \in 1 .. k : i \in 1 .. n /\ s[i] \in Nat
    BY <1>1, <1>2
  <2> QED BY <1>1, <1>2, <2>1
<1>4. h \in Seq(Nat) /\ Len(h) = n - k
  <2>1. \A i \in k + 1 .. n : i \in 1 .. n /\ s[i] \in Nat
    BY <1>1, <1>2
  <2>2. k + 1 \in 1 .. n + 1 /\ n - (k + 1) + 1 = n - k
    BY <1>1, <1>2
  <2> QED BY <1>1, <1>2, <2>1, <2>2
<1>5. Halves(s) = <<g, h>>
  BY DEF Halves, k
<1> HIDE DEF g, h, n
<1>6. g # <<>> /\ h # <<>> /\ k + (n - k) = n
  <2>1. Len(g) # 0 /\ Len(h) # 0
    BY <1>1, <1>2, <1>3, <1>4
  <2> QED BY <2>1, <1>1, <1>2
<1> QED BY <1>3, <1>4, <1>5, <1>6 DEF n

LEMMA BatchFailedBisect == PlanInv /\ BisectInv /\ BatchFailed => BisectInv'
<1> SUFFICES ASSUME PlanInv, BisectInv, BatchFailed PROVE BisectInv'
  OBVIOUS
<1> DEFINE items == Head(stack)
           halves == Halves(items)
<1>1. /\ jobStage = "cpu" /\ next' = next /\ plan' = plan /\ modelCalls' = modelCalls + 1
  BY DEF BatchFailed
<1>2. /\ stack \in Batches /\ stack # <<>> /\ Affordable(stack, modelCalls, ChunkBudget)
      /\ modelCalls \in Nat /\ next <= Len(plan)
  BY <1>1 DEF BisectInv
<1>3. ChunkBudget \in Int
  BY <1>2, ChunkLemma
<1>4. items \in Seq(Nat) \ {<<>>}
  BY <1>2 DEF Batches
<1>5. CASE Len(items) = 1
  <2>1. Continue(Tail(stack), "cpu")
    BY <1>5 DEF BatchFailed
  <2>2. Tail(stack) \in Batches /\ Affordable(Tail(stack), modelCalls + 1, ChunkBudget)
    BY <1>2, <1>3, PopLemma
  <2> QED BY <1>1, <2>1, <2>2, ContinueLemma
<1>6. CASE Len(items) # 1
  <2>1. Len(items) >= 2
    <3>1. Len(items) \in Nat /\ Len(items) # 0
      BY <1>4
    <3>2. \A n \in Nat : n # 0 /\ n # 1 => n >= 2
      OBVIOUS
    <3> QED BY <3>1, <3>2, <1>6, Zenon
  <2>2. /\ halves[1] \in Seq(Nat) \ {<<>>} /\ halves[2] \in Seq(Nat) \ {<<>>}
        /\ Len(halves[1]) + Len(halves[2]) = Len(items) /\ halves = <<halves[1], halves[2]>>
    BY <1>4, <2>1, HalvesLemma
  <2>3. Continue((IF halves[2] = <<>> THEN <<halves[1]>> ELSE halves) \o Tail(stack), "cpu")
    BY <1>6 DEF BatchFailed
  <2>4. Continue(<<halves[1], halves[2]>> \o Tail(stack), "cpu")
    BY <2>2, <2>3
  <2> HIDE DEF halves, items
  <2> DEFINE rest == <<halves[1], halves[2]>> \o Tail(stack)
  <2>5. rest \in Batches /\ Affordable(rest, modelCalls + 1, ChunkBudget)
    BY <1>2, <1>3, <2>2, BisectLemma DEF items
  <2> HIDE DEF rest
  <2>6. Continue(rest, "cpu")
    BY <2>4 DEF rest
  <2> QED BY <1>1, <2>5, <2>6, ContinueLemma
<1> QED BY <1>5, <1>6

LEMMA BisectNext == PlanInv /\ BisectInv /\ [JobNext]_jobVars => BisectInv'
<1> SUFFICES ASSUME PlanInv, BisectInv, [JobNext]_jobVars PROVE BisectInv'
  OBVIOUS
<1>1. ChunkBudget \in Nat \/ ~(next <= Len(plan))
  BY ChunkLemma
<1>2. CASE TakeChunk
  BY <1>2, TakeChunkBisect
<1>3. CASE BatchAnswered
  BY <1>3, BatchAnsweredBisect
<1>4. CASE BatchFailed
  BY <1>4, BatchFailedBisect
<1>5. CASE Diarize \/ MakePlan \/ JobRaises \/ OutcomeEndsJob \/ Assemble \/ SortOutput \/ Export
  <2>1. modelCalls' = modelCalls /\ jobStage' \notin {"cpu", "submit", "gpu", "assemble"}
    BY <1>5 DEF Diarize, MakePlan, JobRaises, OutcomeEndsJob, Assemble, SortOutput, Export
  <2> QED BY <2>1 DEF BisectInv
<1>6. CASE Submit \/ OutcomeArrives
  <2>1. /\ jobStage \in {"submit", "gpu"} /\ jobStage' \in {"gpu", "assemble", "raised"}
        /\ modelCalls' = modelCalls /\ next' = next /\ plan' = plan
    <3>1. CASE Submit
      BY <3>1 DEF Submit
    <3>2. CASE OutcomeArrives
      BY <3>2 DEF OutcomeArrives, Continue
    <3> QED BY <1>6, <3>1, <3>2
  <2>2. modelCalls = 0 /\ next <= Len(plan)
    BY <2>1 DEF BisectInv
  <2>3. ChunkBudget' = ChunkBudget
    BY <2>1 DEF ChunkBudget, Chunk, ChunkEnd
  <2>4. 0 <= ChunkBudget
    BY <1>1, <2>2
  <2> QED BY <2>1, <2>2, <2>3, <2>4 DEF BisectInv
<1>7. CASE UNCHANGED jobVars
  <2>1. jobStage' = jobStage /\ modelCalls' = modelCalls /\ next' = next /\ plan' = plan /\ stack' = stack
    BY <1>7 DEF jobVars
  <2>2. ChunkBudget' = ChunkBudget
    BY <2>1 DEF ChunkBudget, Chunk, ChunkEnd
  <2> QED BY <2>1, <2>2 DEF BisectInv
<1> QED BY <1>2, <1>3, <1>4, <1>5, <1>6, <1>7 DEF JobNext

\* Whatever calls of the model fail, in a chunk of any size, the bisection ends
\* after at most two calls per segment less one.
THEOREM BisectionIsBounded == JobSpec => []BisectionEnds
<1>1. JobInit => BisectInv
  BY DEF JobInit, BisectInv
<1>2. JobSpec => [](PlanInv /\ BisectInv)
  BY <1>1, PlanInit, PlanNext, BisectNext, PTL DEF JobSpec
<1>3. PlanInv /\ BisectInv => BisectionEnds
  <2> SUFFICES ASSUME PlanInv, BisectInv PROVE BisectionEnds
    OBVIOUS
  <2>1. ASSUME jobStage = "cpu" PROVE modelCalls + Len(stack) <= ChunkBudget
    <3>1. /\ stack \in Batches /\ Affordable(stack, modelCalls, ChunkBudget)
          /\ modelCalls \in Nat /\ next <= Len(plan)
      BY <2>1 DEF BisectInv
    <3>2. ChunkBudget \in Int
      BY <3>1, ChunkLemma
    <3> QED BY <3>1, <3>2, CostLemma
  <2>2. jobStage = "assemble" => modelCalls <= ChunkBudget
    BY DEF BisectInv
  <2> QED BY <2>1, <2>2 DEF BisectionEnds, ChunkBudget
<1> QED BY <1>2, <1>3, PTL

-----------------------------------------------------------------------------
(* The characters of a text.                                               *)

Chars == {"c", "l", "n"}

WordsNext(words, ch) == IF ch = "n" THEN words ELSE Append(words, ch)

LEMMA WordsNextType ==
  ASSUME NEW words \in Seq(Chars), NEW ch \in Chars PROVE WordsNext(words, ch) \in Seq(Chars)
BY DEF WordsNext

LEMMA WordsNextConcat ==
  ASSUME NEW a \in Seq(Chars), NEW b \in Seq(Chars), NEW ch \in Chars
  PROVE  WordsNext(a \o b, ch) = a \o WordsNext(b, ch)
BY DEF WordsNext

LEMMA WordsFunction ==
  ASSUME NEW s \in Seq(Chars)
  PROVE  \E f : /\ f[0] = <<>> /\ \A n \in 1 .. Len(s) : f[n] = WordsNext(f[n - 1], s[n])
                /\ \A n \in 0 .. Len(s) : f[n] \in Seq(Chars)
                /\ Words(s) = f[Len(s)]
<1> DEFINE After(words, n) == IF s[n] = "n" THEN words ELSE Append(words, s[n])
           Fcn(g, k) == g = [n \in 0 .. k |-> IF n = 0 THEN <<>> ELSE After(g[n - 1], n)]
           Good == {k \in Nat : \E g : Fcn(g, k)}
<1>1. 0 \in Good
  <2>1. Fcn([n \in 0 .. 0 |-> <<>>], 0)
    OBVIOUS
  <2> QED BY <2>1
<1>2. ASSUME NEW k \in Nat, k \in Good PROVE k + 1 \in Good
  <2> HIDE DEF After
  <2>1. PICK g : Fcn(g, k)
    BY <1>2
  <2> DEFINE h == [n \in 0 .. k + 1 |-> IF n = k + 1 THEN After(g[k], k + 1) ELSE g[n]]
  <2>2. ASSUME NEW n \in 0 .. k + 1
        PROVE  h[n] = IF n = 0 THEN <<>> ELSE After(h[n - 1], n)
    BY <2>1
  <2>3. Fcn(h, k + 1)
    BY <2>2
  <2> HIDE DEF h, Fcn
  <2> QED BY <2>3
<1>3. Len(s) \in Good
  <2> HIDE DEF Good
  <2> QED BY <1>1, <1>2, SetInduction
<1>4. PICK f : Fcn(f, Len(s)) /\ f = CHOOSE g : Fcn(g, Len(s))
  BY <1>3
<1>5. Words(s) = f[Len(s)]
  BY <1>4 DEF Words
<1>6. f[0] = <<>> /\ \A n \in 1 .. Len(s) : f[n] = After(f[n - 1], n)
  <2> HIDE DEF After
  <2> QED BY <1>4
<1>7. \A n \in 1 .. Len(s) : f[n] = WordsNext(f[n - 1], s[n])
  BY <1>6 DEF WordsNext
<1> HIDE DEF After
<1>8. \A n \in 0 .. Len(s) : f[n] \in Seq(Chars)
  <2> DEFINE Typed == {n \in Nat : n <= Len(s) => f[n] \in Seq(Chars)}
  <2>1. 0 \in Typed
    <3>1. f[0] \in Seq(Chars)
      BY <1>6
    <3> QED BY <3>1
  <2>2. ASSUME NEW n \in Nat, n \in Typed PROVE n + 1 \in Typed
    <3> SUFFICES ASSUME n + 1 <= Len(s) PROVE f[n + 1] \in Seq(Chars)
      OBVIOUS
    <3>1. n + 1 \in 1 .. Len(s) /\ (n + 1) - 1 = n /\ f[n] \in Seq(Chars) /\ s[n + 1] \in Chars
      BY <2>2
    <3> QED BY <1>7, <3>1, WordsNextType
  <2>3. \A n \in Nat : n \in Typed
    <3> HIDE DEF Typed
    <3> QED BY <2>1, <2>2, SetInduction
  <2> QED BY <2>3
<1> QED BY <1>5, <1>6, <1>7, <1>8

LEMMA WordsConcat ==
  ASSUME NEW s \in Seq(Chars), NEW t \in Seq(Chars)
  PROVE  Words(s \o t) = Words(s) \o Words(t) /\ Words(s) \in Seq(Chars)
<1>1. s \o t \in Seq(Chars) /\ Len(s) \in Nat /\ Len(t) \in Nat /\ Len(s \o t) = Len(s) + Len(t)
  OBVIOUS
<1>2. PICK f : /\ f[0] = <<>> /\ \A n \in 1 .. Len(s) : f[n] = WordsNext(f[n - 1], s[n])
               /\ \A n \in 0 .. Len(s) : f[n] \in Seq(Chars)
               /\ Words(s) = f[Len(s)]
  BY WordsFunction
<1>3. PICK g : /\ g[0] = <<>> /\ \A n \in 1 .. Len(t) : g[n] = WordsNext(g[n - 1], t[n])
               /\ \A n \in 0 .. Len(t) : g[n] \in Seq(Chars)
               /\ Words(t) = g[Len(t)]
  BY WordsFunction
<1>4. PICK h : /\ h[0] = <<>> /\ \A n \in 1 .. Len(s \o t) : h[n] = WordsNext(h[n - 1], (s \o t)[n])
               /\ \A n \in 0 .. Len(s \o t) : h[n] \in Seq(Chars)
               /\ Words(s \o t) = h[Len(s \o t)]
  BY <1>1, WordsFunction
<1>5. h[Len(s)] = f[Len(s)]
  <2> DEFINE Same == {n \in Nat : n <= Len(s) => h[n] = f[n]}
  <2>1. 0 \in Same
    BY <1>2, <1>4
  <2>2. ASSUME NEW n \in Nat, n \in Same PROVE n + 1 \in Same
    <3> SUFFICES ASSUME n + 1 <= Len(s) PROVE h[n + 1] = f[n + 1]
      OBVIOUS
    <3>1. n + 1 \in 1 .. Len(s) /\ n + 1 \in 1 .. Len(s \o t) /\ (n + 1) - 1 = n /\ h[n] = f[n]
      BY <1>1, <2>2
    <3>2. (s \o t)[n + 1] = s[n + 1]
      BY <3>1
    <3> QED BY <1>2, <1>4, <3>1, <3>2
  <2>3. Len(s) \in Same
    <3> HIDE DEF Same
    <3> QED BY <1>1, <2>1, <2>2, SetInduction
  <2> QED BY <1>1, <2>3
<1>6. h[Len(s) + Len(t)] = f[Len(s)] \o g[Len(t)]
  <2> DEFINE Reached(n) == h[Len(s) + n] = f[Len(s)] \o g[n]
             Same == {n \in Nat : n <= Len(t) => Reached(n)}
  <2>0. f[Len(s)] \in Seq(Chars)
    BY <1>1, <1>2
  <2>1. Reached(0)
    <3>1. Len(s) + 0 = Len(s) /\ f[Len(s)] \o <<>> = f[Len(s)]
      BY <1>1, <2>0
    <3> QED BY <1>3, <1>5, <3>1
  <2>2. ASSUME NEW n \in Nat, Reached(n), n + 1 <= Len(t) PROVE Reached(n + 1)
    <3>1. /\ n + 1 \in 1 .. Len(t) /\ Len(s) + (n + 1) \in 1 .. Len(s \o t) /\ (n + 1) - 1 = n
          /\ (Len(s) + (n + 1)) - 1 = Len(s) + n /\ n \in 0 .. Len(t)
      BY <1>1, <2>2
    <3>2. (s \o t)[Len(s) + (n + 1)] = t[n + 1] /\ t[n + 1] \in Chars
      BY <3>1
    <3>3. h[Len(s) + (n + 1)] = WordsNext(f[Len(s)] \o g[n], t[n + 1])
      BY <1>4, <2>2, <3>1, <3>2
    <3>4. g[n + 1] = WordsNext(g[n], t[n + 1]) /\ g[n] \in Seq(Chars)
      BY <1>3, <3>1
    <3>5. WordsNext(f[Len(s)] \o g[n], t[n + 1]) = f[Len(s)] \o WordsNext(g[n], t[n + 1])
      BY <2>0, <3>2, <3>4, WordsNextConcat
    <3> QED BY <3>3, <3>4, <3>5
  <2> HIDE DEF Reached
  <2>3. 0 \in Same
    BY <2>1
  <2>4. ASSUME NEW n \in Nat, n \in Same PROVE n + 1 \in Same
    <3>1. n + 1 \in Nat /\ (n + 1 <= Len(t) => n <= Len(t))
      BY <1>1
    <3> QED BY <2>2, <2>4, <3>1
  <2>5. Len(t) \in Same
    <3> HIDE DEF Same
    <3> QED BY <1>1, <2>3, <2>4, SetInduction
  <2>6. Reached(Len(t))
    BY <1>1, <2>5
  <2> QED BY <2>6 DEF Reached
<1> QED BY <1>1, <1>2, <1>3, <1>4, <1>6

\* Newlines alone have no words.
LEMMA WordsOfNewlines ==
  ASSUME NEW s \in Seq(Chars), \A i \in 1 .. Len(s) : s[i] = "n" PROVE Words(s) = <<>>
<1>1. PICK f : /\ f[0] = <<>> /\ \A n \in 1 .. Len(s) : f[n] = WordsNext(f[n - 1], s[n])
               /\ Words(s) = f[Len(s)]
  BY WordsFunction
<1> DEFINE None == {n \in Nat : n <= Len(s) => f[n] = <<>>}
<1>2. 0 \in None
  BY <1>1
<1>3. ASSUME NEW n \in Nat, n \in None PROVE n + 1 \in None
  <2> SUFFICES ASSUME n + 1 <= Len(s) PROVE f[n + 1] = <<>>
    OBVIOUS
  <2>1. n + 1 \in 1 .. Len(s) /\ (n + 1) - 1 = n /\ f[n] = <<>>
    BY <1>3
  <2> QED BY <1>1, <2>1 DEF WordsNext
<1>4. Len(s) \in None
  <2>1. Len(s) \in Nat
    OBVIOUS
  <2> HIDE DEF None
  <2> QED BY <1>2, <1>3, <2>1, SetInduction
<1> QED BY <1>1, <1>4

LEMMA MinLemma ==
  ASSUME NEW n \in Nat, NEW S \in SUBSET (1 .. n), S # {}
  PROVE  Min(S) \in S /\ \A y \in S : Min(S) <= y
<1> DEFINE T == {n - y : y \in S}
<1>1. T \in SUBSET (0 .. n) /\ T # {}
  <2>1. PICK y \in S : y \in 1 .. n
    OBVIOUS
  <2>2. n - y \in T
    OBVIOUS
  <2> QED BY <2>2
<1>2. PICK m \in {Max(T)} : m \in T /\ \A y \in T : y <= m
  <2> HIDE DEF T
  <2> QED BY <1>1, MaxLemma
<1>3. PICK x \in S : m = n - x
  BY <1>2
<1>4. \A y \in S : x <= y
  <2> SUFFICES ASSUME NEW y \in S PROVE x <= y
    OBVIOUS
  <2>1. n - y \in T
    OBVIOUS
  <2>2. n - y <= n - x
    BY <1>2, <1>3, <2>1
  <2> QED BY <2>2
<1>5. \E z \in S : \A y \in S : z <= y
  BY <1>4
<1> QED BY <1>5 DEF Min

\* A text without newlines before and after it.
LEMMA WordsOfMiddle ==
  ASSUME NEW s \in Seq(Chars), NEW lo \in 1 .. Len(s), NEW hi \in lo .. Len(s),
         \A i \in 1 .. Len(s) : i < lo \/ hi < i => s[i] = "n"
  PROVE  SubSeq(s, lo, hi) \in Seq(Chars) /\ Words(SubSeq(s, lo, hi)) = Words(s)
<1> DEFINE n == Len(s)
           a == SubSeq(s, 1, lo - 1)
           b == SubSeq(s, lo, hi)
           c == SubSeq(s, hi + 1, n)
<1>1. n \in Nat /\ \A i \in 1 .. n : s[i] \in Chars
  OBVIOUS
<1>2. a \in Seq(Chars) /\ Len(a) = lo - 1 /\ \A i \in 1 .. lo - 1 : a[i] = s[i]
  <2>1. \A i \in 1 .. lo - 1 : s[i] \in Chars
    BY <1>1
  <2>2. 1 \in Int /\ lo - 1 \in Int
    OBVIOUS
  <2>3. /\ a \in Seq(Chars) /\ Len(a) = IF 1 <= lo - 1 THEN lo - 1 - 1 + 1 ELSE 0
        /\ \A i \in 1 .. lo - 1 - 1 + 1 : a[i] = s[1 + i - 1]
    BY <2>1, <2>2, SubSeqProperties
  <2> HIDE DEF a
  <2> QED BY <2>3
<1>3. b \in Seq(Chars)
  <2>1. \A i \in lo .. hi : s[i] \in Chars
    BY <1>1
  <2> QED BY <2>1, SubSeqProperties
<1>4. c \in Seq(Chars) /\ Len(c) = n - hi /\ \A i \in 1 .. n - hi : c[i] = s[hi + i]
  <2>1. \A i \in hi + 1 .. n : s[i] \in Chars
    BY <1>1
  <2>2. hi + 1 \in Int /\ n \in Int
    OBVIOUS
  <2>3. /\ c \in Seq(Chars) /\ Len(c) = IF hi + 1 <= n THEN n - (hi + 1) + 1 ELSE 0
        /\ \A i \in 1 .. n - (hi + 1) + 1 : c[i] = s[hi + 1 + i - 1]
    BY <2>1, <2>2, SubSeqProperties
  <2> HIDE DEF c, n
  <2>4. \A i \in 1 .. n - hi : i \in 1 .. n - (hi + 1) + 1 /\ hi + 1 + i - 1 = hi + i
    BY <1>1
  <2>5. Len(c) = n - hi
    <3>1. hi + 1 <= n => n - (hi + 1) + 1 = n - hi
      BY <1>1
    <3>2. ~(hi + 1 <= n) => n - hi = 0
      BY <1>1 DEF n
    <3> QED BY <2>3, <3>1, <3>2
  <2>6. \A i \in 1 .. n - hi : c[i] = s[hi + i]
    BY <2>3, <2>4
  <2> QED BY <2>3, <2>5, <2>6
<1>5. s = (a \o b) \o c
  <2>1. lo \in 1 .. Len(s) + 1 /\ lo - 1 \in 0 .. Len(s) /\ hi \in lo - 1 .. Len(s) /\ lo - 1 + 1 = lo
    OBVIOUS
  <2>2. SubSeq(s, 1, lo - 1) \o SubSeq(s, lo - 1 + 1, hi) = SubSeq(s, 1, hi)
    BY <2>1, ConcatAdjacentSubSeq
  <2>3. SubSeq(s, 1, hi) \o c = SubSeq(s, 1, n)
    <3>1. 1 \in 1 .. Len(s) + 1 /\ hi \in 1 - 1 .. Len(s) /\ Len(s) \in hi .. Len(s)
      OBVIOUS
    <3> QED BY <3>1, ConcatAdjacentSubSeq
  <2>4. SubSeq(s, 1, n) = s
    BY SubSeqFull
  <2> QED BY <2>1, <2>2, <2>3, <2>4
<1>6. \A i \in 1 .. Len(a) : a[i] = "n"
  <2> HIDE DEF a
  <2> QED BY <1>2
<1>7. \A i \in 1 .. Len(c) : c[i] = "n"
  <2> HIDE DEF c
  <2>1. \A i \in 1 .. n - hi : hi + i \in 1 .. Len(s) /\ hi < hi + i
    OBVIOUS
  <2> QED BY <1>4, <2>1
<1> HIDE DEF a, b, c
<1>8. Words(a) = <<>> /\ Words(c) = <<>>
  BY <1>2, <1>4, <1>6, <1>7, WordsOfNewlines
<1>9. Words(a \o b) = Words(a) \o Words(b) /\ Words(b) \in Seq(Chars) /\ a \o b \in Seq(Chars)
  <2>1. Words(a \o b) = Words(a) \o Words(b) /\ a \o b \in Seq(Chars)
    <3>1. a \o b \in Seq(Chars)
      BY <1>2, <1>3, ConcatProperties
    <3>2. Words(a \o b) = Words(a) \o Words(b)
      BY <1>2, <1>3, WordsConcat
    <3> QED BY <3>1, <3>2
  <2>2. Words(b) \in Seq(Chars)
    BY <1>3, WordsConcat
  <2> QED BY <2>1, <2>2
<1>10. Words(s) = Words(a \o b) \o Words(c)
  BY <1>4, <1>5, <1>9, WordsConcat
<1>11. Words(s) = Words(b)
  BY <1>8, <1>9, <1>10
<1> QED BY <1>3, <1>11 DEF b

\* strip() takes newlines alone.
LEMMA StrippedLemma ==
  ASSUME NEW s \in Seq(Chars)
  PROVE  /\ Stripped(s) \in Seq(Chars) /\ Words(Stripped(s)) = Words(s)
         /\ Stripped(s) # <<>> => \E lo, hi \in 1 .. Len(s) : lo <= hi /\ Stripped(s) = SubSeq(s, lo, hi)
<1> DEFINE content == {i \in DOMAIN s : s[i] # "n"}
           n == Len(s)
<1>1. n \in Nat /\ DOMAIN s = 1 .. n /\ \A i \in 1 .. n : s[i] \in Chars
  OBVIOUS
<1>2. CASE content = {}
  <2>1. Stripped(s) = <<>>
    BY <1>2 DEF Stripped
  <2>2. Words(s) = <<>>
    BY <1>1, <1>2, WordsOfNewlines
  <2>3. Words(<<>>) = <<>> /\ <<>> \in Seq(Chars)
    <3>1. <<>> \in Seq(Chars) /\ \A i \in 1 .. Len(<<>>) : <<>>[i] = "n"
      OBVIOUS
    <3> QED BY <3>1, WordsOfNewlines
  <2> QED BY <2>1, <2>2, <2>3
<1>3. CASE content # {}
  <2>1. content \in SUBSET (1 .. n)
    BY <1>1
  <2>2. PICK lo \in {Min(content)} : lo \in content /\ \A y \in content : lo <= y
    <3> HIDE DEF content, n
    <3> QED BY <1>1, <1>3, <2>1, MinLemma
  <2>3. PICK hi \in {Max(content)} : hi \in content /\ \A y \in content : y <= hi
    <3>1. content \in SUBSET (0 .. n)
      BY <2>1
    <3> HIDE DEF content, n
    <3> QED BY <1>1, <1>3, <3>1, MaxLemma
  <2>4. Stripped(s) = SubSeq(s, lo, hi)
    BY <1>3, <2>2, <2>3 DEF Stripped
  <2>5. lo \in 1 .. n /\ hi \in lo .. n /\ lo <= hi /\ hi \in 1 .. n
    BY <2>1, <2>2, <2>3
  <2>6. \A i \in 1 .. Len(s) : i < lo \/ hi < i => s[i] = "n"
    <3> SUFFICES ASSUME NEW i \in 1 .. n, i < lo \/ hi < i PROVE i \notin content
      BY <1>1
    <3> HIDE DEF content, n
    <3> QED BY <2>2, <2>3, <2>5
  <2>7. SubSeq(s, lo, hi) \in Seq(Chars) /\ Words(SubSeq(s, lo, hi)) = Words(s)
    <3> HIDE DEF content
    <3> QED BY <2>5, <2>6, WordsOfMiddle
  <2> QED BY <2>4, <2>5, <2>7
<1> QED BY <1>2, <1>3

\* FlattenSeq is built up one text after the other.
LEMMA FlattenFunction ==
  ASSUME NEW T, NEW ss \in Seq(Seq(T)), ss # <<>>
  PROVE  \E f : /\ f[1] = ss[1] /\ \A n \in 2 .. Len(ss) : f[n] = f[n - 1] \o ss[n]
                /\ \A n \in 1 .. Len(ss) : f[n] \in Seq(T)
                /\ FlattenSeq(ss) = f[Len(ss)]
<1> DEFINE After(a, i) == a \o ss[i]
           Fcn(g, k) == g = [i \in 1 .. k |-> IF i = 1 THEN ss[i] ELSE After(g[i - 1], i)]
           Good == {k \in Nat : \E g : Fcn(g, k + 1)}
<1>0. Len(ss) \in Nat \ {0} /\ \A n \in 1 .. Len(ss) : ss[n] \in Seq(T)
  OBVIOUS
<1>1. 0 \in Good
  <2>1. Fcn([i \in 1 .. 0 + 1 |-> ss[i]], 0 + 1)
    OBVIOUS
  <2> QED BY <2>1
<1>2. ASSUME NEW k \in Nat, k \in Good PROVE k + 1 \in Good
  <2> HIDE DEF After
  <2>1. PICK g : Fcn(g, k + 1)
    BY <1>2
  <2> DEFINE h == [i \in 1 .. (k + 1) + 1 |-> IF i = (k + 1) + 1 THEN After(g[k + 1], (k + 1) + 1) ELSE g[i]]
  <2>2. ASSUME NEW i \in 1 .. (k + 1) + 1
        PROVE  h[i] = IF i = 1 THEN ss[i] ELSE After(h[i - 1], i)
    BY <2>1
  <2>3. Fcn(h, (k + 1) + 1)
    BY <2>2
  <2> HIDE DEF h, Fcn
  <2> QED BY <2>3
<1>3. Len(ss) - 1 \in Good
  <2>1. Len(ss) - 1 \in Nat
    BY <1>0
  <2> HIDE DEF Good
  <2> QED BY <1>1, <1>2, <2>1, SetInduction
<1>4. PICK f : Fcn(f, Len(ss)) /\ f = CHOOSE g : Fcn(g, Len(ss))
  <2>1. (Len(ss) - 1) + 1 = Len(ss)
    BY <1>0
  <2>2. \E g : Fcn(g, Len(ss))
    BY <1>3, <2>1
  <2> HIDE DEF Fcn
  <2> QED BY <2>2
<1>5. FlattenSeq(ss) = f[Len(ss)]
  BY <1>0, <1>4 DEF FlattenSeq
<1>6. f[1] = ss[1] /\ \A n \in 2 .. Len(ss) : f[n] = f[n - 1] \o ss[n]
  <2>1. f[1] = ss[1]
    <3>1. 1 \in 1 .. Len(ss)
      BY <1>0
    <3> HIDE DEF After
    <3> QED BY <3>1, <1>4
  <2>2. ASSUME NEW n \in 2 .. Len(ss) PROVE f[n] = After(f[n - 1], n)
    <3>1. n \in 1 .. Len(ss) /\ n # 1
      BY <1>0
    <3> HIDE DEF After
    <3> QED BY <3>1, <1>4
  <2> QED BY <2>1, <2>2
<1> HIDE DEF After
<1>7. \A n \in 1 .. Len(ss) : f[n] \in Seq(T)
  <2> DEFINE Typed == {n \in Nat : n + 1 <= Len(ss) => f[n + 1] \in Seq(T)}
  <2>1. 0 \in Typed
    BY <1>0, <1>6
  <2>2. ASSUME NEW n \in Nat, n \in Typed PROVE n + 1 \in Typed
    <3> SUFFICES ASSUME (n + 1) + 1 <= Len(ss) PROVE f[(n + 1) + 1] \in Seq(T)
      OBVIOUS
    <3>1. /\ (n + 1) + 1 \in 2 .. Len(ss) /\ (n + 1) + 1 \in 1 .. Len(ss) /\ ((n + 1) + 1) - 1 = n + 1
          /\ n + 1 <= Len(ss)
      BY <1>0
    <3>2. f[n + 1] \in Seq(T) /\ ss[(n + 1) + 1] \in Seq(T) /\ f[(n + 1) + 1] = f[n + 1] \o ss[(n + 1) + 1]
      BY <1>0, <1>6, <2>2, <3>1
    <3> QED BY <3>2, ConcatProperties
  <2>3. \A n \in Nat : n \in Typed
    <3> HIDE DEF Typed
    <3> QED BY <2>1, <2>2, SetInduction
  <2>4. ASSUME NEW n \in 1 .. Len(ss) PROVE f[n] \in Seq(T)
    <3>1. n - 1 \in Nat /\ (n - 1) + 1 = n /\ n <= Len(ss)
      BY <1>0
    <3> QED BY <2>3, <3>1
  <2> QED BY <2>4
<1> QED BY <1>5, <1>6, <1>7

LEMMA FlattenEmpty == FlattenSeq(<<>>) = <<>>
BY DEF FlattenSeq

LEMMA FlattenType ==
  ASSUME NEW T, NEW ss \in Seq(Seq(T)) PROVE FlattenSeq(ss) \in Seq(T)
<1>1. CASE ss = <<>>
  <2>1. <<>> \in Seq(T)
    OBVIOUS
  <2> QED BY <1>1, <2>1, FlattenEmpty
<1>2. CASE ss # <<>>
  <2>1. Len(ss) \in 1 .. Len(ss)
    BY <1>2
  <2> QED BY <1>2, <2>1, FlattenFunction
<1> QED BY <1>1, <1>2

LEMMA FlattenAppend ==
  ASSUME NEW T, NEW ss \in Seq(Seq(T)), NEW s \in Seq(T)
  PROVE  FlattenSeq(Append(ss, s)) = FlattenSeq(ss) \o s
<1> DEFINE k == Len(ss)
           rr == Append(ss, s)
<1>1. k \in Nat /\ rr \in Seq(Seq(T)) /\ Len(rr) = k + 1 /\ rr[k + 1] = s /\ \A n \in 1 .. k : rr[n] = ss[n]
  OBVIOUS
<1> HIDE DEF k, rr
<1>2. rr # <<>>
  <2>1. Len(<<>>) = 0 /\ k + 1 # 0
    BY <1>1
  <2> QED BY <1>1, <2>1
<1>3. PICK h : /\ h[1] = rr[1] /\ \A n \in 2 .. k + 1 : h[n] = h[n - 1] \o rr[n]
               /\ FlattenSeq(rr) = h[k + 1]
  <2>1. \E h : /\ h[1] = rr[1] /\ \A n \in 2 .. Len(rr) : h[n] = h[n - 1] \o rr[n]
               /\ FlattenSeq(rr) = h[Len(rr)]
    BY <1>1, <1>2, FlattenFunction
  <2> QED BY <1>1, <2>1
<1>4. CASE ss = <<>>
  <2>1. k = 0
    BY <1>4 DEF k
  <2>2. <<>> \o s = s
    OBVIOUS
  <2> QED BY <1>1, <1>3, <1>4, <2>1, <2>2, FlattenEmpty DEF rr
<1>5. CASE ss # <<>>
  <2>1. k \in Nat \ {0} /\ \A n \in 1 .. k : ss[n] \in Seq(T)
    BY <1>1, <1>5 DEF k
  <2>2. PICK f : /\ f[1] = ss[1] /\ \A n \in 2 .. k : f[n] = f[n - 1] \o ss[n]
                 /\ FlattenSeq(ss) = f[k]
    BY <1>5, FlattenFunction DEF k
  <2> DEFINE Same == {n \in Nat : n + 1 <= k => h[n + 1] = f[n + 1]}
  <2>3. 0 \in Same
    BY <1>1, <1>3, <2>1, <2>2
  <2>4. ASSUME NEW n \in Nat, n \in Same PROVE n + 1 \in Same
    <3> SUFFICES ASSUME (n + 1) + 1 <= k PROVE h[(n + 1) + 1] = f[(n + 1) + 1]
      OBVIOUS
    <3>1. /\ (n + 1) + 1 \in 2 .. k + 1 /\ (n + 1) + 1 \in 2 .. k /\ ((n + 1) + 1) - 1 = n + 1
          /\ (n + 1) + 1 \in 1 .. k /\ h[n + 1] = f[n + 1]
      BY <2>1, <2>4
    <3>2. rr[(n + 1) + 1] = ss[(n + 1) + 1]
      BY <1>1, <3>1
    <3>3. h[(n + 1) + 1] = h[n + 1] \o rr[(n + 1) + 1] /\ f[(n + 1) + 1] = f[n + 1] \o ss[(n + 1) + 1]
      BY <1>3, <2>2, <3>1
    <3> QED BY <3>1, <3>2, <3>3
  <2>5. k - 1 \in Same
    <3>1. k - 1 \in Nat
      BY <2>1
    <3> HIDE DEF Same
    <3> QED BY <2>3, <2>4, <3>1, SetInduction
  <2>6. h[k] = f[k]
    BY <2>1, <2>5
  <2>7. k + 1 \in 2 .. k + 1 /\ (k + 1) - 1 = k
    BY <2>1
  <2>8. h[k + 1] = h[k] \o s
    BY <1>1, <1>3, <2>7
  <2> QED BY <1>3, <2>2, <2>6, <2>8 DEF rr
<1> QED BY <1>4, <1>5

-----------------------------------------------------------------------------
(* What counting costs.                                                    *)

\* A part of a text has no more characters of a kind than the text.
LEMMA CountOfPart ==
  ASSUME NEW s \in Seq(Chars), NEW lo \in 1 .. Len(s), NEW hi \in lo .. Len(s), NEW symbols
  PROVE  /\ CountOf(SubSeq(s, lo, hi), symbols) \in Nat /\ CountOf(s, symbols) \in Nat
         /\ CountOf(SubSeq(s, lo, hi), symbols) <= CountOf(s, symbols)
<1> DEFINE t == SubSeq(s, lo, hi)
           S == {i \in DOMAIN s : s[i] \in symbols}
           T == {i \in DOMAIN t : t[i] \in symbols}
<1>1. Len(s) \in Nat /\ DOMAIN s = 1 .. Len(s)
  OBVIOUS
<1>2. Len(t) = hi - lo + 1 /\ DOMAIN t = 1 .. hi - lo + 1 /\ \A i \in 1 .. hi - lo + 1 : t[i] = s[lo + i - 1]
  <2>1. \A i \in lo .. hi : s[i] \in Chars
    OBVIOUS
  <2>2. lo \in Int /\ hi \in Int /\ lo <= hi
    OBVIOUS
  <2>3. /\ t \in Seq(Chars) /\ Len(t) = IF lo <= hi THEN hi - lo + 1 ELSE 0
        /\ \A i \in 1 .. hi - lo + 1 : t[i] = s[lo + i - 1]
    BY <2>1, <2>2, SubSeqProperties
  <2> HIDE DEF t
  <2> QED BY <2>2, <2>3
<1> HIDE DEF t
<1>3. IsFiniteSet(S) /\ IsFiniteSet(T)
  <2>1. IsFiniteSet(1 .. Len(s)) /\ IsFiniteSet(1 .. hi - lo + 1)
    BY <1>1, FS_Interval
  <2> QED BY <1>1, <1>2, <2>1, FS_Subset
<1> DEFINE f == [i \in T |-> lo + i - 1]
<1>4. f \in Injection(T, S)
  <2>1. \A i \in T : lo + i - 1 \in S
    BY <1>1, <1>2
  <2>2. \A i, j \in T : lo + i - 1 = lo + j - 1 => i = j
    BY <1>2
  <2> HIDE DEF S, T
  <2> QED BY <2>1, <2>2 DEF Injection, IsInjective
<1>5. Cardinality(T) <= Cardinality(S)
  <2> HIDE DEF S, T, f
  <2> QED BY <1>3, <1>4, FS_Injection
<1>6. Cardinality(S) \in Nat /\ Cardinality(T) \in Nat
  <2> HIDE DEF S, T
  <2> QED BY <1>3, FS_CardinalityType
<1>7. CountOf(t, symbols) = Cardinality(T) /\ CountOf(s, symbols) = Cardinality(S)
  BY DEF CountOf
<1> HIDE DEF S, T
<1> QED BY <1>5, <1>6, <1>7 DEF t

LEMMA QuarterIsMonotone ==
  ASSUME NEW a \in Nat, NEW b \in Nat, a <= b PROVE a \div 4 <= b \div 4 /\ a \div 4 \in Nat /\ b \div 4 \in Nat
OBVIOUS

\* What is part of a text that fits the budget fits it.
LEMMA FitsPart ==
  ASSUME SummaryAssumption, NEW s \in Seq(Chars), NEW lo \in 1 .. Len(s), NEW hi \in lo .. Len(s),
         NEW kind, NEW limit \in Nat, Fits(s, kind, limit)
  PROVE  Fits(SubSeq(s, lo, hi), kind, limit)
<1> DEFINE t == SubSeq(s, lo, hi)
           note == IF kind = "transcript" THEN 0 ELSE NoteTokens
           cs == CountOf(s, {"c"})
           ct == CountOf(t, {"c"})
           os == CountOf(s, {"l", "n"})
           ot == CountOf(t, {"l", "n"})
<1>1. /\ cs \in Nat /\ ct \in Nat /\ os \in Nat /\ ot \in Nat
      /\ ct <= cs /\ ot <= os
  <2>1. cs \in Nat /\ ct \in Nat /\ ct <= cs
    BY CountOfPart
  <2>2. os \in Nat /\ ot \in Nat /\ ot <= os
    BY CountOfPart
  <2> HIDE DEF cs, ct, os, ot
  <2> QED BY <2>1, <2>2
<1>2. note \in Nat /\ FixedTokens \in Nat /\ FixedOther \in Nat
  BY DEF SummaryAssumption
<1>3. /\ PromptTokens(s, kind) = FixedTokens + note + cs + (FixedOther + os + 3) \div 4
      /\ PromptTokens(t, kind) = FixedTokens + note + ct + (FixedOther + ot + 3) \div 4
  BY DEF PromptTokens
<1> HIDE DEF note, cs, ct, os, ot, t
<1>4. /\ (FixedOther + ot + 3) \div 4 <= (FixedOther + os + 3) \div 4
      /\ (FixedOther + ot + 3) \div 4 \in Nat /\ (FixedOther + os + 3) \div 4 \in Nat
  <2>1. FixedOther + ot + 3 \in Nat /\ FixedOther + os + 3 \in Nat /\ FixedOther + ot + 3 <= FixedOther + os + 3
    BY <1>1, <1>2, SMTT(30)
  <2> QED BY <2>1, QuarterIsMonotone
<1>5. PromptTokens(t, kind) <= PromptTokens(s, kind) /\ PromptTokens(s, kind) \in Nat /\ PromptTokens(t, kind) \in Nat
  <2> DEFINE qs == (FixedOther + os + 3) \div 4
             qt == (FixedOther + ot + 3) \div 4
  <2>1. qs \in Nat /\ qt \in Nat /\ qt <= qs
    BY <1>4
  <2>2. PromptTokens(s, kind) = FixedTokens + note + cs + qs /\ PromptTokens(t, kind) = FixedTokens + note + ct + qt
    BY <1>3
  <2> HIDE DEF qs, qt
  <2> QED BY <1>1, <1>2, <2>1, <2>2, SMTT(30)
<1>6. PromptTokens(s, kind) <= limit
  BY DEF Fits
<1>7. PromptTokens(t, kind) <= limit
  BY <1>5, <1>6
<1> QED BY <1>7 DEF Fits, t

\* The note beside an excerpt only adds to a prompt.
LEMMA FitsWithoutNote ==
  ASSUME SummaryAssumption, NEW s \in Seq(Chars), NEW kind, NEW limit \in Nat, Fits(s, kind, limit)
  PROVE  Fits(s, "transcript", limit)
<1> DEFINE note == IF kind = "transcript" THEN 0 ELSE NoteTokens
           c == CountOf(s, {"c"})
           o == CountOf(s, {"l", "n"})
           q == (FixedOther + o + 3) \div 4
<1>1. c \in Nat /\ o \in Nat
  <2>1. ASSUME NEW symbols PROVE CountOf(s, symbols) \in Nat
    <3>1. IsFiniteSet(1 .. Len(s))
      <4>1. 1 \in Int /\ Len(s) \in Int
        OBVIOUS
      <4> QED BY <4>1, FS_Interval
    <3>2. {i \in DOMAIN s : s[i] \in symbols} \in SUBSET (1 .. Len(s))
      OBVIOUS
    <3>3. IsFiniteSet({i \in DOMAIN s : s[i] \in symbols})
      BY <3>1, <3>2, FS_Subset
    <3> QED BY <3>3, FS_CardinalityType DEF CountOf
  <2> QED BY <2>1
<1>2. note \in Nat /\ FixedTokens \in Nat /\ FixedOther \in Nat
  BY DEF SummaryAssumption
<1>3. q \in Nat
  <2>1. FixedOther + o + 3 \in Nat
    BY <1>1, <1>2
  <2> QED BY <2>1, QuarterIsMonotone
<1>4. PromptTokens(s, kind) = FixedTokens + note + c + q /\ PromptTokens(s, "transcript") = FixedTokens + 0 + c + q
  BY DEF PromptTokens
<1>5. PromptTokens(s, kind) <= limit
  BY DEF Fits
<1> HIDE DEF note, c, o, q
<1>6. PromptTokens(s, "transcript") <= limit
  BY <1>1, <1>2, <1>3, <1>4, <1>5
<1> QED BY <1>6 DEF Fits

-----------------------------------------------------------------------------
(* The binary search for the longest fitting piece.                        *)

\* The binary search, as the steps of a function.
LEMMA SearchFunction ==
  ASSUME NEW s \in Seq(Chars), NEW kind, NEW limit
  PROVE  \E f : /\ f[0] = [low |-> 1, high |-> Len(s), best |-> 0]
                /\ \A n \in 1 .. Len(s) : f[n] = SearchNext(f[n - 1], s, kind, limit)
                /\ LongestFit(s, kind, limit) = f[Len(s)].best
<1> DEFINE After(a) == SearchNext(a, s, kind, limit)
           start == [low |-> 1, high |-> Len(s), best |-> 0]
           Fcn(g, k) == g = [n \in 0 .. k |-> IF n = 0 THEN start ELSE After(g[n - 1])]
           Good == {k \in Nat : \E g : Fcn(g, k)}
<1>1. 0 \in Good
  <2>1. Fcn([n \in 0 .. 0 |-> start], 0)
    OBVIOUS
  <2> QED BY <2>1
<1>2. ASSUME NEW k \in Nat, k \in Good PROVE k + 1 \in Good
  <2> HIDE DEF After, start
  <2>1. PICK g : Fcn(g, k)
    BY <1>2
  <2> DEFINE h == [n \in 0 .. k + 1 |-> IF n = k + 1 THEN After(g[k]) ELSE g[n]]
  <2>2. ASSUME NEW n \in 0 .. k + 1
        PROVE  h[n] = IF n = 0 THEN start ELSE After(h[n - 1])
    BY <2>1
  <2>3. Fcn(h, k + 1)
    BY <2>2
  <2> HIDE DEF h, Fcn
  <2> QED BY <2>3
<1>3. Len(s) \in Good
  <2>1. Len(s) \in Nat
    OBVIOUS
  <2> HIDE DEF Good
  <2> QED BY <1>1, <1>2, <2>1, SetInduction
<1>4. PICK f : Fcn(f, Len(s)) /\ f = CHOOSE g : Fcn(g, Len(s))
  <2> HIDE DEF Fcn
  <2> QED BY <1>3
<1>5. LongestFit(s, kind, limit) = f[Len(s)].best
  BY <1>4 DEF LongestFit
<1>6. f[0] = start /\ \A n \in 1 .. Len(s) : f[n] = After(f[n - 1])
  <2> HIDE DEF After, start
  <2> QED BY <1>4
<1> QED BY <1>5, <1>6

LEMMA MiddleLemma ==
  ASSUME NEW a \in Nat, NEW b \in Nat, a <= b PROVE (a + b) \div 2 \in a .. b
OBVIOUS

\* The search finds a prefix that fits, or none.
LEMMA LongestFitLemma ==
  ASSUME NEW s \in Seq(Chars), NEW kind, NEW limit
  PROVE  /\ LongestFit(s, kind, limit) \in 0 .. Len(s)
         /\ LongestFit(s, kind, limit) # 0 => Fits(SubSeq(s, 1, LongestFit(s, kind, limit)), kind, limit)
<1> DEFINE n == Len(s)
           Ok(a) == /\ a = [low |-> a.low, high |-> a.high, best |-> a.best]
                    /\ a.low \in 1 .. n + 1 /\ a.high \in 0 .. n /\ a.best \in 0 .. n
                    /\ a.best # 0 => Fits(SubSeq(s, 1, a.best), kind, limit)
<1>1. n \in Nat
  OBVIOUS
<1>2. PICK f : /\ f[0] = [low |-> 1, high |-> n, best |-> 0]
               /\ \A k \in 1 .. n : f[k] = SearchNext(f[k - 1], s, kind, limit)
               /\ LongestFit(s, kind, limit) = f[n].best
  BY SearchFunction
<1>3. Ok(f[0])
  BY <1>1, <1>2
<1> HIDE DEF n
<1>4. ASSUME NEW a, Ok(a) PROVE Ok(SearchNext(a, s, kind, limit))
  <2> DEFINE middle == (a.low + a.high) \div 2
             b == SearchNext(a, s, kind, limit)
  <2>1. CASE a.low > a.high
    <3>1. b = a
      BY <2>1 DEF SearchNext
    <3> QED BY <1>4, <3>1
  <2>2. CASE ~(a.low > a.high)
    <3>1. middle \in a.low .. a.high /\ middle \in 1 .. n /\ middle - 1 \in 0 .. n /\ middle + 1 \in 1 .. n + 1
      <4>1. a.low \in Nat /\ a.high \in Nat /\ a.low <= a.high /\ 1 <= a.low /\ a.high <= n
        BY <1>1, <1>4, <2>2
      <4>2. middle \in a.low .. a.high
        BY <4>1, MiddleLemma
      <4> HIDE DEF middle
      <4> QED BY <1>1, <4>1, <4>2
    <3>2. CASE Fits(SubSeq(s, 1, middle), kind, limit)
      <4>1. b = [low |-> middle + 1, high |-> a.high, best |-> middle]
        BY <2>2, <3>2 DEF SearchNext
      <4> HIDE DEF middle, b
      <4>2. b.low = middle + 1 /\ b.high = a.high /\ b.best = middle
        BY <4>1
      <4> QED BY <1>4, <3>1, <3>2, <4>1, <4>2 DEF b
    <3>3. CASE ~Fits(SubSeq(s, 1, middle), kind, limit)
      <4>1. b = [low |-> a.low, high |-> middle - 1, best |-> a.best]
        BY <2>2, <3>3 DEF SearchNext
      <4> HIDE DEF middle, b
      <4>2. b.low = a.low /\ b.high = middle - 1 /\ b.best = a.best
        BY <4>1
      <4> QED BY <1>4, <3>1, <4>1, <4>2 DEF b
    <3> QED BY <3>2, <3>3
  <2> QED BY <2>1, <2>2
<1>5. Ok(f[n])
  <2> HIDE DEF Ok
  <2> DEFINE Good == {k \in Nat : k <= n => Ok(f[k])}
  <2>1. 0 \in Good
    BY <1>3
  <2>2. ASSUME NEW k \in Nat, k \in Good PROVE k + 1 \in Good
    <3>1. k + 1 <= n => (k + 1 \in 1 .. n /\ (k + 1) - 1 = k /\ Ok(f[k]))
      BY <1>1, <2>2
    <3>2. k + 1 <= n => f[k + 1] = SearchNext(f[k], s, kind, limit)
      BY <1>2, <3>1
    <3> QED BY <1>4, <3>1, <3>2
  <2>3. n \in Good
    <3> HIDE DEF Good
    <3> QED BY <1>1, <2>1, <2>2, SetInduction
  <2> QED BY <1>1, <2>3
<1> QED BY <1>2, <1>5 DEF n

\* A chunk ends after the cursor and within the prefix that fits.
LEMMA CutLemma ==
  ASSUME NEW s, NEW cursor \in Nat, NEW end \in Nat, cursor < end
  PROVE  Cut(s, cursor, end).upTo \in cursor + 1 .. end /\ Cut(s, cursor, end).goOn = Cut(s, cursor, end).upTo
<1> DEFINE breaks == {b \in cursor + 1 .. end - 2 : s[b + 1] = "n" /\ s[b + 2] = "n"}
           at == IF end < Len(s) /\ breaks # {} THEN Max(breaks) ELSE end
<1>1. Cut(s, cursor, end) = [upTo |-> at, goOn |-> at]
  BY DEF Cut
<1>2. at \in cursor + 1 .. end
  <2>1. CASE end < Len(s) /\ breaks # {}
    <3>1. breaks \in SUBSET (0 .. end) /\ breaks \subseteq cursor + 1 .. end
      OBVIOUS
    <3>2. at = Max(breaks)
      BY <2>1
    <3> HIDE DEF breaks, at
    <3>3. Max(breaks) \in breaks
      BY <2>1, <3>1, MaxLemma
    <3> QED BY <3>1, <3>2, <3>3
  <2>2. CASE ~(end < Len(s) /\ breaks # {})
    <3>1. at = end
      BY <2>2
    <3> HIDE DEF breaks, at
    <3> QED BY <3>1
  <2> QED BY <2>1, <2>2
<1> HIDE DEF at
<1> QED BY <1>1, <1>2

-----------------------------------------------------------------------------
(* One chunk of a text.                                                    *)

\* A part of a text is a text, and so is the part of a part.
LEMMA PartLemma ==
  ASSUME NEW s \in Seq(Chars), NEW lo \in Nat \ {0}, NEW hi \in Nat, hi <= Len(s)
  PROVE  SubSeq(s, lo, hi) \in Seq(Chars) /\ Len(SubSeq(s, lo, hi)) = IF lo <= hi THEN hi - lo + 1 ELSE 0
<1>1. \A i \in lo .. hi : s[i] \in Chars
  OBVIOUS
<1>2. lo \in Int /\ hi \in Int
  OBVIOUS
<1> QED BY <1>1, <1>2, SubSeqProperties

LEMMA StartOfPart ==
  ASSUME NEW s \in Seq(Chars), NEW lo \in 1 .. Len(s), NEW hi \in lo .. Len(s), NEW k \in 1 .. hi - lo + 1
  PROVE  SubSeq(SubSeq(s, lo, hi), 1, k) = SubSeq(s, lo, lo + k - 1)
<1>1. 1 \in 1 .. hi - lo + 1 /\ hi \in 1 .. Len(s) /\ lo + 1 - 1 = lo
  OBVIOUS
<1>2. SubSeq(SubSeq(s, lo, hi), 1, k) = SubSeq(s, lo + 1 - 1, lo + k - 1)
  BY <1>1, SubSeqOfSubSeq
<1> QED BY <1>1, <1>2

\* What the loop that cuts a text has after some turns.
Cutting(a, s, kind, limit) ==
  /\ a = [cursor |-> a.cursor, fits |-> a.fits, chunks |-> a.chunks]
  /\ a.cursor \in 0 .. Len(s) /\ a.fits \in BOOLEAN /\ a.chunks \in Seq(Seq(Chars))
  /\ Words(FlattenSeq(a.chunks)) = Words(SubSeq(s, 1, a.cursor))
  /\ \A i \in DOMAIN a.chunks : Fits(a.chunks[i], kind, limit)

LEMMA ChunkNextLemma ==
  ASSUME SummaryAssumption, NEW s \in Seq(Chars), NEW kind, NEW limit \in Nat,
         NEW a, Cutting(a, s, kind, limit)
  PROVE  LET b == ChunkNext(a, s, kind, limit) IN
         /\ Cutting(b, s, kind, limit)
         /\ a.cursor = Len(s) \/ ~a.fits => b = a
         /\ a.cursor < b.cursor \/ b.cursor = Len(s) \/ ~b.fits
<1> DEFINE n == Len(s)
           c == a.cursor
           rest == SubSeq(s, c + 1, n)
           best == LongestFit(rest, kind, limit)
           cut == Cut(s, c, c + best)
           part == SubSeq(s, c + 1, cut.upTo)
           chunk == Stripped(part)
           b == ChunkNext(a, s, kind, limit)
<1>1. n \in Nat /\ c \in 0 .. n /\ a.chunks \in Seq(Seq(Chars))
  BY DEF Cutting
<1>0. n \in Nat /\ c \in Nat /\ c <= n /\ n = Len(s)
  BY DEF Cutting
<1>2. CASE c = n \/ ~a.fits
  <2>1. b = a
    BY <1>2 DEF ChunkNext
  <2> QED BY <1>2, <2>1
<1>3. CASE c < n /\ a.fits /\ best = 0
  <2>1. b = [a EXCEPT !.fits = FALSE]
    BY <1>1, <1>3 DEF ChunkNext
  <2>2. b = [cursor |-> c, fits |-> FALSE, chunks |-> a.chunks]
    BY <2>1 DEF Cutting
  <2> HIDE DEF b
  <2>3. b.cursor = c /\ b.fits = FALSE /\ b.chunks = a.chunks
    BY <2>2
  <2> QED BY <1>3, <2>2, <2>3 DEF Cutting, b
<1>4. CASE c < n /\ a.fits /\ best # 0
  <2>0. c < n /\ a.fits /\ best # 0
    BY <1>4
  <2>1. rest \in Seq(Chars) /\ Len(rest) = n - c
    <3>1. c + 1 \in Nat \ {0} /\ n \in Nat /\ n <= Len(s) /\ c + 1 <= n /\ n - (c + 1) + 1 = n - c
      <4> HIDE DEF n, c, best
      <4> QED BY <1>0, <2>0
    <3> HIDE DEF n
    <3> QED BY <3>1, PartLemma
  <2>2. best \in 1 .. n - c /\ Fits(SubSeq(rest, 1, best), kind, limit)
    <3>1. best \in 0 .. Len(rest) /\ (best # 0 => Fits(SubSeq(rest, 1, best), kind, limit))
      <4> HIDE DEF rest
      <4> QED BY <2>1, LongestFitLemma
    <3> HIDE DEF best, rest, n
    <3> QED BY <1>4, <2>1, <3>1
  <2>3. cut.upTo \in c + 1 .. c + best /\ cut.goOn = cut.upTo
    <3>1. c \in Nat /\ c + best \in Nat /\ c < c + best
      <4> HIDE DEF best, n
      <4> QED BY <1>1, <2>2, SMTT(30)
    <3> HIDE DEF best, c
    <3> QED BY <3>1, CutLemma
  <2> DEFINE up == cut.upTo
  <2>4. up \in c + 1 .. n
    <3> HIDE DEF cut, best, n, c
    <3> QED BY <1>1, <2>2, <2>3
  <2>5. b = [cursor |-> up, fits |-> TRUE,
             chunks |-> IF chunk = <<>> THEN a.chunks ELSE Append(a.chunks, chunk)]
    <3>1. b = IF c = Len(s) \/ ~a.fits THEN a
              ELSE IF best = 0 THEN [a EXCEPT !.fits = FALSE]
              ELSE [cursor |-> cut.goOn, fits |-> TRUE,
                    chunks |-> IF chunk = <<>> THEN a.chunks ELSE Append(a.chunks, chunk)]
      BY DEF ChunkNext
    <3>2. c # Len(s) /\ best # 0 /\ a.fits
      <4> HIDE DEF n, c, best
      <4> QED BY <1>0, <2>0
    <3> HIDE DEF b, best, chunk, cut
    <3> QED BY <2>3, <3>1, <3>2
  <2>6. part \in Seq(Chars) /\ Len(part) = up - c
    <3>1. c + 1 \in Nat \ {0} /\ up \in Nat /\ up <= Len(s) /\ c + 1 <= up /\ up - (c + 1) + 1 = up - c
      <4> HIDE DEF up, c, n
      <4> QED BY <1>0, <2>4
    <3>2. SubSeq(s, c + 1, up) \in Seq(Chars) /\ Len(SubSeq(s, c + 1, up)) = IF c + 1 <= up THEN up - (c + 1) + 1 ELSE 0
      <4> HIDE DEF up, c
      <4> QED BY <3>1, PartLemma
    <3> HIDE DEF cut, c
    <3> QED BY <3>1, <3>2
  <2>7. part = SubSeq(rest, 1, up - c)
    <3>1. c + 1 \in 1 .. Len(s) /\ n \in c + 1 .. Len(s) /\ up - c \in 1 .. n - (c + 1) + 1
      <4> HIDE DEF up, c, n
      <4> QED BY <1>0, <2>4
    <3>2. SubSeq(SubSeq(s, c + 1, n), 1, up - c) = SubSeq(s, c + 1, (c + 1) + (up - c) - 1)
      <4> HIDE DEF up, c, n
      <4> QED BY <3>1, StartOfPart
    <3>3. (c + 1) + (up - c) - 1 = up
      <4> HIDE DEF up, c, n
      <4> QED BY <1>0, <2>4
    <3> HIDE DEF cut, c, n
    <3> QED BY <3>2, <3>3
  <2>8. part = SubSeq(SubSeq(rest, 1, best), 1, up - c)
    <3>1. /\ 1 \in 1 .. Len(rest) /\ best \in 1 .. Len(rest) /\ 1 \in 1 .. best - 1 + 1
          /\ up - c \in 1 .. best - 1 + 1 /\ 1 + 1 - 1 = 1 /\ 1 + (up - c) - 1 = up - c
      <4> HIDE DEF cut, best, n, c, rest
      <4>1. best \in 1 .. n - c /\ Len(rest) = n - c /\ cut.upTo \in c + 1 .. c + best
        BY <2>1, <2>2, <2>3
      <4> QED BY <1>0, <4>1, SMTT(30)
    <3>2. SubSeq(SubSeq(rest, 1, best), 1, up - c) = SubSeq(rest, 1 + 1 - 1, 1 + (up - c) - 1)
      <4> HIDE DEF up, c, n, best, rest
      <4> QED BY <2>1, <3>1, SubSeqOfSubSeq
    <3> HIDE DEF up, c, n, best, rest, part
    <3> QED BY <2>7, <3>1, <3>2
  <2>9. Fits(part, kind, limit)
    <3> DEFINE prefix == SubSeq(rest, 1, best)
    <3>1. prefix \in Seq(Chars) /\ Len(prefix) = best
      <4>1. 1 \in Nat \ {0} /\ best \in Nat /\ best <= Len(rest) /\ 1 <= best /\ best - 1 + 1 = best
        <5> HIDE DEF best, rest, n, c
        <5> QED BY <1>1, <2>1, <2>2
      <4> HIDE DEF best, rest
      <4> QED BY <2>1, <4>1, PartLemma
    <3>2. 1 \in 1 .. Len(prefix) /\ up - c \in 1 .. Len(prefix)
      <4> HIDE DEF cut, best, prefix, n, c
      <4> QED BY <1>1, <2>2, <2>3, <3>1
    <3>3. Fits(SubSeq(prefix, 1, up - c), kind, limit)
      <4> HIDE DEF prefix, up, c
      <4> QED BY <2>2, <3>1, <3>2, FitsPart DEF prefix
    <3> HIDE DEF part, prefix, up, c
    <3> QED BY <2>8, <3>3 DEF prefix
  <2>10. /\ chunk \in Seq(Chars) /\ Words(chunk) = Words(part)
         /\ chunk # <<>> => \E lo, hi \in 1 .. Len(part) : lo <= hi /\ chunk = SubSeq(part, lo, hi)
    <3> HIDE DEF part
    <3> QED BY <2>6, StrippedLemma
  <2>11. chunk # <<>> => Fits(chunk, kind, limit)
    <3> SUFFICES ASSUME chunk # <<>> PROVE Fits(chunk, kind, limit)
      OBVIOUS
    <3>1. PICK lo, hi \in 1 .. Len(part) : lo <= hi /\ chunk = SubSeq(part, lo, hi)
      BY <2>10
    <3> HIDE DEF part, chunk
    <3>2. hi \in lo .. Len(part)
      BY <3>1
    <3> QED BY <2>6, <2>9, <3>1, <3>2, FitsPart
  <2> DEFINE before == SubSeq(s, 1, c)
             flat == FlattenSeq(a.chunks)
             all == IF chunk = <<>> THEN a.chunks ELSE Append(a.chunks, chunk)
  <2>12. before \o part = SubSeq(s, 1, up) /\ before \in Seq(Chars)
    <3>1. 1 \in 1 .. Len(s) + 1 /\ c \in 1 - 1 .. Len(s) /\ up \in c .. Len(s) /\ 1 \in Nat \ {0} /\ c \in Nat /\ c <= Len(s)
      <4> HIDE DEF up
      <4> QED BY <1>1, <2>4 DEF n
    <3>2. SubSeq(s, 1, c) \o SubSeq(s, c + 1, up) = SubSeq(s, 1, up)
      <4> HIDE DEF up, c
      <4> QED BY <3>1, ConcatAdjacentSubSeq
    <3>3. before \in Seq(Chars)
      <4> HIDE DEF c
      <4> QED BY <3>1, PartLemma
    <3> QED BY <3>2, <3>3
  <2>13. flat \in Seq(Chars) /\ Words(flat) = Words(before)
    <3>1. flat \in Seq(Chars)
      BY <1>1, FlattenType
    <3> QED BY <3>1 DEF Cutting
  <2>14. Words(SubSeq(s, 1, up)) = Words(flat) \o Words(chunk)
    <3>1. Words(before \o part) = Words(before) \o Words(part)
      <4> HIDE DEF before, part
      <4> QED BY <2>6, <2>12, WordsConcat
    <3> HIDE DEF before, part, up, flat, chunk
    <3> QED BY <2>10, <2>12, <2>13, <3>1
  <2>15. all \in Seq(Seq(Chars)) /\ Words(FlattenSeq(all)) = Words(SubSeq(s, 1, up))
    <3>1. CASE chunk = <<>>
      <4>1. all = a.chunks
        BY <3>1
      <4>2. Words(flat) \o <<>> = Words(flat) /\ Words(<<>>) = <<>>
        <5>1. Words(flat) \in Seq(Chars)
          <6> HIDE DEF flat
          <6> QED BY <2>13, WordsConcat
        <5>2. <<>> \in Seq(Chars) /\ \A i \in 1 .. Len(<<>>) : <<>>[i] = "n"
          OBVIOUS
        <5>3. Words(<<>>) = <<>>
          BY <5>2, WordsOfNewlines
        <5> HIDE DEF flat
        <5> QED BY <5>1, <5>3
      <4> HIDE DEF all, chunk, up
      <4> QED BY <1>1, <2>14, <3>1, <4>1, <4>2
    <3>2. CASE chunk # <<>>
      <4>1. all = Append(a.chunks, chunk)
        BY <3>2
      <4>2. all \in Seq(Seq(Chars))
        <5> HIDE DEF chunk, all
        <5> QED BY <1>1, <2>10, <4>1
      <4>3. FlattenSeq(Append(a.chunks, chunk)) = flat \o chunk
        <5> HIDE DEF chunk
        <5> QED BY <1>1, <2>10, FlattenAppend
      <4>4. Words(flat \o chunk) = Words(flat) \o Words(chunk)
        <5> HIDE DEF chunk, flat
        <5> QED BY <2>10, <2>13, WordsConcat
      <4> HIDE DEF all, chunk, up, flat
      <4> QED BY <2>14, <4>1, <4>2, <4>3, <4>4
    <3> QED BY <3>1, <3>2
  <2>16. \A i \in DOMAIN all : Fits(all[i], kind, limit)
    <3>1. \A i \in DOMAIN a.chunks : Fits(a.chunks[i], kind, limit)
      BY DEF Cutting
    <3> HIDE DEF chunk
    <3>2. CASE chunk = <<>>
      BY <3>1, <3>2
    <3>3. CASE chunk # <<>>
      <4>1. all = Append(a.chunks, chunk)
        BY <3>3
      <4>2. ASSUME NEW i \in DOMAIN Append(a.chunks, chunk) PROVE Fits(Append(a.chunks, chunk)[i], kind, limit)
        <5>1. CASE i = Len(a.chunks) + 1
          <6>1. Append(a.chunks, chunk)[i] = chunk
            BY <1>1, <5>1
          <6> QED BY <2>11, <3>3, <6>1
        <5>2. CASE i # Len(a.chunks) + 1
          <6>1. i \in DOMAIN a.chunks /\ Append(a.chunks, chunk)[i] = a.chunks[i]
            <7>1. i \in 1 .. Len(a.chunks) + 1 /\ Len(a.chunks) \in Nat
              BY <1>1, <4>2
            <7>2. i \in 1 .. Len(a.chunks)
              BY <5>2, <7>1
            <7> QED BY <1>1, <7>2
          <6> QED BY <3>1, <6>1
        <5> QED BY <5>1, <5>2
      <4> HIDE DEF all
      <4> QED BY <4>1, <4>2
    <3> QED BY <3>2, <3>3
  <2>17. b = [cursor |-> up, fits |-> TRUE, chunks |-> all]
    BY <2>5
  <2> HIDE DEF b, all, up, best
  <2>18. b.cursor = up /\ b.fits = TRUE /\ b.chunks = all
    BY <2>17
  <2>19. up \in 0 .. Len(s) /\ c < up
    BY <1>1, <2>4 DEF n
  <2>20. Cutting(b, s, kind, limit)
    <3> HIDE DEF c, n
    <3> QED BY <2>15, <2>16, <2>17, <2>18, <2>19 DEF Cutting
  <2>21. c # n /\ a.fits
    BY <1>1, <1>4
  <2> QED BY <2>18, <2>19, <2>20, <2>21 DEF b
<1>5. (c = n \/ ~a.fits) \/ (c < n /\ a.fits)
  BY <1>1
<1> HIDE DEF best, n, c
<1> QED BY <1>2, <1>3, <1>4, <1>5 DEF n, c

-----------------------------------------------------------------------------
(* All chunks of a text.                                                   *)

LEMMA ChunkFunction ==
  ASSUME NEW s \in Seq(Chars), NEW kind, NEW limit
  PROVE  \E f : /\ f[0] = [cursor |-> 0, fits |-> TRUE, chunks |-> <<>>]
                /\ \A n \in 1 .. Len(s) : f[n] = ChunkNext(f[n - 1], s, kind, limit)
                /\ ChunkText(s, kind, limit) =
                     IF s = <<>> \/ Fits(s, IF kind = "transcript_excerpt" THEN "transcript" ELSE kind, limit)
                       THEN [fits |-> TRUE, chunks |-> <<s>>]
                     ELSE IF PromptTokens(<<>>, kind) >= limit \/ ~f[Len(s)].fits THEN TooLarge
                     ELSE [fits |-> TRUE, chunks |-> f[Len(s)].chunks]
<1> DEFINE After(a) == ChunkNext(a, s, kind, limit)
           start == [cursor |-> 0, fits |-> TRUE, chunks |-> <<>>]
           Fcn(g, k) == g = [n \in 0 .. k |-> IF n = 0 THEN start ELSE After(g[n - 1])]
           Good == {k \in Nat : \E g : Fcn(g, k)}
<1>1. 0 \in Good
  <2>1. Fcn([n \in 0 .. 0 |-> start], 0)
    OBVIOUS
  <2> QED BY <2>1
<1>2. ASSUME NEW k \in Nat, k \in Good PROVE k + 1 \in Good
  <2> HIDE DEF After, start
  <2>1. PICK g : Fcn(g, k)
    BY <1>2
  <2> DEFINE h == [n \in 0 .. k + 1 |-> IF n = k + 1 THEN After(g[k]) ELSE g[n]]
  <2>2. ASSUME NEW n \in 0 .. k + 1
        PROVE  h[n] = IF n = 0 THEN start ELSE After(h[n - 1])
    BY <2>1
  <2>3. Fcn(h, k + 1)
    BY <2>2
  <2> HIDE DEF h, Fcn
  <2> QED BY <2>3
<1>3. Len(s) \in Good
  <2>1. Len(s) \in Nat
    OBVIOUS
  <2> HIDE DEF Good
  <2> QED BY <1>1, <1>2, <2>1, SetInduction
<1>4. PICK f : Fcn(f, Len(s)) /\ f = CHOOSE g : Fcn(g, Len(s))
  <2> HIDE DEF Fcn
  <2> QED BY <1>3
<1>5. ChunkText(s, kind, limit) =
        IF s = <<>> \/ Fits(s, IF kind = "transcript_excerpt" THEN "transcript" ELSE kind, limit)
          THEN [fits |-> TRUE, chunks |-> <<s>>]
        ELSE IF PromptTokens(<<>>, kind) >= limit \/ ~f[Len(s)].fits THEN TooLarge
        ELSE [fits |-> TRUE, chunks |-> f[Len(s)].chunks]
  BY <1>4 DEF ChunkText
<1>6. f[0] = start /\ \A n \in 1 .. Len(s) : f[n] = After(f[n - 1])
  <2> HIDE DEF After, start
  <2> QED BY <1>4
<1> QED BY <1>5, <1>6

\* A text that is cut at all is cut to its end.
LEMMA ChunkTextLemma ==
  ASSUME SummaryAssumption, NEW s \in Seq(Chars), NEW kind, NEW limit \in Nat,
         ChunkText(s, kind, limit).fits
  PROVE  LET chunks == ChunkText(s, kind, limit).chunks
             whole == IF kind = "transcript_excerpt" THEN "transcript" ELSE kind IN
         /\ chunks \in Seq(Seq(Chars)) /\ Words(FlattenSeq(chunks)) = Words(s)
         /\ \/ Len(chunks) = 1 /\ \A i \in DOMAIN chunks : chunks[i] = <<>> \/ Fits(chunks[i], whole, limit)
            \/ \A i \in DOMAIN chunks : Fits(chunks[i], kind, limit)
<1> DEFINE n == Len(s)
           whole == IF kind = "transcript_excerpt" THEN "transcript" ELSE kind
           cut == ChunkText(s, kind, limit)
<1>0. n \in Nat
  OBVIOUS
<1>1. PICK f : /\ f[0] = [cursor |-> 0, fits |-> TRUE, chunks |-> <<>>]
               /\ \A k \in 1 .. n : f[k] = ChunkNext(f[k - 1], s, kind, limit)
               /\ cut = IF s = <<>> \/ Fits(s, whole, limit) THEN [fits |-> TRUE, chunks |-> <<s>>]
                        ELSE IF PromptTokens(<<>>, kind) >= limit \/ ~f[n].fits THEN TooLarge
                        ELSE [fits |-> TRUE, chunks |-> f[n].chunks]
  BY ChunkFunction
<1>2. CASE s = <<>> \/ Fits(s, whole, limit)
  <2>1. cut.chunks = <<s>>
    <3> HIDE DEF cut, whole
    <3> QED BY <1>1, <1>2
  <2>2. <<s>> \in Seq(Seq(Chars)) /\ Len(<<s>>) = 1 /\ DOMAIN <<s>> = {1} /\ <<s>>[1] = s
    OBVIOUS
  <2>3. FlattenSeq(<<s>>) = s
    <3>1. <<>> \in Seq(Seq(Chars)) /\ Append(<<>>, s) = <<s>> /\ <<>> \o s = s
      OBVIOUS
    <3> QED BY <3>1, FlattenAppend, FlattenEmpty
  <2> HIDE DEF cut, whole
  <2> QED BY <1>2, <2>1, <2>2, <2>3 DEF cut, whole
<1>3. CASE ~(s = <<>> \/ Fits(s, whole, limit))
  <2>1. f[n].fits /\ cut.chunks = f[n].chunks
    <3>1. TooLarge.fits = FALSE
      BY DEF TooLarge
    <3>2. cut.fits
      OBVIOUS
    <3> HIDE DEF cut, whole, n
    <3> QED BY <1>1, <1>3, <3>1, <3>2
  <2> DEFINE Far(k) == Cutting(f[k], s, kind, limit) /\ (k <= f[k].cursor \/ f[k].cursor = n \/ ~f[k].fits)
             Good == {k \in Nat : k <= n => Far(k)}
  <2>2. Far(0)
    <3>1. <<>> \in Seq(Seq(Chars)) /\ DOMAIN <<>> = {} /\ SubSeq(s, 1, 0) = <<>>
      <4>1. SubSeq(s, 1, 0) = <<>>
        BY SubSeqEmpty
      <4> QED BY <4>1
    <3>2. f[0].cursor = 0 /\ f[0].fits = TRUE /\ f[0].chunks = <<>>
      BY <1>1
    <3>3. Words(FlattenSeq(<<>>)) = Words(SubSeq(s, 1, 0))
      BY <3>1, FlattenEmpty
    <3>4. f[0] = [cursor |-> f[0].cursor, fits |-> f[0].fits, chunks |-> f[0].chunks]
      BY <1>1
    <3>5. 0 \in 0 .. Len(s) /\ TRUE \in BOOLEAN
      BY <1>0
    <3>6. Cutting(f[0], s, kind, limit)
      BY <3>1, <3>2, <3>3, <3>4, <3>5 DEF Cutting
    <3> QED BY <3>2, <3>6
  <2>3. ASSUME NEW k \in Nat, Far(k), k + 1 <= n PROVE Far(k + 1)
    <3>1. k + 1 \in 1 .. n /\ (k + 1) - 1 = k
      BY <1>0, <2>3
    <3>2. f[k + 1] = ChunkNext(f[k], s, kind, limit)
      BY <1>1, <3>1
    <3>3. /\ Cutting(f[k + 1], s, kind, limit)
          /\ f[k].cursor = Len(s) \/ ~f[k].fits => f[k + 1] = f[k]
          /\ f[k].cursor < f[k + 1].cursor \/ f[k + 1].cursor = Len(s) \/ ~f[k + 1].fits
      BY <2>3, <3>2, ChunkNextLemma
    <3>4. f[k].cursor \in Nat /\ f[k + 1].cursor \in Nat
      BY <2>3, <3>3 DEF Cutting
    <3> QED BY <2>3, <3>3, <3>4
  <2>4. Far(n)
    <3> HIDE DEF Far
    <3>1. 0 \in Good
      BY <2>2
    <3>2. ASSUME NEW k \in Nat, k \in Good PROVE k + 1 \in Good
      <4>1. k + 1 <= n => k <= n
        BY <1>0
      <4> HIDE DEF n
      <4> QED BY <2>3, <3>2, <4>1
    <3>3. n \in Good
      <4> HIDE DEF Good, n
      <4> QED BY <1>0, <3>1, <3>2, SetInduction
    <3> HIDE DEF n
    <3> QED BY <1>0, <3>3
  <2>5. f[n].cursor = Len(s)
    BY <1>0, <2>1, <2>4 DEF Cutting
  <2>6. SubSeq(s, 1, Len(s)) = s
    BY SubSeqFull
  <2>7. /\ f[n].chunks \in Seq(Seq(Chars)) /\ Words(FlattenSeq(f[n].chunks)) = Words(s)
        /\ \A i \in DOMAIN f[n].chunks : Fits(f[n].chunks[i], kind, limit)
    <3> HIDE DEF n
    <3> QED BY <2>4, <2>5, <2>6 DEF Cutting
  <2> HIDE DEF n, cut, whole
  <2> QED BY <2>1, <2>7 DEF cut, whole
<1> QED BY <1>2, <1>3

\* The text that a merge round begins with.
LEMMA JoinedRepliesType ==
  ASSUME SummaryAssumption, NEW rs \in Seq(Replies) PROVE JoinedReplies(rs) \in Seq(Chars)
<1> DEFINE joined == [i \in DOMAIN rs |-> IF i = 1 THEN rs[i] ELSE <<"n", "n">> \o rs[i]]
<1>1. \A i \in 1 .. Len(rs) : rs[i] \in Seq(Chars)
  BY DEF SummaryAssumption, Chars
<1>2. <<"n", "n">> \in Seq(Chars)
  BY DEF Chars
<1>3. \A i \in 1 .. Len(rs) : <<"n", "n">> \o rs[i] \in Seq(Chars)
  BY <1>1, <1>2, ConcatProperties
<1>4. joined \in Seq(Seq(Chars))
  <2>1. DOMAIN rs = 1 .. Len(rs) /\ Len(rs) \in Nat
    OBVIOUS
  <2>2. \A i \in 1 .. Len(rs) : (IF i = 1 THEN rs[i] ELSE <<"n", "n">> \o rs[i]) \in Seq(Chars)
    BY <1>1, <1>3
  <2>3. joined \in [1 .. Len(rs) -> Seq(Chars)]
    BY <2>1, <2>2
  <2>4. joined \in UNION {[1 .. k -> Seq(Chars)] : k \in Nat}
    BY <2>1, <2>3
  <2> QED BY <2>4, SeqDef
<1> HIDE DEF joined
<1> QED BY <1>4, FlattenType DEF JoinedReplies, joined

-----------------------------------------------------------------------------
(* What a round sends.                                                     *)

\* The state of summarize() between two requests.
SumInv ==
  /\ RequestInv
  /\ sumStage \in {"new", "planned", "calling", "audit", "summary", "failed"}
  /\ policy \in Policies /\ budget \in Budgets \cup {0}
  /\ mode \in {"single", "chunks", "groups", "final"}
  /\ sentKind \in {"transcript", "transcript_excerpt", "intermediate"}
  /\ source \in Seq(Chars) /\ pieces \in Seq(Seq(Chars)) /\ replies \in Seq(Replies)
  /\ rounds \in 0 .. MaxRounds
  /\ faults \subseteq Faults /\ mustRevise \in BOOLEAN
  /\ PiecesCoverText

LEMMA SumInitInv == ASSUME SummaryAssumption PROVE SumInit => SumInv
<1> SUFFICES ASSUME SumInit PROVE SumInv
  OBVIOUS
<1>1. RequestInv
  BY RequestInitInv
<1>2. <<>> \in Seq(Chars) /\ <<>> \in Seq(Seq(Chars)) /\ <<>> \in Seq(Replies) /\ 0 \in 0 .. MaxRounds
  BY DEF SummaryAssumption
<1> QED BY <1>1, <1>2 DEF SumInit, SumInv, PiecesCoverText, Policies, Faults

\* The stage after a plan that fails or waits for nothing.
LEMMA FailedCovers == sumStage' # "planned" => PiecesCoverText'
BY DEF PiecesCoverText

LEMMA BudgetType == SummaryAssumption => \A b \in Budgets \cup {0} : b \in Nat
BY DEF SummaryAssumption

\* A text that is sent as it is.
LEMMA WholeLemma ==
  ASSUME NEW s \in Seq(Chars), NEW kind, NEW limit, Fits(s, kind, limit),
         Plan("planned", mode', s, <<s>>, kind), budget' = limit
  PROVE  pieces' \in Seq(Seq(Chars)) /\ PiecesCoverText'
<1>1. pieces' = <<s>> /\ source' = s /\ sentKind' = kind
  BY DEF Plan
<1>2. FlattenSeq(<<s>>) = s
  <2>1. <<>> \in Seq(Seq(Chars)) /\ Append(<<>>, s) = <<s>> /\ <<>> \o s = s
    OBVIOUS
  <2> QED BY <2>1, FlattenAppend, FlattenEmpty
<1>3. <<s>> \in Seq(Seq(Chars)) /\ DOMAIN <<s>> = {1} /\ <<s>>[1] = s
  OBVIOUS
<1> QED BY <1>1, <1>2, <1>3 DEF PiecesCoverText

LEMMA SumBeginsInv ==
  ASSUME SummaryAssumption, SumInv, SumBegins PROVE SumInv'
<1>1. /\ policy' \in Policies /\ budget' \in Budgets
      /\ UNCHANGED <<replies, index, rounds, slots, faults, mustRevise>>
  BY DEF SumBegins
<1>2. RequestInv'
  BY <1>1 DEF SumInv, RequestInv, RevisionsMade, RequestsDistinct
<1>3. budget' \in Nat
  BY <1>1, BudgetType
<1>4. PICK text \in Texts, strategy \in {"single_pass", "auto", "hierarchical"} :
        LET kind == IF policy' = "mutual_check" THEN "transcript_excerpt" ELSE "transcript"
            cut == ChunkText(text, kind, budget')
            small == Fits(text, "transcript", budget') IN
        \/ /\ strategy # "hierarchical" /\ small
           /\ Plan("planned", "single", text, <<text>>, "transcript")
        \/ /\ strategy = "single_pass" /\ ~small
           /\ SumFails
        \/ /\ strategy = "hierarchical" \/ (strategy = "auto" /\ ~small)
           /\ IF ~cut.fits THEN SumFails
              ELSE Plan("planned", "chunks", text, cut.chunks,
                        IF Len(cut.chunks) > 1 THEN kind ELSE "transcript")
  BY DEF SumBegins
<1>5. text \in Seq(Chars)
  BY DEF SummaryAssumption, Chars
<1> DEFINE kind == IF policy' = "mutual_check" THEN "transcript_excerpt" ELSE "transcript"
           cut == ChunkText(text, kind, budget')
           Planned == /\ sumStage' \in {"new", "planned", "calling", "audit", "summary", "failed"}
                      /\ mode' \in {"single", "chunks", "groups", "final"}
                      /\ sentKind' \in {"transcript", "transcript_excerpt", "intermediate"}
                      /\ source' \in Seq(Chars) /\ pieces' \in Seq(Seq(Chars))
                      /\ PiecesCoverText'
<1>6. CASE SumFails
  <2>1. <<>> \in Seq(Chars) /\ <<>> \in Seq(Seq(Chars))
    OBVIOUS
  <2>2. Planned
    BY <1>6, <2>1, FailedCovers DEF SumFails, Plan, SumInv
  <2> HIDE DEF Planned
  <2> QED BY <1>1, <1>2, <2>2 DEF Planned, SumInv
<1>7. CASE Fits(text, "transcript", budget') /\ Plan("planned", "single", text, <<text>>, "transcript")
  <2>1. mode' = "single"
    BY <1>7 DEF Plan
  <2>2. pieces' \in Seq(Seq(Chars)) /\ PiecesCoverText'
    BY <1>5, <1>7, <2>1, WholeLemma
  <2>3. Planned
    BY <1>5, <1>7, <2>2 DEF Plan
  <2> HIDE DEF Planned
  <2> QED BY <1>1, <1>2, <2>3 DEF Planned, SumInv
<1>8. CASE cut.fits /\ Plan("planned", "chunks", text, cut.chunks, IF Len(cut.chunks) > 1 THEN kind ELSE "transcript")
  <2> DEFINE chunks == cut.chunks
  <2>1. /\ chunks \in Seq(Seq(Chars)) /\ Words(FlattenSeq(chunks)) = Words(text)
        /\ \/ Len(chunks) = 1 /\ \A i \in DOMAIN chunks : chunks[i] = <<>> \/ Fits(chunks[i], "transcript", budget')
           \/ \A i \in DOMAIN chunks : Fits(chunks[i], kind, budget')
    <3>1. (IF kind = "transcript_excerpt" THEN "transcript" ELSE kind) = "transcript"
      OBVIOUS
    <3> HIDE DEF kind
    <3> QED BY <1>3, <1>5, <1>8, <3>1, ChunkTextLemma
  <2>2. /\ pieces' = chunks /\ source' = text /\ sumStage' = "planned" /\ mode' = "chunks"
        /\ sentKind' = IF Len(chunks) > 1 THEN kind ELSE "transcript"
    BY <1>8 DEF Plan
  <2> HIDE DEF cut
  <2>3. \A i \in DOMAIN chunks : chunks[i] = <<>> \/ Fits(chunks[i], sentKind', budget')
    <3>1. CASE Len(chunks) = 1 /\ \A i \in DOMAIN chunks : chunks[i] = <<>> \/ Fits(chunks[i], "transcript", budget')
      BY <2>2, <3>1
    <3>2. CASE \A i \in DOMAIN chunks : Fits(chunks[i], kind, budget')
      <4> SUFFICES ASSUME NEW i \in DOMAIN chunks PROVE Fits(chunks[i], sentKind', budget')
        OBVIOUS
      <4>1. CASE Len(chunks) > 1
        BY <2>2, <3>2, <4>1
      <4>2. CASE ~(Len(chunks) > 1)
        <5>1. sentKind' = "transcript"
          BY <2>2, <4>2
        <5>2. chunks[i] \in Seq(Chars) /\ Fits(chunks[i], kind, budget')
          BY <2>1, <3>2
        <5> HIDE DEF kind, chunks
        <5> QED BY <1>3, <5>1, <5>2, FitsWithoutNote
      <4> QED BY <4>1, <4>2
    <3> HIDE DEF chunks, kind
    <3> QED BY <2>1, <3>1, <3>2
  <2>4. PiecesCoverText'
    <3> HIDE DEF chunks, kind
    <3> QED BY <2>1, <2>2, <2>3 DEF PiecesCoverText
  <2>5. sentKind' \in {"transcript", "transcript_excerpt", "intermediate"}
    <3> HIDE DEF chunks
    <3> QED BY <2>2
  <2>6. Planned
    <3> HIDE DEF chunks, kind
    <3> QED BY <1>5, <2>1, <2>2, <2>4, <2>5
  <2> HIDE DEF Planned
  <2> QED BY <1>1, <1>2, <2>6 DEF Planned, SumInv
<1> HIDE DEF Planned
<1>9. \/ SumFails
      \/ Fits(text, "transcript", budget') /\ Plan("planned", "single", text, <<text>>, "transcript")
      \/ cut.fits /\ Plan("planned", "chunks", text, cut.chunks, IF Len(cut.chunks) > 1 THEN kind ELSE "transcript")
  BY <1>4
<1> QED BY <1>6, <1>7, <1>8, <1>9

LEMMA CallSumInv ==
  ASSUME SummaryAssumption, SumInv, Call PROVE SumInv'
<1>1. pieces \in Seq(Seq(Chars)) /\ pieces # <<>> /\ replies \in Seq(Replies)
  BY DEF SumInv, Call
<1>2. sumStage' \in {"calling", "failed"} /\ mode' = mode /\ source' = <<>> /\ sentKind' = sentKind
  BY DEF Call, Plan, SumFails
<1>3. pieces' \in Seq(Seq(Chars)) /\ source' \in Seq(Chars)
  <2>1. Tail(pieces) \in Seq(Seq(Chars)) /\ <<>> \in Seq(Seq(Chars)) /\ <<>> \in Seq(Chars)
    BY <1>1
  <2>2. pieces' = Tail(pieces) \/ pieces' = <<>>
    BY DEF Call, Plan, SumFails
  <2> QED BY <1>2, <2>1, <2>2
<1>4. replies' \in Seq(Replies)
  <2>1. (\E r \in Replies : replies' = Append(replies, r)) \/ replies' = replies
    BY DEF Call
  <2>2. \A r \in Replies : Append(replies, r) \in Seq(Replies)
    BY <1>1, AppendProperties
  <2> QED BY <1>1, <2>1, <2>2
<1>5. PiecesCoverText'
  BY <1>2, FailedCovers
<1>6. RequestInv'
  BY CallInv DEF SumInv
<1>7. UNCHANGED <<policy, budget, rounds, faults, mustRevise>>
  BY DEF Call
<1> QED BY <1>2, <1>3, <1>4, <1>5, <1>6, <1>7 DEF SumInv

LEMMA MergeRoundInv ==
  ASSUME SummaryAssumption, SumInv, MergeRound PROVE SumInv'
<1> DEFINE candidate == JoinedReplies(replies)
           kind == IF policy = "mutual_check" THEN "intermediate" ELSE "transcript"
           cut == ChunkText(candidate, kind, budget)
           Planned == /\ sumStage' \in {"new", "planned", "calling", "audit", "summary", "failed"}
                      /\ mode' \in {"single", "chunks", "groups", "final"}
                      /\ sentKind' \in {"transcript", "transcript_excerpt", "intermediate"}
                      /\ source' \in Seq(Chars) /\ pieces' \in Seq(Seq(Chars))
                      /\ rounds' \in 0 .. MaxRounds
                      /\ PiecesCoverText'
<1>1. replies' = <<>> /\ index' = index /\ UNCHANGED <<policy, budget, slots, faults, mustRevise>>
  BY DEF MergeRound, MergeIndex
<1>2. RequestInv'
  BY <1>1 DEF SumInv, RequestInv, RevisionsMade, RequestsDistinct
<1>3. budget \in Nat /\ budget' = budget
  BY <1>1, BudgetType DEF SumInv
<1>4. candidate \in Seq(Chars)
  BY JoinedRepliesType DEF SumInv
<1>5. \/ SumFails /\ rounds' = rounds
      \/ Fits(candidate, kind, budget) /\ Plan("planned", "final", candidate, <<candidate>>, kind) /\ rounds' = rounds
      \/ cut.fits /\ rounds # MaxRounds /\ Plan("planned", "groups", candidate, cut.chunks, kind) /\ rounds' = rounds + 1
  BY DEF MergeRound
<1>6. rounds \in 0 .. MaxRounds /\ MaxRounds \in Nat
  BY DEF SumInv, SummaryAssumption
<1>7. kind \in {"transcript", "transcript_excerpt", "intermediate"} /\ kind # "transcript_excerpt"
  OBVIOUS
<1> HIDE DEF candidate, kind, cut
<1>8. ASSUME SumFails /\ rounds' = rounds
      PROVE  Planned
  <2>1. <<>> \in Seq(Chars) /\ <<>> \in Seq(Seq(Chars))
    OBVIOUS
  <2> QED BY <1>6, <1>8, <2>1, FailedCovers DEF SumFails, Plan, SumInv
<1>9. ASSUME Fits(candidate, kind, budget) /\ Plan("planned", "final", candidate, <<candidate>>, kind) /\ rounds' = rounds
      PROVE  Planned
  <2>1. mode' = "final"
    BY <1>9 DEF Plan
  <2>2. pieces' \in Seq(Seq(Chars)) /\ PiecesCoverText'
    BY <1>3, <1>4, <1>9, <2>1, WholeLemma
  <2> QED BY <1>4, <1>6, <1>7, <1>9, <2>2 DEF Plan
<1>10. ASSUME cut.fits /\ rounds # MaxRounds /\ Plan("planned", "groups", candidate, cut.chunks, kind) /\ rounds' = rounds + 1
      PROVE  Planned
  <2> DEFINE chunks == cut.chunks
  <2>1. /\ chunks \in Seq(Seq(Chars)) /\ Words(FlattenSeq(chunks)) = Words(candidate)
        /\ \/ Len(chunks) = 1 /\ \A i \in DOMAIN chunks : chunks[i] = <<>> \/ Fits(chunks[i], kind, budget)
           \/ \A i \in DOMAIN chunks : Fits(chunks[i], kind, budget)
    <3>1. (IF kind = "transcript_excerpt" THEN "transcript" ELSE kind) = kind
      BY <1>7
    <3>2. cut.fits
      BY <1>10
    <3> QED BY <1>3, <1>4, <3>1, <3>2, ChunkTextLemma DEF cut
  <2>2. pieces' = chunks /\ source' = candidate /\ sumStage' = "planned" /\ mode' = "groups" /\ sentKind' = kind
    BY <1>10 DEF Plan
  <2> HIDE DEF chunks
  <2>3. PiecesCoverText'
    <3>1. \A i \in DOMAIN chunks : chunks[i] = <<>> \/ Fits(chunks[i], kind, budget)
      BY <2>1
    <3> QED BY <1>3, <2>1, <2>2, <3>1 DEF PiecesCoverText
  <2>4. rounds' \in 0 .. MaxRounds
    BY <1>6, <1>10
  <2> QED BY <1>4, <1>7, <2>1, <2>2, <2>3, <2>4
<1>11. Planned
  <2> HIDE DEF Planned
  <2> QED BY <1>5, <1>8, <1>9, <1>10
<1>12. replies' \in Seq(Replies)
  BY <1>1
<1> HIDE DEF Planned
<1> QED BY <1>1, <1>2, <1>11, <1>12 DEF Planned, SumInv

LEMMA SumNextInv ==
  ASSUME SummaryAssumption, SumInv, [SumNext]_sumVars PROVE SumInv'
<1>1. RequestInv'
  BY RequestNextInv DEF SumInv
<1>2. CASE Draft
  <2>1. sumStage' \in {"summary", "audit"} /\ faults' \subseteq Faults /\ mustRevise' \in BOOLEAN
    BY <1>2 DEF Draft, SumInv
  <2>2. UNCHANGED <<policy, budget, mode, source, pieces, sentKind, replies, rounds>>
    BY <1>2 DEF Draft
  <2> QED BY <1>1, <2>1, <2>2, FailedCovers DEF SumInv
<1>3. CASE Revise
  <2>1. sumStage' \in {"summary", "audit", "failed"} /\ faults' \subseteq Faults /\ mustRevise' \in BOOLEAN
    BY <1>3 DEF Revise, SumInv
  <2>2. UNCHANGED <<policy, budget, mode, source, pieces, sentKind, replies, rounds>>
    BY <1>3 DEF Revise
  <2> QED BY <1>1, <2>1, <2>2, FailedCovers DEF SumInv
<1>4. CASE Repair
  <2>1. sumStage' \in {"summary", "failed"} /\ faults' \subseteq Faults
    BY <1>4 DEF Repair, Repaired, SumInv
  <2>2. UNCHANGED <<policy, budget, mode, source, pieces, sentKind, replies, rounds, mustRevise>>
    BY <1>4 DEF Repair
  <2> QED BY <1>1, <2>1, <2>2, FailedCovers DEF SumInv
<1>5. CASE UNCHANGED sumVars
  <2>1. PiecesCoverText'
    BY <1>5 DEF SumInv, PiecesCoverText, sumVars
  <2> QED BY <1>1, <1>5, <2>1 DEF SumInv, sumVars
<1> QED BY <1>2, <1>3, <1>4, <1>5, SumBeginsInv, CallSumInv, MergeRoundInv DEF SumNext

\* What is sent to the provider is all there is and fits the budget: the
\* pieces of every round hold, in order, every character of the text they
\* were cut from except newlines, whatever the texts, replies, budgets and
\* fixed parts of the prompt.
THEOREM PiecesCoverWholeText == SumSpec => [](SumTypeOK /\ PiecesCoverText)
<1>1. SumInv => SumTypeOK /\ PiecesCoverText
  <2> SUFFICES ASSUME SumInv PROVE SumTypeOK /\ PiecesCoverText
    OBVIOUS
  <2>1. /\ \A i \in DOMAIN source : source[i] \in {"c", "l", "n"}
        /\ \A k \in DOMAIN pieces : \A i \in DOMAIN pieces[k] : pieces[k][i] \in {"c", "l", "n"}
        /\ \A i \in DOMAIN replies : replies[i] \in Replies
    <3>1. source \in Seq(Chars) /\ pieces \in Seq(Seq(Chars)) /\ replies \in Seq(Replies)
      BY DEF SumInv
    <3>2. \A k \in DOMAIN pieces : pieces[k] \in Seq(Chars)
      BY <3>1
    <3> QED BY <3>1, <3>2 DEF Chars
  <2>2. index \in Nat /\ Range(slots) \subseteq {"chunk", "revision"} \X Nat
    BY DEF SumInv, RequestInv, Range
  <2> QED BY <2>1, <2>2 DEF SumInv, SumTypeOK
<1>2. SumInit => SumInv
  BY SummaryAssumption, SumInitInv
<1>3. SumInv /\ [SumNext]_sumVars => SumInv'
  BY SummaryAssumption, SumNextInv
<1> QED BY <1>1, <1>2, <1>3, PTL DEF SumSpec

-----------------------------------------------------------------------------
(* The order of the transcript.                                            *)

\* Anything with bounds.
Timed == [of : Nat, start : Nat, end : Nat, text : BOOLEAN]

InTime(s) == \A j, k \in 1 .. Len(s) : j < k => s[j].start <= s[k].start

\* An item is put between those that start no later and those that start no earlier.
LEMMA InsertedLemma ==
  ASSUME NEW s \in Seq(Timed), NEW x \in Timed, InTime(s)
  PROVE  /\ Inserted(s, x) \in Seq(Timed) /\ Len(Inserted(s, x)) = Len(s) + 1 /\ InTime(Inserted(s, x))
         /\ \E place \in 0 .. Len(s) : \A k \in 1 .. Len(s) + 1 :
              Inserted(s, x)[k] = IF k <= place THEN s[k] ELSE IF k = place + 1 THEN x ELSE s[k - 1]
<1> DEFINE n == Len(s)
           S == {k \in 0 .. n : k = 0 \/ ~Before(x, s[k])}
<1>1. n \in Nat /\ \A k \in 1 .. n : s[k] \in Timed
  OBVIOUS
<1>2. PICK place \in {Max(S)} : place \in S /\ \A y \in S : y <= place
  <2>1. S \in SUBSET (0 .. n) /\ 0 \in S
    BY <1>1
  <2> HIDE DEF S, n
  <2> QED BY <1>1, <2>1, MaxLemma
<1>3. place \in 0 .. n /\ (place = 0 \/ ~Before(x, s[place])) /\ \A k \in place + 1 .. n : Before(x, s[k])
  <2>1. \A k \in 1 .. n : k \in S \/ Before(x, s[k])
    OBVIOUS
  <2>2. place \in 0 .. n /\ (place = 0 \/ ~Before(x, s[place]))
    BY <1>2
  <2>3. \A k \in place + 1 .. n : k \in 1 .. n /\ ~(k <= place)
    <3> HIDE DEF n
    <3> QED BY <1>1, <2>2
  <2> HIDE DEF S, n
  <2> QED BY <1>2, <2>1, <2>2, <2>3
<1> DEFINE a == SubSeq(s, 1, place)
           b == SubSeq(s, place + 1, n)
           r == Append(a, x) \o b
<1>4. Inserted(s, x) = r
  <2>1. Max(S) = place
    BY <1>2
  <2> QED BY <2>1 DEF Inserted
<1> HIDE DEF S
<1>5. a \in Seq(Timed) /\ Len(a) = place /\ \A k \in 1 .. place : a[k] = s[k]
  <2>1. \A k \in 1 .. place : s[k] \in Timed
    BY <1>1, <1>3
  <2>2. 1 \in Int /\ place \in Int /\ place \in Nat
    BY <1>1, <1>3
  <2>3. /\ a \in Seq(Timed) /\ Len(a) = IF 1 <= place THEN place - 1 + 1 ELSE 0
        /\ \A k \in 1 .. place - 1 + 1 : a[k] = s[1 + k - 1]
    BY <2>1, <2>2, SubSeqProperties
  <2> HIDE DEF a
  <2> QED BY <2>2, <2>3
<1>6. b \in Seq(Timed) /\ Len(b) = n - place /\ \A k \in 1 .. n - place : b[k] = s[place + k]
  <2>1. \A k \in place + 1 .. n : s[k] \in Timed
    BY <1>1, <1>3
  <2>2. place + 1 \in Int /\ n \in Int /\ place \in Nat /\ place <= n
    BY <1>1, <1>3
  <2>3. /\ b \in Seq(Timed) /\ Len(b) = IF place + 1 <= n THEN n - (place + 1) + 1 ELSE 0
        /\ \A k \in 1 .. n - (place + 1) + 1 : b[k] = s[place + 1 + k - 1]
    BY <2>1, <2>2, SubSeqProperties
  <2> HIDE DEF b, n
  <2>4. \A k \in 1 .. n - place : k \in 1 .. n - (place + 1) + 1 /\ place + 1 + k - 1 = place + k
    BY <2>2
  <2>5. Len(b) = n - place
    <3>1. n \in Nat /\ place \in Nat /\ (place + 1 <= n \/ n = place)
      BY <1>1, <2>2
    <3> QED BY <2>3, <3>1
  <2>6. \A k \in 1 .. n - place : b[k] = s[place + k]
    BY <2>3, <2>4
  <2> QED BY <2>3, <2>5, <2>6
<1> HIDE DEF a, b, n
<1> DEFINE ax == Append(a, x)
<1>7. ax \in Seq(Timed) /\ Len(ax) = place + 1 /\ (\A k \in 1 .. place : ax[k] = s[k]) /\ ax[place + 1] = x
  BY <1>5, AppendProperties
<1> HIDE DEF ax
<1>8. /\ ax \o b \in Seq(Timed) /\ Len(ax \o b) = Len(ax) + Len(b)
      /\ \A k \in 1 .. Len(ax) + Len(b) : (ax \o b)[k] = IF k <= Len(ax) THEN ax[k] ELSE b[k - Len(ax)]
  BY <1>6, <1>7, ConcatProperties
<1>9. r \in Seq(Timed) /\ Len(r) = n + 1
  <2>1. r = ax \o b
    BY DEF ax
  <2>2. Len(ax) + Len(b) = n + 1
    BY <1>1, <1>3, <1>6, <1>7
  <2> QED BY <1>8, <2>1, <2>2
<1>10. ASSUME NEW k \in 1 .. n + 1
       PROVE  r[k] = IF k <= place THEN s[k] ELSE IF k = place + 1 THEN x ELSE s[k - 1]
  <2>1. r = ax \o b
    BY DEF ax
  <2>2. Len(ax) + Len(b) = n + 1 /\ place \in Nat /\ n \in Nat /\ k \in Nat
    BY <1>1, <1>3, <1>6, <1>7
  <2> HIDE DEF r
  <2>3. r[k] = IF k <= place + 1 THEN ax[k] ELSE b[k - (place + 1)]
    BY <1>7, <1>8, <2>1, <2>2
  <2>4. CASE k <= place
    BY <1>7, <2>2, <2>3, <2>4
  <2>5. CASE k = place + 1
    BY <1>7, <2>2, <2>3, <2>5
  <2>6. CASE k > place + 1
    <3>1. k - (place + 1) \in 1 .. n - place /\ place + (k - (place + 1)) = k - 1
      BY <2>2, <2>6
    <3>2. b[k - (place + 1)] = s[k - 1]
      BY <1>6, <3>1
    <3>3. ~(k <= place + 1) /\ ~(k <= place) /\ k # place + 1
      BY <2>2, <2>6
    <3> QED BY <2>3, <3>2, <3>3
  <2> QED BY <2>2, <2>4, <2>5, <2>6
<1> HIDE DEF r
<1>11. \A j, k \in 1 .. n : j < k => s[j].start <= s[k].start
  BY DEF InTime, n
<1>12. /\ x.start \in Nat /\ \A k \in 1 .. n : s[k].start \in Nat
  BY <1>1 DEF Timed
<1>13. \A k \in 1 .. place : s[k].start <= x.start
  <2> SUFFICES ASSUME NEW k \in 1 .. place PROVE s[k].start <= x.start
    OBVIOUS
  <2>1. place \in 1 .. n /\ k \in 1 .. n /\ (k = place \/ k < place) /\ place # 0
    BY <1>1, <1>3
  <2>2. ~(x.start < s[place].start)
    BY <1>3, <2>1 DEF Before
  <2>3. s[place].start <= x.start /\ s[k].start <= s[place].start
    BY <1>11, <1>12, <2>1, <2>2
  <2> QED BY <1>12, <2>1, <2>3
<1>14. \A k \in place + 1 .. n : x.start <= s[k].start
  <2> SUFFICES ASSUME NEW k \in place + 1 .. n PROVE x.start <= s[k].start
    OBVIOUS
  <2>1. k \in 1 .. n /\ Before(x, s[k])
    BY <1>1, <1>3
  <2> QED BY <1>12, <2>1 DEF Before
<1>15. ASSUME NEW j \in 1 .. n + 1, NEW k \in 1 .. n + 1, j < k PROVE r[j].start <= r[k].start
  <2>1. place \in Nat /\ n \in Nat /\ place <= n
    BY <1>1, <1>3
  <2>2. CASE k <= place
    <3>1. j \in 1 .. n /\ k \in 1 .. n /\ r[j] = s[j] /\ r[k] = s[k]
      BY <1>10, <1>15, <2>1, <2>2
    <3> QED BY <1>11, <1>15, <3>1
  <2>3. CASE k = place + 1
    <3>1. j \in 1 .. place /\ r[j] = s[j] /\ r[k] = x
      BY <1>10, <1>15, <2>1, <2>3
    <3> QED BY <1>13, <3>1
  <2>4. CASE k > place + 1
    <3>1. r[k] = s[k - 1] /\ k - 1 \in place + 1 .. n /\ k - 1 \in 1 .. n
      BY <1>10, <2>1, <2>4
    <3>2. CASE j <= place
      <4>1. r[j] = s[j] /\ j \in 1 .. n /\ j < k - 1
        BY <1>10, <2>1, <2>4, <3>2
      <4> QED BY <1>11, <3>1, <4>1
    <3>3. CASE j = place + 1
      <4>1. r[j] = x
        BY <1>10, <2>1, <3>3
      <4> QED BY <1>14, <3>1, <4>1
    <3>4. CASE j > place + 1
      <4>1. r[j] = s[j - 1] /\ j - 1 \in 1 .. n /\ j - 1 < k - 1
        BY <1>10, <1>15, <2>1, <3>4
      <4> QED BY <1>11, <3>1, <4>1
    <3> QED BY <2>1, <3>2, <3>3, <3>4
  <2> QED BY <2>1, <2>2, <2>3, <2>4
<1>16. InTime(r)
  BY <1>9, <1>15 DEF InTime
<1> QED BY <1>3, <1>4, <1>9, <1>10, <1>16 DEF n

LEMMA ChronologicalFunction ==
  ASSUME NEW s \in Seq(Timed)
  PROVE  \E f : /\ f[0] = <<>> /\ \A n \in 1 .. Len(s) : f[n] = Inserted(f[n - 1], s[n])
                /\ Chronological(s) = f[Len(s)]
<1> DEFINE After(a, n) == Inserted(a, s[n])
           Fcn(g, k) == g = [n \in 0 .. k |-> IF n = 0 THEN <<>> ELSE After(g[n - 1], n)]
           Good == {k \in Nat : \E g : Fcn(g, k)}
<1>1. 0 \in Good
  <2>1. Fcn([n \in 0 .. 0 |-> <<>>], 0)
    OBVIOUS
  <2> QED BY <2>1
<1>2. ASSUME NEW k \in Nat, k \in Good PROVE k + 1 \in Good
  <2> HIDE DEF After
  <2>1. PICK g : Fcn(g, k)
    BY <1>2
  <2> DEFINE h == [n \in 0 .. k + 1 |-> IF n = k + 1 THEN After(g[k], k + 1) ELSE g[n]]
  <2>2. ASSUME NEW n \in 0 .. k + 1
        PROVE  h[n] = IF n = 0 THEN <<>> ELSE After(h[n - 1], n)
    BY <2>1
  <2>3. Fcn(h, k + 1)
    BY <2>2
  <2> HIDE DEF h, Fcn
  <2> QED BY <2>3
<1>3. Len(s) \in Good
  <2>1. Len(s) \in Nat
    OBVIOUS
  <2> HIDE DEF Good
  <2> QED BY <1>1, <1>2, <2>1, SetInduction
<1>4. PICK f : Fcn(f, Len(s)) /\ f = CHOOSE g : Fcn(g, Len(s))
  <2> HIDE DEF Fcn
  <2> QED BY <1>3
<1>5. Chronological(s) = f[Len(s)]
  BY <1>4 DEF Chronological
<1>6. f[0] = <<>> /\ \A n \in 1 .. Len(s) : f[n] = After(f[n - 1], n)
  <2> HIDE DEF After
  <2> QED BY <1>4
<1> QED BY <1>5, <1>6

\* The first n entries of s, in the order p.
FirstOnes(p, r, s, n) ==
  /\ r \in Seq(Timed) /\ Len(r) = n
  /\ p \in [1 .. n -> 1 .. n]
  /\ \A k \in 1 .. n : r[k] = s[p[k]]
  /\ \A j, k \in 1 .. n : p[j] = p[k] => j = k
  /\ \A k \in 1 .. n : \E j \in 1 .. n : p[j] = k

LEMMA PermutationGrows ==
  ASSUME NEW s \in Seq(Timed), NEW n \in Nat, n + 1 <= Len(s), NEW p, NEW r, FirstOnes(p, r, s, n),
         NEW place \in 0 .. n, NEW q \in Seq(Timed), Len(q) = n + 1,
         \A k \in 1 .. n + 1 : q[k] = IF k <= place THEN r[k] ELSE IF k = place + 1 THEN s[n + 1] ELSE r[k - 1]
  PROVE  \E o : FirstOnes(o, q, s, n + 1)
<1> DEFINE o == [k \in 1 .. n + 1 |-> IF k <= place THEN p[k] ELSE IF k = place + 1 THEN n + 1 ELSE p[k - 1]]
<1>1. /\ p \in [1 .. n -> 1 .. n]
      /\ \A k \in 1 .. n : r[k] = s[p[k]]
      /\ \A j, k \in 1 .. n : p[j] = p[k] => j = k
      /\ \A k \in 1 .. n : \E j \in 1 .. n : p[j] = k
  BY DEF FirstOnes
<1>2. \A k \in 1 .. n : p[k] \in 1 .. n
  BY <1>1
<1>3. \A k \in 1 .. n + 1 : o[k] = IF k <= place THEN p[k] ELSE IF k = place + 1 THEN n + 1 ELSE p[k - 1]
  OBVIOUS
<1>4. \A k \in 1 .. n + 1 : (k <= place => k \in 1 .. n) /\ (~(k <= place) /\ k # place + 1 => k - 1 \in 1 .. n)
  OBVIOUS
<1>5. o \in [1 .. n + 1 -> 1 .. n + 1]
  <2>1. \A k \in 1 .. n + 1 : o[k] \in 1 .. n + 1
    <3> HIDE DEF o
    <3> SUFFICES ASSUME NEW k \in 1 .. n + 1 PROVE o[k] \in 1 .. n + 1
      OBVIOUS
    <3>1. CASE k <= place
      <4>1. k \in 1 .. n /\ o[k] = p[k]
        BY <1>3, <1>4, <3>1
      <4> QED BY <1>2, <4>1
    <3>2. CASE k = place + 1
      <4>1. o[k] = n + 1
        BY <1>3, <3>2
      <4> QED BY <4>1
    <3>3. CASE ~(k <= place) /\ k # place + 1
      <4>1. k - 1 \in 1 .. n /\ o[k] = p[k - 1]
        BY <1>3, <1>4, <3>3
      <4>2. p[k - 1] \in 1 .. n
        BY <1>2, <4>1
      <4> QED BY <4>1, <4>2
    <3> QED BY <3>1, <3>2, <3>3
  <2> QED BY <2>1
<1> HIDE DEF o
<1>6. \A k \in 1 .. n + 1 : q[k] = s[o[k]]
  <2> SUFFICES ASSUME NEW k \in 1 .. n + 1 PROVE q[k] = s[o[k]]
    OBVIOUS
  <2>1. CASE k <= place
    <3>1. k \in 1 .. n /\ o[k] = p[k] /\ q[k] = r[k]
      BY <1>3, <1>4, <2>1
    <3> QED BY <1>1, <3>1
  <2>2. CASE k = place + 1
    <3>1. ~(k <= place)
      BY <2>2
    <3> QED BY <1>3, <2>2, <3>1
  <2>3. CASE ~(k <= place) /\ k # place + 1
    <3>1. k - 1 \in 1 .. n /\ o[k] = p[k - 1] /\ q[k] = r[k - 1]
      BY <1>3, <1>4, <2>3
    <3> QED BY <1>1, <3>1
  <2> QED BY <2>1, <2>2, <2>3
<1>7. ASSUME NEW j \in 1 .. n + 1, NEW k \in 1 .. n + 1, o[j] = o[k] PROVE j = k
  <2>1. \A i \in 1 .. n + 1 : o[i] = n + 1 <=> i = place + 1
    BY <1>2, <1>3, <1>4
  <2>2. CASE j = place + 1 \/ k = place + 1
    BY <1>7, <2>1, <2>2
  <2>3. CASE j # place + 1 /\ k # place + 1
    <3> DEFINE jj == IF j <= place THEN j ELSE j - 1
               kk == IF k <= place THEN k ELSE k - 1
    <3>1. jj \in 1 .. n /\ kk \in 1 .. n /\ o[j] = p[jj] /\ o[k] = p[kk]
      BY <1>3, <1>4, <2>3
    <3>2. jj = kk
      <4> HIDE DEF jj, kk
      <4>1. p[jj] = p[kk]
        BY <1>7, <3>1
      <4> QED BY <1>1, <3>1, <4>1
    <3> QED BY <2>3, <3>2
  <2> QED BY <2>2, <2>3
<1>8. ASSUME NEW k \in 1 .. n + 1 PROVE \E j \in 1 .. n + 1 : o[j] = k
  <2>1. CASE k = n + 1
    <3>1. place + 1 \in 1 .. n + 1 /\ ~(place + 1 <= place)
      OBVIOUS
    <3> QED BY <1>3, <2>1, <3>1
  <2>2. CASE k # n + 1
    <3>1. PICK i \in 1 .. n : p[i] = k
      <4>1. k \in 1 .. n
        BY <2>2
      <4> QED BY <1>1, <4>1
    <3>2. CASE i <= place
      <4>1. i \in 1 .. n + 1 /\ o[i] = k
        BY <1>3, <3>1, <3>2
      <4> QED BY <4>1
    <3>3. CASE ~(i <= place)
      <4>1. i + 1 \in 1 .. n + 1 /\ ~(i + 1 <= place) /\ i + 1 # place + 1 /\ (i + 1) - 1 = i
        BY <3>3
      <4>2. o[i + 1] = k
        BY <1>3, <3>1, <4>1
      <4> QED BY <4>1, <4>2
    <3> QED BY <3>2, <3>3
  <2> QED BY <2>1, <2>2
<1>9. FirstOnes(o, q, s, n + 1)
  BY <1>5, <1>6, <1>7, <1>8 DEF FirstOnes
<1> QED BY <1>9

\* sort() keeps every item and puts them in order.
LEMMA ChronologicalLemma ==
  ASSUME NEW s \in Seq(Timed)
  PROVE  InTime(Chronological(s)) /\ \E p : FirstOnes(p, Chronological(s), s, Len(s))
<1> DEFINE N == Len(s)
<1>1. N \in Nat /\ \A n \in 1 .. N : s[n] \in Timed
  OBVIOUS
<1>2. PICK f : /\ f[0] = <<>> /\ \A n \in 1 .. N : f[n] = Inserted(f[n - 1], s[n])
               /\ Chronological(s) = f[N]
  BY ChronologicalFunction
<1> HIDE DEF N
<1> DEFINE Done(n) == InTime(f[n]) /\ \E p : FirstOnes(p, f[n], s, n)
           Good == {n \in Nat : n <= N => Done(n)}
<1>3. Done(0)
  <2>1. <<>> \in Seq(Timed) /\ Len(<<>>) = 0 /\ \A k \in 1 .. 0 : FALSE
    OBVIOUS
  <2>2. InTime(<<>>)
    BY <2>1 DEF InTime
  <2>3. [k \in 1 .. 0 |-> k] \in [1 .. 0 -> 1 .. 0]
    OBVIOUS
  <2>4. FirstOnes([k \in 1 .. 0 |-> k], <<>>, s, 0)
    BY <2>1, <2>3 DEF FirstOnes
  <2> QED BY <1>2, <2>2, <2>4
<1>4. ASSUME NEW n \in Nat, n + 1 <= N, Done(n) PROVE Done(n + 1)
  <2>1. PICK p : FirstOnes(p, f[n], s, n)
    BY <1>4
  <2>2. f[n] \in Seq(Timed) /\ Len(f[n]) = n /\ InTime(f[n])
    BY <1>4, <2>1 DEF FirstOnes
  <2>3. n + 1 \in 1 .. N /\ (n + 1) - 1 = n
    BY <1>1, <1>4
  <2>4. f[n + 1] = Inserted(f[n], s[n + 1]) /\ s[n + 1] \in Timed
    BY <1>1, <1>2, <2>3
  <2>5. /\ f[n + 1] \in Seq(Timed) /\ Len(f[n + 1]) = n + 1 /\ InTime(f[n + 1])
        /\ \E place \in 0 .. n : \A k \in 1 .. n + 1 :
             f[n + 1][k] = IF k <= place THEN f[n][k] ELSE IF k = place + 1 THEN s[n + 1] ELSE f[n][k - 1]
    <3> DEFINE a == f[n]
               x == s[n + 1]
    <3>1. a \in Seq(Timed) /\ x \in Timed /\ InTime(a) /\ Len(a) = n
      BY <2>2, <2>4
    <3>2. f[n + 1] = Inserted(a, x)
      BY <2>4
    <3> HIDE DEF a, x
    <3>3. /\ Inserted(a, x) \in Seq(Timed) /\ Len(Inserted(a, x)) = Len(a) + 1 /\ InTime(Inserted(a, x))
          /\ \E place \in 0 .. Len(a) : \A k \in 1 .. Len(a) + 1 :
               Inserted(a, x)[k] = IF k <= place THEN a[k] ELSE IF k = place + 1 THEN x ELSE a[k - 1]
      BY <3>1, InsertedLemma
    <3> DEFINE c == Inserted(a, x)
    <3>4. /\ c \in Seq(Timed) /\ Len(c) = n + 1 /\ InTime(c)
          /\ \E place \in 0 .. n : \A k \in 1 .. n + 1 :
               c[k] = IF k <= place THEN a[k] ELSE IF k = place + 1 THEN x ELSE a[k - 1]
      <4> HIDE DEF c
      <4>1. /\ c \in Seq(Timed) /\ Len(c) = Len(a) + 1 /\ InTime(c)
            /\ \E place \in 0 .. Len(a) : \A k \in 1 .. Len(a) + 1 :
                 c[k] = IF k <= place THEN a[k] ELSE IF k = place + 1 THEN x ELSE a[k - 1]
        BY <3>3 DEF c
      <4>2. Len(a) = n
        BY <3>1
      <4> QED BY <4>1, <4>2
    <3>5. f[n + 1] = c
      BY <3>2
    <3> HIDE DEF c
    <3> QED BY <3>4, <3>5 DEF a, x
  <2>6. n + 1 <= Len(s)
    BY <1>4 DEF N
  <2>7. \E o : FirstOnes(o, f[n + 1], s, n + 1)
    <3>1. PICK place \in 0 .. n : \A k \in 1 .. n + 1 :
             f[n + 1][k] = IF k <= place THEN f[n][k] ELSE IF k = place + 1 THEN s[n + 1] ELSE f[n][k - 1]
      BY <2>5
    <3> DEFINE a == f[n]
               b == f[n + 1]
    <3>2. /\ FirstOnes(p, a, s, n) /\ b \in Seq(Timed) /\ Len(b) = n + 1
          /\ \A k \in 1 .. n + 1 : b[k] = IF k <= place THEN a[k] ELSE IF k = place + 1 THEN s[n + 1] ELSE a[k - 1]
      BY <2>1, <2>5, <3>1
    <3> HIDE DEF a, b
    <3>3. \E o : FirstOnes(o, b, s, n + 1)
      BY <2>6, <3>2, PermutationGrows
    <3> QED BY <3>3 DEF b
  <2> QED BY <2>5, <2>7
<1>5. Done(N)
  <2> HIDE DEF Done
  <2>1. 0 \in Good
    BY <1>3
  <2>2. ASSUME NEW n \in Nat, n \in Good PROVE n + 1 \in Good
    <3>1. n + 1 \in Nat /\ (n + 1 <= N => n <= N)
      BY <1>1
    <3> QED BY <1>4, <2>2, <3>1
  <2>3. N \in Good
    <3> HIDE DEF Good
    <3> QED BY <1>1, <2>1, <2>2, SetInduction
  <2> QED BY <1>1, <2>3
<1> QED BY <1>2, <1>5 DEF N

-----------------------------------------------------------------------------
(* The transcript of a chunk.                                              *)

LEMMA OneEntry == ASSUME NEW S, NEW x \in S PROVE <<x>> \in Seq(S)
OBVIOUS

\* Items of the segments before m, and what the model says of segment i.
Items(m) == [of : 1 .. m - 1, start : 0 .. total, end : 0 .. total, text : BOOLEAN]

Spoken(i) ==
  {x \in [of : {i}, start : 0 .. total, end : 0 .. total, text : {TRUE}] :
     plan[i].start <= x.start /\ x.end <= plan[i].end}

LEMMA SegmentType ==
  ASSUME PlanInv, NEW i \in 1 .. Len(plan)
  PROVE  /\ total \in Nat /\ plan[i].start \in 0 .. total /\ plan[i].end \in 0 .. total
         /\ plan[i].start < plan[i].end
<1>1. plan[i] \in Spans(total) /\ total \in Nat
  BY DEF PlanInv
<1> QED BY <1>1, SMTT(30) DEF Spans, Bounds

LEMMA AnswersType ==
  ASSUME PlanInv, NEW i \in 1 .. Len(plan), NEW answer \in Answers(i)
  PROVE  answer.pieces \in Seq([start : Nat, end : Nat]) /\ answer.text \in BOOLEAN /\ (~answer.text => answer.pieces = <<>>)
<1> DEFINE from == IF plan[i].start < Padding THEN 0 ELSE plan[i].start - Padding
           to == Lesser(plan[i].end + Padding, total)
           mid == plan[i].start + 1
           P == [start : Nat, end : Nat]
<1>1. Padding \in Nat
  BY JobAssumption
<1>2. from \in Nat /\ to \in Nat /\ mid \in Nat /\ plan[i].start \in Nat
  BY <1>1, SegmentType, SMTT(30) DEF Lesser
<1>3. /\ answer.text \in BOOLEAN /\ (~answer.text => answer.pieces = <<>>)
      /\ \/ answer.pieces = <<>> \/ answer.pieces = <<[start |-> from, end |-> plan[i].start]>>
         \/ answer.pieces = <<[start |-> from, end |-> mid], [start |-> mid, end |-> to]>>
  <2> DEFINE Said(p) == [text |-> TRUE, pieces |-> p]
  <2>1. \/ answer = [text |-> FALSE, pieces |-> <<>>] \/ answer = Said(<<>>)
        \/ answer = Said(<<[start |-> from, end |-> plan[i].start]>>)
        \/ answer = Said(<<[start |-> from, end |-> mid], [start |-> mid, end |-> to]>>)
    BY DEF Answers
  <2>2. (\A p : Said(p).text = TRUE /\ Said(p).pieces = p)
    OBVIOUS
  <2>3. [text |-> FALSE, pieces |-> <<>>].text = FALSE /\ [text |-> FALSE, pieces |-> <<>>].pieces = <<>>
    OBVIOUS
  <2> HIDE DEF from, to, mid, Said
  <2> QED BY <2>1, <2>2, <2>3
<1> HIDE DEF from, to, mid
<1>4. /\ [start |-> from, end |-> plan[i].start] \in P /\ [start |-> from, end |-> mid] \in P
      /\ [start |-> mid, end |-> to] \in P
  BY <1>2
<1> HIDE DEF P
<1>5. <<>> \in Seq(P) /\ (\A a \in P : <<a>> \in Seq(P)) /\ (\A a, b \in P : <<a, b>> \in Seq(P))
  OBVIOUS
<1>6. answer.pieces \in Seq(P)
  BY <1>3, <1>4, <1>5
<1> QED BY <1>3, <1>6 DEF P

\* A piece of the model's output, clipped to its segment.
LEMMA WithinLemma ==
  ASSUME PlanInv, NEW i \in 1 .. Len(plan), NEW p \in [start : Nat, end : Nat]
  PROVE  LET from == Greater(plan[i].start, p.start)
             x == Item(i, from, Lesser(Greater(p.end, from), plan[i].end), TRUE) IN
         NonEmpty(x) => x \in Spoken(i)
<1> DEFINE from == Greater(plan[i].start, p.start)
           to == Lesser(Greater(p.end, from), plan[i].end)
           x == Item(i, from, to, TRUE)
<1>1. /\ total \in Nat /\ plan[i].start \in 0 .. total /\ plan[i].end \in 0 .. total
      /\ p.start \in Nat /\ p.end \in Nat
  BY SegmentType
<1>2. from \in Nat /\ plan[i].start <= from
  BY <1>1 DEF Greater
<1> HIDE DEF from
<1>3. to \in Nat /\ to <= plan[i].end
  BY <1>1, <1>2 DEF Greater, Lesser
<1> HIDE DEF to
<1>4. x.of = i /\ x.start = from /\ x.end = to /\ x.text = TRUE /\ x = [of |-> i, start |-> from, end |-> to, text |-> TRUE]
  BY DEF Item
<1> HIDE DEF x
<1>5. NonEmpty(x) => from < to
  BY <1>4 DEF NonEmpty
<1>6. ASSUME from < to PROVE x \in Spoken(i)
  <2>1. from \in 0 .. total /\ to \in 0 .. total
    BY <1>1, <1>2, <1>3, <1>6
  <2>2. x \in [of : {i}, start : 0 .. total, end : 0 .. total, text : {TRUE}]
    BY <1>4, <2>1
  <2> QED BY <1>2, <1>3, <1>4, <2>2 DEF Spoken
<1>7. NonEmpty(x) => x \in Spoken(i)
  BY <1>5, <1>6
<1> QED BY <1>7 DEF x, to, from

LEMMA ExpandedType ==
  ASSUME PlanInv, NEW i \in 1 .. Len(plan), NEW parts \in Seq([start : Nat, end : Nat])
  PROVE  Expanded(i, parts) \in Seq(Spoken(i)) /\ (parts = <<>> => Expanded(i, parts) = <<>>)
<1> DEFINE Within(p) ==
             LET from == Greater(plan[i].start, p.start) IN
             Item(i, from, Lesser(Greater(p.end, from), plan[i].end), TRUE)
           After(a, n) == IF NonEmpty(Within(parts[n])) THEN Append(a, Within(parts[n])) ELSE a
           Fcn(g, k) == g = [n \in 0 .. k |-> IF n = 0 THEN <<>> ELSE After(g[n - 1], n)]
           Good == {k \in Nat : \E g : Fcn(g, k)}
<1>1. 0 \in Good
  <2>1. Fcn([n \in 0 .. 0 |-> <<>>], 0)
    OBVIOUS
  <2> QED BY <2>1
<1>2. ASSUME NEW k \in Nat, k \in Good PROVE k + 1 \in Good
  <2> HIDE DEF After
  <2>1. PICK g : Fcn(g, k)
    BY <1>2
  <2> DEFINE h == [n \in 0 .. k + 1 |-> IF n = k + 1 THEN After(g[k], k + 1) ELSE g[n]]
  <2>2. ASSUME NEW n \in 0 .. k + 1
        PROVE  h[n] = IF n = 0 THEN <<>> ELSE After(h[n - 1], n)
    BY <2>1
  <2>3. Fcn(h, k + 1)
    BY <2>2
  <2> HIDE DEF h, Fcn
  <2> QED BY <2>3
<1>3. Len(parts) \in Good
  <2>1. Len(parts) \in Nat
    OBVIOUS
  <2> HIDE DEF Good
  <2> QED BY <1>1, <1>2, <2>1, SetInduction
<1>4. PICK f : Fcn(f, Len(parts)) /\ f = CHOOSE g : Fcn(g, Len(parts))
  <2> HIDE DEF Fcn
  <2> QED BY <1>3
<1>5. Expanded(i, parts) = f[Len(parts)]
  BY <1>4 DEF Expanded
<1>6. f[0] = <<>> /\ \A n \in 1 .. Len(parts) : f[n] = After(f[n - 1], n)
  <2>0. Len(parts) \in Nat
    OBVIOUS
  <2> HIDE DEF After
  <2>1. f[0] = <<>>
    BY <1>4, <2>0
  <2>2. ASSUME NEW n \in 1 .. Len(parts) PROVE f[n] = After(f[n - 1], n)
    <3>1. n \in 0 .. Len(parts) /\ n # 0
      BY <2>0
    <3> QED BY <1>4, <3>1
  <2> QED BY <2>1, <2>2
<1>7. \A n \in 1 .. Len(parts) : NonEmpty(Within(parts[n])) => Within(parts[n]) \in Spoken(i)
  <2>1. \A n \in 1 .. Len(parts) : parts[n] \in [start : Nat, end : Nat]
    BY ElementOfSeq
  <2> QED BY <2>1, WithinLemma
<1> HIDE DEF Within
<1>8. ASSUME NEW a \in Seq(Spoken(i)), NEW n \in 1 .. Len(parts) PROVE After(a, n) \in Seq(Spoken(i))
  BY <1>7
<1> HIDE DEF After
<1> DEFINE Typed == {n \in Nat : n <= Len(parts) => f[n] \in Seq(Spoken(i))}
<1>9. 0 \in Typed
  <2>1. <<>> \in Seq(Spoken(i))
    BY EmptySeq
  <2> QED BY <1>6, <2>1
<1>10. ASSUME NEW n \in Nat, n \in Typed PROVE n + 1 \in Typed
  <2> SUFFICES ASSUME n + 1 <= Len(parts) PROVE f[n + 1] \in Seq(Spoken(i))
    OBVIOUS
  <2>1. n + 1 \in 1 .. Len(parts) /\ (n + 1) - 1 = n /\ f[n] \in Seq(Spoken(i))
    BY <1>10
  <2> QED BY <1>6, <1>8, <2>1
<1>11. Len(parts) \in Typed
  <2>1. Len(parts) \in Nat
    OBVIOUS
  <2> HIDE DEF Typed
  <2> QED BY <1>9, <1>10, <2>1, SetInduction
<1>12. ASSUME parts = <<>> PROVE Expanded(i, parts) = <<>>
  <2>1. Len(parts) = 0
    BY <1>12
  <2> QED BY <1>5, <1>6, <2>1
<1> QED BY <1>5, <1>11, <1>12

\* A transcription with a text gives items with text inside the bounds of its
\* segment; one without gives what a placeholder is.
LEMMA TranscribedLemma ==
  ASSUME PlanInv, NEW i \in 1 .. Len(plan), NEW answer \in Answers(i)
  PROVE  IF answer.text THEN Transcribed(i, answer) \in Seq(Spoken(i)) /\ Transcribed(i, answer) # <<>>
         ELSE Transcribed(i, answer) = Placeholder(i)
<1> DEFINE whole == Item(i, plan[i].start, plan[i].end, TRUE)
           spoken == Expanded(i, answer.pieces)
<1>1. spoken \in Seq(Spoken(i)) /\ (~answer.text => spoken = <<>>) /\ answer.text \in BOOLEAN
  <2>1. answer.pieces \in Seq([start : Nat, end : Nat]) /\ answer.text \in BOOLEAN /\ (~answer.text => answer.pieces = <<>>)
    BY AnswersType
  <2> QED BY <2>1, ExpandedType
<1>2. CASE answer.text
  <2>1. whole \in Spoken(i)
    BY SegmentType DEF Item, Spoken
  <2>2. answer.text = TRUE
    BY <1>1, <1>2
  <2>3. Transcribed(i, answer) = IF spoken = <<>> THEN <<whole>> ELSE spoken
    BY <2>2 DEF Transcribed
  <2> HIDE DEF whole, spoken
  <2>4. <<whole>> \in Seq(Spoken(i)) /\ <<whole>> # <<>>
    BY <2>1, OneEntry
  <2> QED BY <1>1, <1>2, <2>3, <2>4
<1>3. CASE ~answer.text
  <2>1. answer.text = FALSE
    BY <1>1, <1>3
  <2> QED BY <1>1, <1>3, <2>1 DEF Transcribed, Placeholder
<1> QED BY <1>2, <1>3

\* A segment has text in its bounds and no warning, an empty text and no
\* warning when it is one of the quiet ones, or a placeholder and a warning.
HasText(out, warn, i) ==
  /\ \E k \in DOMAIN out : out[k].of = i
  /\ \A k \in DOMAIN out :
       out[k].of = i => out[k].text = TRUE /\ plan[i].start <= out[k].start /\ out[k].end <= plan[i].end
  /\ \A k \in DOMAIN warn : warn[k] # i

HasEmpty(out, i) ==
  \E k \in DOMAIN out : /\ out[k] = Item(i, plan[i].start, plan[i].end, FALSE) /\ out[k].of = i
                        /\ \A l \in DOMAIN out : out[l].of = i => l = k

HasSilence(out, warn, i) == HasEmpty(out, i) /\ \A k \in DOMAIN warn : warn[k] # i

HasPlaceholder(out, warn, i) ==
  HasEmpty(out, i) /\ \E k \in DOMAIN warn : warn[k] = i /\ \A l \in DOMAIN warn : warn[l] = i => l = k

Entered(out, warn, quiet, i) ==
  IF i \in quiet THEN HasSilence(out, warn, i) ELSE HasText(out, warn, i) \/ HasPlaceholder(out, warn, i)

Recorded(out, warn, quiet, m) ==
  /\ out \in Seq(Items(m)) /\ warn \in Seq(1 .. m - 1)
  /\ \A i \in 1 .. m - 1 : Entered(out, warn, quiet, i)

\* What is appended is of segment m alone, and says nothing of the others.
Grown(out, more, warn, warned, m) ==
  /\ DOMAIN out \subseteq DOMAIN more /\ DOMAIN warn \subseteq DOMAIN warned
  /\ \A k \in DOMAIN more : IF k \in DOMAIN out THEN more[k] = out[k] ELSE more[k].of = m
  /\ \A k \in DOMAIN warned : IF k \in DOMAIN warn THEN warned[k] = warn[k] ELSE warned[k] = m

LEMMA RecordKept ==
  ASSUME NEW out, NEW more, NEW warn, NEW warned, NEW quiet, NEW m, NEW i, i # m,
         Grown(out, more, warn, warned, m), Entered(out, warn, quiet, i)
  PROVE  Entered(more, warned, quiet, i)
<1>0. /\ DOMAIN out \subseteq DOMAIN more /\ DOMAIN warn \subseteq DOMAIN warned
      /\ \A k \in DOMAIN more : IF k \in DOMAIN out THEN more[k] = out[k] ELSE more[k].of = m
      /\ \A k \in DOMAIN warned : IF k \in DOMAIN warn THEN warned[k] = warn[k] ELSE warned[k] = m
  BY DEF Grown
<1>1. HasText(out, warn, i) => HasText(more, warned, i)
  <2> SUFFICES ASSUME HasText(out, warn, i) PROVE HasText(more, warned, i)
    OBVIOUS
  <2>1. \E k \in DOMAIN more : more[k].of = i
    BY <1>0 DEF HasText
  <2>2. ASSUME NEW k \in DOMAIN more, more[k].of = i
        PROVE  more[k].text = TRUE /\ plan[i].start <= more[k].start /\ more[k].end <= plan[i].end
    BY <1>0, <2>2 DEF HasText
  <2>3. \A k \in DOMAIN warned : warned[k] # i
    BY <1>0 DEF HasText
  <2> QED BY <2>1, <2>2, <2>3 DEF HasText
<1>2. HasEmpty(out, i) => HasEmpty(more, i)
  <2> SUFFICES ASSUME HasEmpty(out, i) PROVE HasEmpty(more, i)
    OBVIOUS
  <2>1. PICK k \in DOMAIN out : /\ out[k] = Item(i, plan[i].start, plan[i].end, FALSE) /\ out[k].of = i
                                /\ \A l \in DOMAIN out : out[l].of = i => l = k
    BY DEF HasEmpty
  <2>2. k \in DOMAIN more /\ more[k] = out[k]
    BY <1>0
  <2>3. \A l \in DOMAIN more : more[l].of = i => l = k
    BY <1>0, <2>1
  <2> QED BY <2>1, <2>2, <2>3 DEF HasEmpty
<1>3. HasSilence(out, warn, i) => HasSilence(more, warned, i)
  BY <1>0, <1>2 DEF HasSilence
<1>4. HasPlaceholder(out, warn, i) => HasPlaceholder(more, warned, i)
  <2> SUFFICES ASSUME HasPlaceholder(out, warn, i) PROVE HasPlaceholder(more, warned, i)
    OBVIOUS
  <2>1. PICK w \in DOMAIN warn : warn[w] = i /\ \A l \in DOMAIN warn : warn[l] = i => l = w
    BY DEF HasPlaceholder
  <2>2. w \in DOMAIN warned /\ warned[w] = i /\ \A l \in DOMAIN warned : warned[l] = i => l = w
    BY <1>0, <2>1
  <2> QED BY <1>2, <2>2 DEF HasPlaceholder
<1> QED BY <1>1, <1>3, <1>4 DEF Entered

LEMMA ItemsGrow == ASSUME NEW m \in Nat, NEW s \in Seq(Items(m)) PROVE s \in Seq(Items(m + 1))
<1>1. \A x \in Items(m) : x \in Items(m + 1)
  <2>1. 1 .. m - 1 \subseteq 1 .. (m + 1) - 1
    OBVIOUS
  <2> QED BY <2>1 DEF Items
<1>2. Items(m) \subseteq Items(m + 1)
  BY <1>1
<1> QED BY <1>2

\* The loop records the text of one segment more, ...
LEMMA RecordText ==
  ASSUME PlanInv, NEW m \in 1 .. Len(plan), NEW out, NEW warn, NEW quiet, Recorded(out, warn, quiet, m),
         NEW t \in Seq(Spoken(m)), t # <<>>, m \notin quiet
  PROVE  Recorded(out \o t, warn, quiet, m + 1)
<1> DEFINE more == out \o t
<1>1. out \in Seq(Items(m)) /\ warn \in Seq(1 .. m - 1) /\ m \in Nat /\ Len(t) \in Nat \ {0}
  BY DEF Recorded
<1>2. out \in Seq(Items(m + 1)) /\ warn \in Seq(1 .. (m + 1) - 1)
  <2>1. 1 .. m - 1 \subseteq 1 .. (m + 1) - 1
    BY <1>1
  <2>2. warn \in Seq(1 .. (m + 1) - 1)
    BY <1>1, <2>1
  <2> QED BY <1>1, <2>2, ItemsGrow
<1>3. t \in Seq(Items(m + 1))
  <2>1. Spoken(m) \subseteq Items(m + 1)
    <3>1. m \in 1 .. (m + 1) - 1
      BY <1>1
    <3> QED BY <3>1 DEF Spoken, Items
  <2> QED BY <2>1
<1>4. /\ more \in Seq(Items(m + 1)) /\ DOMAIN more = 1 .. Len(out) + Len(t) /\ DOMAIN out = 1 .. Len(out)
      /\ \A k \in 1 .. Len(out) + Len(t) : more[k] = IF k <= Len(out) THEN out[k] ELSE t[k - Len(out)]
  <2>1. /\ more \in Seq(Items(m + 1)) /\ Len(more) = Len(out) + Len(t)
        /\ \A k \in 1 .. Len(out) + Len(t) : more[k] = IF k <= Len(out) THEN out[k] ELSE t[k - Len(out)]
    BY <1>2, <1>3, ConcatProperties
  <2> HIDE DEF more
  <2> QED BY <1>1, <2>1
<1> HIDE DEF more
<1>5. \A k \in 1 .. Len(t) : t[k] \in Spoken(m)
  OBVIOUS
<1>6. Len(out) \in Nat
  BY <1>1
<1>7. ASSUME NEW k \in DOMAIN more, k \notin DOMAIN out
      PROVE  /\ more[k].of = m /\ more[k].text = TRUE
             /\ plan[m].start <= more[k].start /\ more[k].end <= plan[m].end
  <2>1. k - Len(out) \in 1 .. Len(t) /\ ~(k <= Len(out)) /\ k \in 1 .. Len(out) + Len(t)
    BY <1>1, <1>4, <1>6, <1>7
  <2>2. more[k] = t[k - Len(out)]
    BY <1>4, <2>1
  <2>3. more[k] \in Spoken(m)
    BY <1>5, <2>1, <2>2
  <2> QED BY <2>3 DEF Spoken
<1>8. DOMAIN out \subseteq DOMAIN more /\ \A k \in DOMAIN out : more[k] = out[k]
  BY <1>1, <1>4, <1>6
<1>9. (\A k \in DOMAIN out : out[k].of # m) /\ \A k \in DOMAIN warn : warn[k] # m
  <2>1. \A k \in DOMAIN out : out[k] \in Items(m)
    BY <1>1
  <2>2. \A k \in DOMAIN warn : warn[k] \in 1 .. m - 1
    BY <1>1
  <2>3. m \notin 1 .. m - 1
    BY <1>1
  <2> QED BY <2>1, <2>2, <2>3 DEF Items
<1>10. HasText(more, warn, m)
  <2>1. Len(out) + 1 \in DOMAIN more /\ Len(out) + 1 \notin DOMAIN out
    BY <1>1, <1>4, <1>6
  <2>2. \E k \in DOMAIN more : more[k].of = m
    BY <1>7, <2>1
  <2>3. \A k \in DOMAIN more : more[k].of = m => k \notin DOMAIN out
    BY <1>8, <1>9
  <2> QED BY <1>7, <1>9, <2>2, <2>3 DEF HasText
<1>11. ASSUME NEW i \in 1 .. (m + 1) - 1 PROVE Entered(more, warn, quiet, i)
  <2>1. CASE i = m
    BY <1>10, <2>1 DEF Entered
  <2>2. CASE i # m
    <3>1. i \in 1 .. m - 1
      BY <1>1, <2>2
    <3>2. Entered(out, warn, quiet, i)
      BY <3>1 DEF Recorded
    <3>3. \A k \in DOMAIN more : IF k \in DOMAIN out THEN more[k] = out[k] ELSE more[k].of = m
      BY <1>7, <1>8
    <3>4. \A k \in DOMAIN warn : IF k \in DOMAIN warn THEN warn[k] = warn[k] ELSE warn[k] = m
      OBVIOUS
    <3>5. Grown(out, more, warn, warn, m)
      BY <1>8, <3>3, <3>4 DEF Grown
    <3> QED BY <2>2, <3>2, <3>5, RecordKept
  <2> QED BY <2>1, <2>2
<1> QED BY <1>2, <1>4, <1>11 DEF Recorded, more

\* ... or an empty text: of a quiet segment, or as a placeholder with a warning.
LEMMA RecordEmpty ==
  ASSUME PlanInv, NEW m \in 1 .. Len(plan), NEW out, NEW warn, NEW quiet, Recorded(out, warn, quiet, m),
         NEW warned, warned = IF m \in quiet THEN warn ELSE Append(warn, m)
  PROVE  Recorded(out \o Placeholder(m), warned, quiet, m + 1)
<1> DEFINE x == Item(m, plan[m].start, plan[m].end, FALSE)
           more == Append(out, x)
<1>1. out \in Seq(Items(m)) /\ warn \in Seq(1 .. m - 1) /\ m \in Nat
  BY DEF Recorded
<1>2. out \in Seq(Items(m + 1)) /\ warn \in Seq(1 .. (m + 1) - 1) /\ m \in 1 .. (m + 1) - 1
  <2>1. 1 .. m - 1 \subseteq 1 .. (m + 1) - 1 /\ m \in 1 .. (m + 1) - 1
    BY <1>1
  <2>2. warn \in Seq(1 .. (m + 1) - 1)
    BY <1>1, <2>1
  <2> QED BY <1>1, <2>1, <2>2, ItemsGrow
<1>3. x \in Items(m + 1) /\ x.of = m
  <2>1. x = [of |-> m, start |-> plan[m].start, end |-> plan[m].end, text |-> FALSE]
    BY DEF Item
  <2>2. plan[m].start \in 0 .. total /\ plan[m].end \in 0 .. total
    BY SegmentType
  <2> HIDE DEF x
  <2> QED BY <1>2, <2>1, <2>2 DEF Items
<1>4. out \o Placeholder(m) = more
  <2>1. Placeholder(m) = <<x>>
    BY DEF Placeholder
  <2> HIDE DEF x
  <2>2. \A s \in Seq(Items(m + 1)) : \A y \in Items(m + 1) : s \o <<y>> = Append(s, y)
    OBVIOUS
  <2> QED BY <1>2, <1>3, <2>1, <2>2
<1> HIDE DEF x
<1>5. /\ more \in Seq(Items(m + 1)) /\ DOMAIN more = DOMAIN out \cup {Len(out) + 1} /\ Len(out) + 1 \notin DOMAIN out
      /\ (\A k \in DOMAIN out : more[k] = out[k]) /\ more[Len(out) + 1] = x
  <2>1. /\ more \in Seq(Items(m + 1)) /\ Len(more) = Len(out) + 1
        /\ (\A k \in 1 .. Len(out) : more[k] = out[k]) /\ more[Len(out) + 1] = x
    BY <1>2, <1>3, AppendProperties
  <2> HIDE DEF more
  <2>2. DOMAIN more = 1 .. Len(out) + 1 /\ DOMAIN out = 1 .. Len(out) /\ Len(out) \in Nat
    BY <1>1, <2>1
  <2> QED BY <2>1, <2>2
<1>6. /\ warned \in Seq(1 .. (m + 1) - 1) /\ DOMAIN warn \subseteq DOMAIN warned
      /\ (\A k \in DOMAIN warned : IF k \in DOMAIN warn THEN warned[k] = warn[k] ELSE warned[k] = m)
      /\ IF m \in quiet THEN warned = warn
         ELSE \E w \in DOMAIN warned : w \notin DOMAIN warn /\ warned[w] = m /\ DOMAIN warned = DOMAIN warn \cup {w}
  <2>1. CASE m \in quiet
    <3>1. warned = warn
      BY <2>1
    <3> QED BY <1>2, <2>1, <3>1
  <2>2. CASE m \notin quiet
    <3>1. warned = Append(warn, m)
      BY <2>2
    <3>2. /\ warned \in Seq(1 .. (m + 1) - 1) /\ Len(warned) = Len(warn) + 1
          /\ (\A k \in 1 .. Len(warn) : warned[k] = warn[k]) /\ warned[Len(warn) + 1] = m
      <4> DEFINE a == Append(warn, m)
      <4>1. /\ a \in Seq(1 .. (m + 1) - 1) /\ Len(a) = Len(warn) + 1
            /\ (\A k \in 1 .. Len(warn) : a[k] = warn[k]) /\ a[Len(warn) + 1] = m
        BY <1>2, AppendProperties
      <4>2. warned = a
        BY <3>1
      <4> HIDE DEF a
      <4> QED BY <4>1, <4>2
    <3>3. DOMAIN warned = 1 .. Len(warn) + 1 /\ DOMAIN warn = 1 .. Len(warn) /\ Len(warn) \in Nat
      BY <1>1, <3>2
    <3>4. DOMAIN warned = DOMAIN warn \cup {Len(warn) + 1} /\ Len(warn) + 1 \notin DOMAIN warn
      BY <3>3
    <3> QED BY <2>2, <3>2, <3>3, <3>4
  <2> QED BY <2>1, <2>2
<1> HIDE DEF more
<1>7. (\A k \in DOMAIN out : out[k].of # m) /\ \A k \in DOMAIN warn : warn[k] # m
  <2>1. \A k \in DOMAIN out : out[k] \in Items(m)
    BY <1>1
  <2>2. \A k \in DOMAIN warn : warn[k] \in 1 .. m - 1
    BY <1>1
  <2>3. m \notin 1 .. m - 1
    BY <1>1
  <2> QED BY <2>1, <2>2, <2>3 DEF Items
<1>8. HasEmpty(more, m)
  <2>1. /\ Len(out) + 1 \in DOMAIN more /\ more[Len(out) + 1] = Item(m, plan[m].start, plan[m].end, FALSE)
        /\ more[Len(out) + 1].of = m /\ \A l \in DOMAIN more : more[l].of = m => l = Len(out) + 1
    BY <1>3, <1>5, <1>7 DEF x
  <2> QED BY <2>1 DEF HasEmpty
<1>9. Entered(more, warned, quiet, m)
  <2>1. CASE m \in quiet
    <3>1. \A k \in DOMAIN warned : warned[k] # m
      BY <1>6, <1>7, <2>1
    <3> QED BY <1>8, <2>1, <3>1 DEF Entered, HasSilence
  <2>2. CASE m \notin quiet
    <3>1. \E w \in DOMAIN warned : warned[w] = m /\ \A l \in DOMAIN warned : warned[l] = m => l = w
      BY <1>6, <1>7, <2>2
    <3> QED BY <1>8, <2>2, <3>1 DEF Entered, HasPlaceholder
  <2> QED BY <2>1, <2>2
<1>10. ASSUME NEW i \in 1 .. (m + 1) - 1 PROVE Entered(more, warned, quiet, i)
  <2>1. CASE i = m
    BY <1>9, <2>1
  <2>2. CASE i # m
    <3>1. i \in 1 .. m - 1
      BY <1>1, <2>2
    <3>2. Entered(out, warn, quiet, i)
      BY <3>1 DEF Recorded
    <3>3. DOMAIN out \subseteq DOMAIN more /\ \A k \in DOMAIN more : IF k \in DOMAIN out THEN more[k] = out[k] ELSE more[k].of = m
      BY <1>3, <1>5
    <3>4. Grown(out, more, warn, warned, m)
      BY <1>6, <3>3 DEF Grown
    <3> QED BY <2>2, <3>2, <3>4, RecordKept
  <2> QED BY <2>1, <2>2
<1> QED BY <1>4, <1>5, <1>6, <1>10 DEF Recorded

-----------------------------------------------------------------------------
(* Every segment is accounted for.                                         *)

Pending(s, i) == \E k \in DOMAIN s : i \in Indices(s[k])

BatchesOf(S) == Seq(Seq(S) \ {<<>>})

\* The segments before next are recorded; those of the chunk have a
\* transcription, are to blame for having none, or wait in a batch.
AccountInv ==
  /\ jobStage \in {"new", "diarized", "planned", "chunk", "cpu", "submit", "gpu",
                   "assemble", "merge", "done", "raised"}
  /\ device \in {"cpu", "gpu"} /\ total \in Totals \cup {0} /\ turns \in Seq(Bounds(total))
  /\ stack \in BatchesOf(Indices(Chunk))
  /\ jobStage \notin {"cpu", "submit", "gpu", "raised"} => stack = <<>>
  /\ jobStage \in {"submit", "gpu"} => stack # <<>> /\ device = "gpu"
  /\ good \subseteq Indices(Chunk) /\ blamed \subseteq DOMAIN plan
  /\ jobStage = "cpu" => \A i \in Indices(Chunk) : i \in good \/ i \in blamed \/ Pending(stack, i)
  /\ jobStage = "assemble" /\ device = "cpu" => Indices(Chunk) \subseteq good \cup blamed
  /\ Recorded(output, warnings, silent, next) /\ silent \subseteq 1 .. next - 1
  /\ device = "cpu" => Indices(warnings) \subseteq blamed
  /\ jobStage \in {"merge", "done"} => next > Len(plan) /\ InTime(output)

\* The segments of a chunk.
LEMMA ChunkRange ==
  ASSUME PlanInv
  PROVE  /\ ChunkEnd \in Nat /\ Len(plan) \in Nat /\ next \in Nat \ {0} /\ ChunkEnd \in next - 1 .. Len(plan)
         /\ Chunk \in Seq(Nat) /\ Len(Chunk) = ChunkEnd - next + 1
         /\ \A n \in 1 .. Len(Chunk) : Chunk[n] = next + n - 1
         /\ Indices(Chunk) = next .. ChunkEnd /\ Indices(Chunk) \subseteq DOMAIN plan
<1>1. next \in Nat \ {0} /\ Len(plan) \in Nat /\ BatchSize \in Nat \ {0} /\ next <= Len(plan) + 1
  BY JobAssumption DEF PlanInv
<1>2. ChunkEnd \in next - 1 .. Len(plan) /\ ChunkEnd \in Nat
  BY <1>1 DEF ChunkEnd, Lesser
<1> DEFINE n == ChunkEnd - next + 1
<1>3. n \in Nat
  BY <1>1, <1>2
<1>4. Chunk \in Seq(Nat) /\ Len(Chunk) = n /\ \A i \in 1 .. n : Chunk[i] = next + i - 1
  <2>1. Chunk = [i \in 1 .. n |-> next + i - 1]
    BY DEF Chunk
  <2>2. \A i \in 1 .. n : next + i - 1 \in Nat
    BY <1>1
  <2> HIDE DEF n
  <2> QED BY <1>3, <2>1, <2>2
<1>5. Indices(Chunk) = next .. ChunkEnd
  <2>1. DOMAIN Chunk = 1 .. n
    BY <1>3, <1>4
  <2>2. \A i \in 1 .. n : Chunk[i] \in next .. ChunkEnd
    BY <1>1, <1>2, <1>4, SMTT(30)
  <2>3. ASSUME NEW j \in next .. ChunkEnd PROVE \E i \in 1 .. n : Chunk[i] = j
    <3>1. j - next + 1 \in 1 .. n /\ next + (j - next + 1) - 1 = j
      BY <1>1, <1>2
    <3> HIDE DEF n
    <3> QED BY <1>4, <3>1
  <2> HIDE DEF n
  <2> QED BY <2>1, <2>2, <2>3 DEF Indices
<1>6. Indices(Chunk) \subseteq DOMAIN plan
  <2>1. DOMAIN plan = 1 .. Len(plan)
    BY DEF PlanInv
  <2> QED BY <1>1, <1>2, <1>5, <2>1
<1> QED BY <1>1, <1>2, <1>4, <1>5, <1>6

LEMMA ChunkKept == ASSUME next' = next, plan' = plan PROVE Chunk' = Chunk /\ Indices(Chunk)' = Indices(Chunk)
BY DEF Chunk, ChunkEnd, Indices

LEMMA RecordedPrime ==
  ASSUME plan' = plan, total' = total, Recorded(output', warnings', silent', next')
  PROVE  Recorded(output, warnings, silent, next)'
BY DEF Recorded, Entered, HasText, HasSilence, HasPlaceholder, HasEmpty, Items, Item

\* Nothing is recorded before the first segment.
LEMMA NothingRecorded ==
  ASSUME Recorded(output, warnings, silent, next), next = 1 PROVE output = <<>> /\ warnings = <<>>
<1>1. output \in Seq(Items(1)) /\ warnings \in Seq(1 .. 1 - 1)
  BY DEF Recorded
<1>2. \A x : x \notin 1 .. 1 - 1
  OBVIOUS
<1>3. \A x : x \notin Items(1)
  BY <1>2 DEF Items
<1> QED BY <1>1, <1>2, <1>3

LEMMA NothingIsRecorded == ASSUME output' = <<>>, warnings' = <<>>, next' = 1 PROVE Recorded(output, warnings, silent, next)'
<1>1. \A x : x \notin 1 .. 1 - 1
  OBVIOUS
<1> QED BY <1>1 DEF Recorded

\* One turn of the loop over a chunk records one segment.
LEMMA SegmentDoneLemma ==
  ASSUME PlanInv, NEW m \in 1 .. Len(plan), NEW said, m \in good => said[m] \in Answers(m),
         NEW quiet, m \in quiet <=> m \in good /\ ~said[m].text,
         NEW done, Recorded(done.output, done.warnings, quiet, m)
  PROVE  LET d == SegmentDone(done, m, said) IN
         /\ Recorded(d.output, d.warnings, quiet, m + 1)
         /\ Indices(d.warnings) \subseteq IF m \in good THEN Indices(done.warnings) ELSE Indices(done.warnings) \cup {m}
<1> DEFINE d == SegmentDone(done, m, said)
<1>1. CASE m \in good
  <2>1. d.output = done.output \o Transcribed(m, said[m]) /\ d.warnings = done.warnings
    BY <1>1 DEF SegmentDone
  <2>2. IF said[m].text THEN Transcribed(m, said[m]) \in Seq(Spoken(m)) /\ Transcribed(m, said[m]) # <<>>
        ELSE Transcribed(m, said[m]) = Placeholder(m)
    BY <1>1, TranscribedLemma
  <2>3. Recorded(done.output \o Transcribed(m, said[m]), done.warnings, quiet, m + 1)
    <3>1. CASE said[m].text
      BY <2>2, <3>1, RecordText
    <3>2. CASE ~said[m].text
      <4>1. done.warnings = IF m \in quiet THEN done.warnings ELSE Append(done.warnings, m)
        BY <1>1, <3>2
      <4>2. Recorded(done.output \o Placeholder(m), done.warnings, quiet, m + 1)
        BY <4>1, RecordEmpty
      <4> QED BY <2>2, <3>2, <4>2
    <3> QED BY <3>1, <3>2
  <2> HIDE DEF d
  <2> QED BY <1>1, <2>1, <2>3 DEF d
<1>2. CASE m \notin good
  <2>1. d.output = done.output \o Placeholder(m) /\ d.warnings = Append(done.warnings, m)
    BY <1>2 DEF SegmentDone
  <2>2. Recorded(done.output \o Placeholder(m), Append(done.warnings, m), quiet, m + 1)
    <3>1. Append(done.warnings, m) = IF m \in quiet THEN done.warnings ELSE Append(done.warnings, m)
      BY <1>2
    <3> QED BY <3>1, RecordEmpty
  <2>3. Indices(Append(done.warnings, m)) \subseteq Indices(done.warnings) \cup {m}
    <3>1. done.warnings \in Seq(1 .. m - 1)
      BY DEF Recorded
    <3>2. \A i \in 1 .. Len(done.warnings) + 1 :
            Append(done.warnings, m)[i] = IF i = Len(done.warnings) + 1 THEN m ELSE done.warnings[i]
      BY <3>1
    <3>3. /\ DOMAIN Append(done.warnings, m) = 1 .. Len(done.warnings) + 1
          /\ DOMAIN done.warnings = 1 .. Len(done.warnings) /\ Len(done.warnings) \in Nat
      BY <3>1
    <3> QED BY <3>2, <3>3 DEF Indices
  <2> HIDE DEF d
  <2> QED BY <1>2, <2>1, <2>2, <2>3 DEF d
<1> QED BY <1>1, <1>2

LEMMA AssembleFunction ==
  ASSUME PlanInv, Assemble
  PROVE  \E f, said :
           /\ \A i \in good : said[i] \in Answers(i)
           /\ f[0] = [output |-> output, warnings |-> warnings]
           /\ \A n \in 1 .. Len(Chunk) : f[n] = SegmentDone(f[n - 1], Chunk[n], said)
           /\ output' = f[Len(Chunk)].output /\ warnings' = f[Len(Chunk)].warnings
           /\ silent' = silent \cup {i \in good : ~said[i].text}
<1> DEFINE start == [output |-> output, warnings |-> warnings]
<1>1. PICK said \in {f \in [good -> UNION {Answers(i) : i \in good}] : \A i \in good : f[i] \in Answers(i)} :
        LET upTo[n \in 0 .. Len(Chunk)] ==
              IF n = 0 THEN [output |-> output, warnings |-> warnings]
              ELSE SegmentDone(upTo[n - 1], Chunk[n], said)
            done == upTo[Len(Chunk)] IN
        /\ output' = done.output /\ warnings' = done.warnings
        /\ silent' = silent \cup {i \in good : ~said[i].text}
  BY DEF Assemble
<1> DEFINE After(a, n) == SegmentDone(a, Chunk[n], said)
           Fcn(g, k) == g = [n \in 0 .. k |-> IF n = 0 THEN start ELSE After(g[n - 1], n)]
           Good == {k \in Nat : \E g : Fcn(g, k)}
<1>2. 0 \in Good
  <2>1. Fcn([n \in 0 .. 0 |-> start], 0)
    OBVIOUS
  <2> QED BY <2>1
<1>3. ASSUME NEW k \in Nat, k \in Good PROVE k + 1 \in Good
  <2> HIDE DEF After, start
  <2>1. PICK g : Fcn(g, k)
    BY <1>3
  <2> DEFINE h == [n \in 0 .. k + 1 |-> IF n = k + 1 THEN After(g[k], k + 1) ELSE g[n]]
  <2>2. ASSUME NEW n \in 0 .. k + 1
        PROVE  h[n] = IF n = 0 THEN start ELSE After(h[n - 1], n)
    BY <2>1
  <2>3. Fcn(h, k + 1)
    BY <2>2
  <2> HIDE DEF h, Fcn
  <2> QED BY <2>3
<1>4. Len(Chunk) \in Nat
  BY ChunkRange
<1>5. Len(Chunk) \in Good
  <2> HIDE DEF Good
  <2> QED BY <1>2, <1>3, <1>4, SetInduction
<1>6. PICK f : Fcn(f, Len(Chunk)) /\ f = CHOOSE g : Fcn(g, Len(Chunk))
  <2> HIDE DEF Fcn
  <2> QED BY <1>5
<1>7. output' = f[Len(Chunk)].output /\ warnings' = f[Len(Chunk)].warnings
  BY <1>1, <1>6
<1>8. f[0] = start /\ \A n \in 1 .. Len(Chunk) : f[n] = After(f[n - 1], n)
  <2> HIDE DEF After, start
  <2>1. f[0] = start
    BY <1>4, <1>6
  <2>2. ASSUME NEW n \in 1 .. Len(Chunk) PROVE f[n] = After(f[n - 1], n)
    <3>1. n \in 0 .. Len(Chunk) /\ n # 0
      BY <1>4
    <3> QED BY <1>6, <3>1
  <2> QED BY <2>1, <2>2
<1>9. (\A i \in good : said[i] \in Answers(i)) /\ silent' = silent \cup {i \in good : ~said[i].text}
  BY <1>1
<1> QED BY <1>7, <1>8, <1>9

\* The loop over the chunk records all of it.
LEMMA AssembleRecords ==
  ASSUME PlanInv, AccountInv, Assemble
  PROVE  /\ Recorded(output', warnings', silent', next')
         /\ Indices(warnings') \subseteq Indices(warnings) \cup (Indices(Chunk) \ good)
         /\ silent' \subseteq 1 .. next' - 1
<1>1. PICK f, said :
        /\ \A i \in good : said[i] \in Answers(i)
        /\ f[0] = [output |-> output, warnings |-> warnings]
        /\ \A n \in 1 .. Len(Chunk) : f[n] = SegmentDone(f[n - 1], Chunk[n], said)
        /\ output' = f[Len(Chunk)].output /\ warnings' = f[Len(Chunk)].warnings
        /\ silent' = silent \cup {i \in good : ~said[i].text}
  BY AssembleFunction
<1>2. /\ ChunkEnd \in Nat /\ Len(plan) \in Nat /\ next \in Nat \ {0} /\ ChunkEnd \in next - 1 .. Len(plan)
      /\ Len(Chunk) = ChunkEnd - next + 1 /\ Len(Chunk) \in Nat
      /\ \A n \in 1 .. Len(Chunk) : Chunk[n] = next + n - 1
      /\ Indices(Chunk) = next .. ChunkEnd
  BY ChunkRange
<1> DEFINE C == Len(Chunk)
           lost == Indices(warnings) \cup (Indices(Chunk) \ good)
           Done(n) == Recorded(f[n].output, f[n].warnings, silent', next + n) /\ Indices(f[n].warnings) \subseteq lost
           Good == {n \in Nat : n <= C => Done(n)}
<1>3. Done(0)
  <2>1. f[0].output = output /\ f[0].warnings = warnings /\ next + 0 = next
    BY <1>1, <1>2
  <2>2. Recorded(output, warnings, silent, next) /\ good \subseteq next .. ChunkEnd
    BY <1>2 DEF AccountInv
  <2>3. \A i \in 1 .. next - 1 : i \in silent' <=> i \in silent
    BY <1>1, <1>2, <2>2
  <2>4. Recorded(output, warnings, silent', next)
    BY <2>2, <2>3 DEF Recorded, Entered
  <2> QED BY <2>1, <2>4
<1>4. ASSUME NEW n \in Nat, n + 1 <= C, Done(n) PROVE Done(n + 1)
  <2>1. n + 1 \in 1 .. C /\ (n + 1) - 1 = n /\ next + (n + 1) - 1 = next + n /\ next + n \in next .. ChunkEnd
    BY <1>2, <1>4
  <2>2. next + n \in 1 .. Len(plan) /\ next + n \in Indices(Chunk) /\ (next + n) + 1 = next + (n + 1)
    BY <1>2, <2>1
  <2>3. f[n + 1] = SegmentDone(f[n], next + n, said)
    BY <1>1, <1>2, <2>1
  <2> DEFINE m == next + n
             done == f[n]
             d == SegmentDone(done, m, said)
  <2>4. m \in good => said[m] \in Answers(m)
    BY <1>1
  <2>5. Recorded(done.output, done.warnings, silent', m) /\ m \in 1 .. Len(plan)
    BY <1>4, <2>2
  <2>10. m \in silent' <=> m \in good /\ ~said[m].text
    <3>1. silent \subseteq 1 .. next - 1 /\ m \notin 1 .. next - 1
      BY <1>2, <2>1 DEF AccountInv
    <3> QED BY <1>1, <3>1
  <2>6. /\ Recorded(d.output, d.warnings, silent', m + 1)
        /\ Indices(d.warnings) \subseteq IF m \in good THEN Indices(done.warnings) ELSE Indices(done.warnings) \cup {m}
    <3> HIDE DEF m, done
    <3> QED BY <2>4, <2>5, <2>10, SegmentDoneLemma
  <2>7. f[n + 1] = d
    BY <2>3
  <2>8. Indices(done.warnings) \subseteq lost /\ (m \notin good => m \in lost)
    BY <1>4, <2>2
  <2> HIDE DEF d
  <2>9. Recorded(f[n + 1].output, f[n + 1].warnings, silent', next + (n + 1))
    BY <2>2, <2>6, <2>7
  <2> HIDE DEF done, m, lost
  <2> QED BY <2>6, <2>7, <2>8, <2>9
<1>5. Done(C)
  <2> HIDE DEF Done
  <2>1. 0 \in Good
    BY <1>3
  <2>2. ASSUME NEW n \in Nat, n \in Good PROVE n + 1 \in Good
    <3>1. n + 1 \in Nat /\ (n + 1 <= C => n <= C)
      BY <1>2
    <3> QED BY <1>4, <2>2, <3>1
  <2>3. C \in Good
    <3> HIDE DEF Good, C
    <3>1. C \in Nat
      BY <1>2 DEF C
    <3> QED BY <2>1, <2>2, <3>1, SetInduction
  <2> QED BY <1>2, <2>3
<1>6. next + C = next'
  <2>1. next' = ChunkEnd + 1
    BY DEF Assemble
  <2> QED BY <1>2, <2>1
<1>8. silent' \subseteq 1 .. next' - 1
  <2>1. next' = ChunkEnd + 1
    BY DEF Assemble
  <2>2. silent \subseteq 1 .. next - 1 /\ good \subseteq next .. ChunkEnd
    BY <1>2 DEF AccountInv
  <2>3. 1 .. next - 1 \subseteq 1 .. next' - 1 /\ next .. ChunkEnd \subseteq 1 .. next' - 1
    BY <1>2, <2>1
  <2>4. silent' \subseteq silent \cup good
    BY <1>1
  <2> QED BY <2>2, <2>3, <2>4
<1> HIDE DEF lost
<1>7. Recorded(output', warnings', silent', next + C) /\ Indices(warnings') \subseteq lost
  BY <1>1, <1>5
<1> QED BY <1>6, <1>7, <1>8 DEF lost

-----------------------------------------------------------------------------
(* The stack of batches and its answers.                                   *)

\* A batch on top of a stack, and the rest of it.
LEMMA StackPop ==
  ASSUME NEW S, NEW s \in BatchesOf(S), s # <<>>
  PROVE  /\ Head(s) \in Seq(S) /\ Head(s) # <<>> /\ Indices(Head(s)) \subseteq S
         /\ Tail(s) \in BatchesOf(S)
         /\ \A i : Pending(s, i) => i \in Indices(Head(s)) \/ Pending(Tail(s), i)
<1> DEFINE T == Seq(S) \ {<<>>}
<1>1. s \in Seq(T) /\ Len(s) \in Nat \ {0} /\ Head(s) = s[1] /\ s[1] \in T
  BY DEF BatchesOf
<1>2. Tail(s) \in Seq(T) /\ Len(Tail(s)) = Len(s) - 1 /\ \A j \in 1 .. Len(s) - 1 : Tail(s)[j] = s[j + 1]
  BY <1>1
<1>3. Indices(Head(s)) \subseteq S
  BY <1>1 DEF Indices
<1>4. ASSUME NEW i, Pending(s, i) PROVE i \in Indices(Head(s)) \/ Pending(Tail(s), i)
  <2>1. PICK k \in 1 .. Len(s) : i \in Indices(s[k])
    BY <1>1, <1>4, SMTT(30) DEF Pending
  <2>2. CASE k = 1
    BY <1>1, <2>1, <2>2
  <2>3. CASE k # 1
    <3>1. k - 1 \in 1 .. Len(s) - 1 /\ (k - 1) + 1 = k
      BY <1>1, <2>3
    <3>2. k - 1 \in DOMAIN Tail(s) /\ Tail(s)[k - 1] = s[k]
      BY <1>2, <3>1
    <3> QED BY <2>1, <3>2 DEF Pending
  <2> QED BY <2>2, <2>3
<1> QED BY <1>1, <1>2, <1>3, <1>4 DEF BatchesOf

\* Two batches put on a stack.
LEMMA StackPush ==
  ASSUME NEW S, NEW s \in BatchesOf(S), NEW g \in Seq(S) \ {<<>>}, NEW h \in Seq(S) \ {<<>>}
  PROVE  /\ <<g, h>> \o s \in BatchesOf(S)
         /\ \A i : Pending(s, i) \/ i \in Indices(g) \/ i \in Indices(h) => Pending(<<g, h>> \o s, i)
<1> DEFINE T == Seq(S) \ {<<>>}
           r == <<g, h>> \o s
<1>1. s \in Seq(T) /\ <<g, h>> \in Seq(T) /\ Len(<<g, h>>) = 2 /\ <<g, h>>[1] = g /\ <<g, h>>[2] = h /\ Len(s) \in Nat
  BY DEF BatchesOf
<1> HIDE DEF T
<1>2. /\ r \in Seq(T) /\ Len(r) = Len(<<g, h>>) + Len(s)
      /\ \A k \in 1 .. Len(<<g, h>>) + Len(s) :
           r[k] = IF k <= Len(<<g, h>>) THEN <<g, h>>[k] ELSE s[k - Len(<<g, h>>)]
  BY <1>1, ConcatProperties
<1> HIDE DEF r
<1>3. DOMAIN r = 1 .. 2 + Len(s) /\ DOMAIN s = 1 .. Len(s)
  BY <1>1, <1>2
<1>4. r[1] = g /\ r[2] = h /\ 1 \in DOMAIN r /\ 2 \in DOMAIN r
  <2>1. 1 \in 1 .. 2 + Len(s) /\ 2 \in 1 .. 2 + Len(s)
    BY <1>1
  <2> QED BY <1>1, <1>2, <1>3, <2>1
<1>5. \A k \in 1 .. Len(s) : k + 2 \in DOMAIN r /\ r[k + 2] = s[k]
  <2> SUFFICES ASSUME NEW k \in 1 .. Len(s) PROVE k + 2 \in DOMAIN r /\ r[k + 2] = s[k]
    OBVIOUS
  <2>1. k + 2 \in 1 .. 2 + Len(s) /\ ~(k + 2 <= 2) /\ (k + 2) - 2 = k
    BY <1>1
  <2> QED BY <1>1, <1>2, <1>3, <2>1
<1>6. ASSUME NEW i, Pending(s, i) \/ i \in Indices(g) \/ i \in Indices(h) PROVE Pending(r, i)
  <2>1. CASE Pending(s, i)
    <3>1. PICK k \in 1 .. Len(s) : i \in Indices(s[k])
      BY <1>3, <2>1 DEF Pending
    <3> QED BY <1>5, <3>1 DEF Pending
  <2>2. CASE i \in Indices(g)
    BY <1>4, <2>2 DEF Pending
  <2>3. CASE i \in Indices(h)
    BY <1>4, <2>3 DEF Pending
  <2> QED BY <1>6, <2>1, <2>2, <2>3
<1> QED BY <1>2, <1>6 DEF BatchesOf, T, r

\* The halves of a batch hold all of it.
LEMMA HalvesKeep ==
  ASSUME NEW S, NEW s \in Seq(S), Len(s) >= 2
  PROVE  /\ Halves(s)[1] \in Seq(S) /\ Halves(s)[2] \in Seq(S)
         /\ \A i \in Indices(s) : i \in Indices(Halves(s)[1]) \/ i \in Indices(Halves(s)[2])
<1> DEFINE n == Len(s)
           k == Midpoint(n)
           g == SubSeq(s, 1, k)
           h == SubSeq(s, k + 1, n)
<1>1. n \in Nat /\ n >= 2 /\ DOMAIN s = 1 .. n
  OBVIOUS
<1>2. k \in 1 .. n - 1
  <2>1. n \div 2 \in Nat /\ n \div 2 >= 1 /\ n \div 2 <= n - 1
    BY <1>1
  <2> QED BY <2>1, <1>1 DEF Midpoint, Greater
<1> HIDE DEF k
<1>3. g \in Seq(S) /\ Len(g) = k /\ \A j \in 1 .. k : g[j] = s[j]
  <2>1. \A i \in 1 .. k : s[i] \in S
    BY <1>1, <1>2
  <2>2. 1 \in Int /\ k \in Int /\ k >= 1
    BY <1>1, <1>2
  <2>3. /\ g \in Seq(S) /\ Len(g) = IF 1 <= k THEN k - 1 + 1 ELSE 0
        /\ \A i \in 1 .. k - 1 + 1 : g[i] = s[1 + i - 1]
    BY <2>1, <2>2, SubSeqProperties
  <2> HIDE DEF g
  <2> QED BY <2>2, <2>3
<1>4. h \in Seq(S) /\ Len(h) = n - k /\ \A j \in 1 .. n - k : h[j] = s[k + j]
  <2>1. \A i \in k + 1 .. n : s[i] \in S
    BY <1>1, <1>2
  <2>2. k + 1 \in Int /\ n \in Int /\ k + 1 <= n /\ n - (k + 1) + 1 = n - k
    BY <1>1, <1>2
  <2>3. /\ h \in Seq(S) /\ Len(h) = IF k + 1 <= n THEN n - (k + 1) + 1 ELSE 0
        /\ \A i \in 1 .. n - (k + 1) + 1 : h[i] = s[k + 1 + i - 1]
    BY <2>1, <2>2, SubSeqProperties
  <2> HIDE DEF h, n
  <2>4. \A j \in 1 .. n - k : k + 1 + j - 1 = k + j
    BY <1>1, <1>2
  <2> QED BY <2>2, <2>3, <2>4
<1>5. Halves(s) = <<g, h>>
  BY DEF Halves, k
<1> HIDE DEF g, h, n
<1>6. DOMAIN g = 1 .. k /\ DOMAIN h = 1 .. n - k
  <2>1. DOMAIN g = 1 .. Len(g) /\ DOMAIN h = 1 .. Len(h)
    BY <1>3, <1>4
  <2> QED BY <1>3, <1>4, <2>1
<1>7. ASSUME NEW j \in 1 .. n PROVE s[j] \in Indices(g) \/ s[j] \in Indices(h)
  <2>1. CASE j <= k
    <3>1. j \in DOMAIN g /\ g[j] = s[j]
      BY <1>1, <1>2, <1>3, <1>6, <2>1
    <3> QED BY <3>1 DEF Indices
  <2>2. CASE ~(j <= k)
    <3>1. j - k \in 1 .. n - k /\ k + (j - k) = j
      BY <1>1, <1>2, <2>2
    <3>2. j - k \in DOMAIN h /\ h[j - k] = s[j]
      BY <1>4, <1>6, <3>1
    <3> QED BY <3>2 DEF Indices
  <2> QED BY <2>1, <2>2
<1>8. \A i \in Indices(s) : i \in Indices(g) \/ i \in Indices(h)
  BY <1>1, <1>7 DEF Indices
<1>9. Halves(s)[1] = g /\ Halves(s)[2] = h
  BY <1>5
<1> QED BY <1>3, <1>4, <1>8, <1>9

\* Nothing of the chunk is lost when the model has been called.
LEMMA ContinueAccount ==
  ASSUME PlanInv, AccountInv, jobStage = "cpu",
         UNCHANGED <<device, total, turns, plan, next, warnings, output, silent>>,
         NEW rest \in BatchesOf(Indices(Chunk)), Continue(rest, "cpu"),
         good' \subseteq Indices(Chunk), blamed' \subseteq Indices(Chunk) \cup blamed, blamed \subseteq blamed',
         \A i \in Indices(Chunk) : i \in good' \/ i \in blamed' \/ Pending(rest, i)
  PROVE  AccountInv'
<1>1. Chunk' = Chunk /\ Indices(Chunk)' = Indices(Chunk) /\ Indices(Chunk) \subseteq DOMAIN plan
  BY ChunkKept, ChunkRange
<1>2. Recorded(output, warnings, silent, next)'
  BY RecordedPrime DEF AccountInv
<1>3. stack' = rest /\ jobStage' = IF rest = <<>> THEN "assemble" ELSE "cpu"
  BY DEF Continue
<1>4. /\ device' \in {"cpu", "gpu"} /\ total' \in Totals \cup {0} /\ turns' \in Seq(Bounds(total'))
      /\ blamed' \subseteq DOMAIN plan' /\ (device' = "cpu" => Indices(warnings') \subseteq blamed')
  BY <1>1 DEF AccountInv
<1>5. stack' \in BatchesOf(Indices(Chunk))' /\ (good \subseteq Indices(Chunk))'
  BY <1>1, <1>3 DEF BatchesOf
<1>6. CASE rest = <<>>
  <2>1. \A i : ~Pending(rest, i)
    BY <1>6 DEF Pending
  <2>2. Indices(Chunk)' \subseteq good' \cup blamed'
    BY <1>1, <2>1
  <2>3. jobStage' = "assemble"
    BY <1>3, <1>6
  <2> QED BY <1>2, <1>3, <1>4, <1>5, <1>6, <2>2, <2>3 DEF AccountInv
<1>7. CASE rest # <<>>
  <2>1. jobStage' = "cpu"
    BY <1>3, <1>7
  <2>2. \A i \in Indices(Chunk)' : i \in good' \/ i \in blamed' \/ Pending(stack', i)
    BY <1>1, <1>3
  <2>3. (\A i \in Indices(Chunk) : i \in good \/ i \in blamed \/ Pending(stack, i))'
    BY <2>2 DEF Pending, Indices
  <2> QED BY <1>2, <1>4, <1>5, <2>1, <2>3 DEF AccountInv
<1> QED BY <1>6, <1>7

LEMMA BatchAnsweredAccount == ASSUME PlanInv, BisectInv, AccountInv, BatchAnswered PROVE AccountInv'
<1>1. jobStage = "cpu" /\ UNCHANGED <<device, total, turns, plan, next, warnings, output, silent>> /\ Continue(Tail(stack), "cpu")
  BY DEF BatchAnswered
<1>2. PICK nulls \in SUBSET Indices(Head(stack)) :
        good' = good \cup (Indices(Head(stack)) \ nulls) /\ blamed' = blamed \cup nulls
  BY DEF BatchAnswered
<1>3. stack \in BatchesOf(Indices(Chunk)) /\ stack # <<>>
  BY <1>1 DEF AccountInv, BisectInv
<1>4. /\ Indices(Head(stack)) \subseteq Indices(Chunk) /\ Tail(stack) \in BatchesOf(Indices(Chunk))
      /\ \A i : Pending(stack, i) => i \in Indices(Head(stack)) \/ Pending(Tail(stack), i)
  BY <1>3, StackPop
<1>5. good \subseteq Indices(Chunk) /\ \A i \in Indices(Chunk) : i \in good \/ i \in blamed \/ Pending(stack, i)
  BY <1>1 DEF AccountInv
<1>6. \A i \in Indices(Chunk) : i \in good' \/ i \in blamed' \/ Pending(Tail(stack), i)
  BY <1>2, <1>4, <1>5
<1>7. good' \subseteq Indices(Chunk) /\ blamed' \subseteq Indices(Chunk) \cup blamed /\ blamed \subseteq blamed'
  BY <1>2, <1>4, <1>5
<1> QED BY <1>1, <1>4, <1>6, <1>7, ContinueAccount

LEMMA BatchFailedAccount == ASSUME PlanInv, BisectInv, AccountInv, BatchFailed PROVE AccountInv'
<1> DEFINE items == Head(stack)
           halves == Halves(items)
<1>1. jobStage = "cpu" /\ UNCHANGED <<device, total, turns, plan, next, good, warnings, output, silent>>
  BY DEF BatchFailed
<1>2. stack \in BatchesOf(Indices(Chunk)) /\ stack # <<>> /\ stack \in Batches
  BY <1>1 DEF AccountInv, BisectInv
<1>3. /\ items \in Seq(Indices(Chunk)) /\ items # <<>>
      /\ Indices(items) \subseteq Indices(Chunk) /\ Tail(stack) \in BatchesOf(Indices(Chunk))
      /\ \A i : Pending(stack, i) => i \in Indices(items) \/ Pending(Tail(stack), i)
  BY <1>2, StackPop
<1>4. good \subseteq Indices(Chunk) /\ \A i \in Indices(Chunk) : i \in good \/ i \in blamed \/ Pending(stack, i)
  BY <1>1 DEF AccountInv
<1>5. CASE Len(items) = 1
  <2>1. blamed' = blamed \cup Indices(items) /\ Continue(Tail(stack), "cpu")
    BY <1>5 DEF BatchFailed
  <2> HIDE DEF items
  <2>2. \A i \in Indices(Chunk) : i \in good' \/ i \in blamed' \/ Pending(Tail(stack), i)
    BY <1>1, <1>3, <1>4, <2>1
  <2>3. good' \subseteq Indices(Chunk) /\ blamed' \subseteq Indices(Chunk) \cup blamed /\ blamed \subseteq blamed'
    BY <1>1, <1>3, <1>4, <2>1
  <2> QED BY <1>1, <1>3, <2>1, <2>2, <2>3, ContinueAccount
<1>6. CASE Len(items) # 1
  <2>1. items \in Seq(Nat) /\ Len(items) >= 2
    <3>1. items \in Seq(Nat) \ {<<>>}
      BY <1>2 DEF Batches
    <3>2. Len(items) \in Nat /\ Len(items) # 0
      BY <3>1
    <3>3. \A n \in Nat : n # 0 /\ n # 1 => n >= 2
      OBVIOUS
    <3> QED BY <1>6, <3>1, <3>2, <3>3, Zenon
  <2>2. halves[1] # <<>> /\ halves[2] # <<>> /\ halves = <<halves[1], halves[2]>>
    <3> HIDE DEF items
    <3> QED BY <2>1, HalvesLemma
  <2>3. /\ halves[1] \in Seq(Indices(Chunk)) /\ halves[2] \in Seq(Indices(Chunk))
        /\ \A i \in Indices(items) : i \in Indices(halves[1]) \/ i \in Indices(halves[2])
    <3> HIDE DEF items
    <3> QED BY <1>3, <2>1, HalvesKeep
  <2>4. /\ Continue((IF halves[2] = <<>> THEN <<halves[1]>> ELSE halves) \o Tail(stack), "cpu")
        /\ blamed' = blamed
    BY <1>6 DEF BatchFailed
  <2>5. Continue(<<halves[1], halves[2]>> \o Tail(stack), "cpu")
    BY <2>2, <2>4
  <2> DEFINE rest == <<halves[1], halves[2]>> \o Tail(stack)
  <2> HIDE DEF halves, items
  <2>6. /\ rest \in BatchesOf(Indices(Chunk))
        /\ \A i : Pending(Tail(stack), i) \/ i \in Indices(halves[1]) \/ i \in Indices(halves[2]) => Pending(rest, i)
    BY <1>3, <2>2, <2>3, StackPush
  <2>7. Continue(rest, "cpu")
    BY <2>5
  <2> HIDE DEF rest
  <2>8. \A i \in Indices(Chunk) : i \in good' \/ i \in blamed' \/ Pending(rest, i)
    BY <1>1, <1>3, <1>4, <2>3, <2>4, <2>6
  <2>9. good' \subseteq Indices(Chunk) /\ blamed' \subseteq Indices(Chunk) \cup blamed /\ blamed \subseteq blamed'
    BY <1>1, <1>4, <2>4
  <2> QED BY <1>1, <2>6, <2>7, <2>8, <2>9, ContinueAccount
<1> QED BY <1>5, <1>6

\* A future is resolved: the others of the batch are still awaited.
LEMMA OutcomeArrivesAccount == ASSUME PlanInv, AccountInv, OutcomeArrives PROVE AccountInv'
<1> DEFINE batch == Head(stack)
           rest == Tail(batch)
           left == IF rest = <<>> THEN <<>> ELSE <<rest>>
<1>1. /\ jobStage = "gpu" /\ UNCHANGED <<device, total, turns, plan, next, warnings, output, silent>>
      /\ Continue(left, "gpu")
  BY DEF OutcomeArrives
<1>2. stack \in BatchesOf(Indices(Chunk)) /\ stack # <<>>
  BY <1>1 DEF AccountInv
<1>3. batch \in Seq(Indices(Chunk)) /\ batch # <<>>
  BY <1>2, StackPop
<1>4. Head(batch) \in Indices(Chunk) /\ rest \in Seq(Indices(Chunk))
  <2> HIDE DEF batch
  <2> QED BY <1>3
<1>5. left \in BatchesOf(Indices(Chunk))
  <2> HIDE DEF rest
  <2>1. <<>> \in BatchesOf(Indices(Chunk))
    BY DEF BatchesOf
  <2>2. ASSUME rest # <<>> PROVE <<rest>> \in BatchesOf(Indices(Chunk))
    <3>1. rest \in Seq(Indices(Chunk)) \ {<<>>}
      BY <1>4, <2>2
    <3> QED BY <3>1, OneEntry DEF BatchesOf
  <2> QED BY <2>1, <2>2
<1>6. \/ good' = good \cup {Head(batch)} /\ blamed' = blamed
      \/ blamed' = blamed \cup {Head(batch)} /\ good' = good
  BY DEF OutcomeArrives
<1> HIDE DEF left, rest, batch
<1>7. Chunk' = Chunk /\ Indices(Chunk)' = Indices(Chunk) /\ Indices(Chunk) \subseteq DOMAIN plan
  BY <1>1, ChunkKept, ChunkRange
<1>8. Recorded(output, warnings, silent, next)'
  BY <1>1, RecordedPrime DEF AccountInv
<1>9. stack' = left /\ jobStage' = IF left = <<>> THEN "assemble" ELSE "gpu"
  BY <1>1 DEF Continue
<1>10. /\ good' \subseteq Indices(Chunk) /\ blamed' \subseteq DOMAIN plan /\ blamed \subseteq blamed'
  BY <1>4, <1>6, <1>7 DEF AccountInv
<1>11. stack' \in BatchesOf(Indices(Chunk))' /\ (good \subseteq Indices(Chunk))'
  BY <1>5, <1>7, <1>9, <1>10 DEF BatchesOf
<1>12. device = "gpu"
  BY <1>1 DEF AccountInv
<1> QED BY <1>1, <1>8, <1>9, <1>10, <1>11, <1>12 DEF AccountInv

-----------------------------------------------------------------------------
(* The other steps.                                                        *)

\* What a step that leaves the plan and the records alone has to show.
LEMMA AccountKept ==
  ASSUME PlanInv, AccountInv, UNCHANGED <<device, total, plan, next, stack, good, warnings, output, blamed, silent>>,
         turns' = turns \/ turns' = <<>>,
         jobStage' \in {"raised"} \/ jobStage' = jobStage
           \/ (jobStage' \in {"done", "merge"} /\ jobStage \in {"done", "merge"})
  PROVE  AccountInv'
<1>1. Chunk' = Chunk /\ Indices(Chunk)' = Indices(Chunk)
  BY ChunkKept
<1>2. Recorded(output, warnings, silent, next)'
  BY RecordedPrime DEF AccountInv
<1>3. turns' \in Seq(Bounds(total'))
  <2>1. CASE turns' = turns
    <3>1. turns \in Seq(Bounds(total)) /\ Bounds(total') = Bounds(total)
      BY DEF AccountInv
    <3> QED BY <2>1, <3>1
  <2>2. CASE turns' = <<>>
    BY <2>2, EmptySeq
  <2> QED BY <2>1, <2>2
<1>4. /\ (stack \in BatchesOf(Indices(Chunk)))' /\ (good \subseteq Indices(Chunk))'
      /\ (device = "cpu" => Indices(warnings) \subseteq blamed)'
      /\ (InTime(output) <=> InTime(output)')
  BY <1>1 DEF AccountInv, BatchesOf, Indices, InTime
<1>5. (\A i \in Indices(Chunk) : i \in good \/ i \in blamed \/ Pending(stack, i))'
        <=> (\A i \in Indices(Chunk) : i \in good \/ i \in blamed \/ Pending(stack, i))
  BY <1>1 DEF Pending, Indices
<1>6. (Indices(Chunk) \subseteq good \cup blamed)' <=> (Indices(Chunk) \subseteq good \cup blamed)
  BY <1>1
<1> QED BY <1>2, <1>3, <1>4, <1>5, <1>6 DEF AccountInv

LEMMA DiarizeAccount == ASSUME PlanInv, AccountInv, Diarize PROVE AccountInv'
<1>1. /\ jobStage = "new" /\ jobStage' = "diarized" /\ device' \in {"cpu", "gpu"} /\ total' \in Totals
      /\ UNCHANGED <<plan, next, stack, good, warnings, output, blamed, silent>> /\ next = 1
  BY DEF Diarize, PlanInv
<1>2. output = <<>> /\ warnings = <<>>
  BY <1>1, NothingRecorded DEF AccountInv
<1>3. Recorded(output, warnings, silent, next)'
  BY <1>1, <1>2, NothingIsRecorded
<1>4. Chunk' = Chunk /\ Indices(Chunk)' = Indices(Chunk)
  BY <1>1, ChunkKept
<1>5. turns' \in Seq(Bounds(total'))
  BY <1>1, DiarizePlan DEF PlanInv
<1>6. Indices(warnings') = {}
  BY <1>1, <1>2 DEF Indices
<1>7. (stack \in BatchesOf(Indices(Chunk)))' /\ (good \subseteq Indices(Chunk))' /\ stack = <<>>
  BY <1>1, <1>4 DEF AccountInv, BatchesOf
<1> QED BY <1>1, <1>3, <1>5, <1>6, <1>7 DEF AccountInv

\* The plan is made before anything refers to it.
LEMMA MakePlanAccount == ASSUME PlanInv, AccountInv, MakePlan PROVE AccountInv'
<1>1. /\ jobStage = "diarized" /\ jobStage' = "planned" /\ next = 1 /\ plan = <<>>
      /\ UNCHANGED <<device, total, turns, next, stack, good, warnings, output, blamed, silent>>
  BY DEF MakePlan, PlanInv
<1>2. output = <<>> /\ warnings = <<>>
  BY <1>1, NothingRecorded DEF AccountInv
<1>3. Recorded(output, warnings, silent, next)'
  BY <1>1, <1>2, NothingIsRecorded
<1>4. stack = <<>> /\ good = {} /\ blamed = {}
  <2>1. DOMAIN plan = {}
    BY <1>1
  <2>2. Indices(Chunk) = {}
    BY <2>1, ChunkRange
  <2> QED BY <1>1, <2>1, <2>2 DEF AccountInv
<1>5. (stack \in BatchesOf(Indices(Chunk)))' /\ (good \subseteq Indices(Chunk))' /\ (blamed \subseteq DOMAIN plan)'
  BY <1>1, <1>4 DEF BatchesOf
<1>6. Indices(warnings') = {}
  BY <1>1, <1>2 DEF Indices
<1>7. device' \in {"cpu", "gpu"} /\ total' \in Totals \cup {0} /\ turns' \in Seq(Bounds(total'))
  BY <1>1 DEF AccountInv, Bounds
<1> QED BY <1>1, <1>3, <1>4, <1>5, <1>6, <1>7 DEF AccountInv

\* Segments without audio are to blame themselves, the others wait.
LEMMA TakeChunkAccount == ASSUME PlanInv, AccountInv, TakeChunk PROVE AccountInv'
<1>1. /\ jobStage \in {"planned", "chunk"} /\ next <= Len(plan) /\ good' = {} /\ turns' = <<>>
      /\ UNCHANGED <<device, total, plan, next, warnings, output, silent>>
  BY DEF TakeChunk
<1>2. PICK inputs \in InOrder :
        /\ stack' = IF inputs = <<>> THEN <<>> ELSE <<inputs>>
        /\ jobStage' = IF inputs = <<>> THEN "assemble" ELSE IF device = "gpu" THEN "submit" ELSE "cpu"
        /\ blamed' = blamed \cup (Indices(Chunk) \ Indices(inputs))
  BY DEF TakeChunk
<1>3. Chunk' = Chunk /\ Indices(Chunk)' = Indices(Chunk) /\ Indices(Chunk) \subseteq DOMAIN plan
  BY <1>1, ChunkKept, ChunkRange
<1>4. inputs \in Seq(Indices(Chunk))
  <2>1. PICK n \in 0 .. Len(Chunk) : inputs \in [1 .. n -> Indices(Chunk)]
    BY DEF InOrder
  <2>2. n \in Nat
    OBVIOUS
  <2>3. inputs \in UNION {[1 .. k -> Indices(Chunk)] : k \in Nat}
    BY <2>1, <2>2
  <2> QED BY <2>3, SeqDef
<1>5. Recorded(output, warnings, silent, next)'
  BY <1>1, RecordedPrime DEF AccountInv
<1>6. stack' \in BatchesOf(Indices(Chunk))
  <2>1. <<>> \in BatchesOf(Indices(Chunk))
    BY DEF BatchesOf
  <2>2. ASSUME inputs # <<>> PROVE <<inputs>> \in BatchesOf(Indices(Chunk))
    <3>1. inputs \in Seq(Indices(Chunk)) \ {<<>>}
      BY <1>4, <2>2
    <3> QED BY <3>1, OneEntry DEF BatchesOf
  <2> QED BY <1>2, <2>1, <2>2
<1>7. (stack \in BatchesOf(Indices(Chunk)))' /\ (good \subseteq Indices(Chunk))'
  BY <1>1, <1>3, <1>6 DEF BatchesOf
<1>8. /\ device' \in {"cpu", "gpu"} /\ total' \in Totals \cup {0} /\ turns' \in Seq(Bounds(total'))
      /\ blamed' \subseteq DOMAIN plan' /\ (device' = "cpu" => Indices(warnings') \subseteq blamed')
  <2>1. <<>> \in Seq(Bounds(total'))
    BY EmptySeq
  <2> QED BY <1>1, <1>2, <1>3, <2>1 DEF AccountInv
<1>9. CASE inputs = <<>>
  <2>1. jobStage' = "assemble" /\ stack' = <<>>
    BY <1>2, <1>9
  <2>2. Indices(inputs) = {}
    BY <1>9 DEF Indices
  <2>3. (Indices(Chunk) \subseteq good \cup blamed)'
    BY <1>2, <1>3, <2>2
  <2> QED BY <1>1, <1>5, <1>7, <1>8, <2>1, <2>3 DEF AccountInv
<1>10. CASE inputs # <<>>
  <2>1. jobStage' = (IF device = "gpu" THEN "submit" ELSE "cpu") /\ stack' = <<inputs>> /\ stack' # <<>>
    BY <1>2, <1>10
  <2>2. \A i \in Indices(Chunk) : i \in blamed' \/ Pending(stack', i)
    <3>1. 1 \in DOMAIN <<inputs>> /\ <<inputs>>[1] = inputs
      OBVIOUS
    <3>2. \A i \in Indices(inputs) : Pending(stack', i)
      BY <2>1, <3>1 DEF Pending
    <3> QED BY <1>2, <3>2
  <2>3. (\A i \in Indices(Chunk) : i \in good \/ i \in blamed \/ Pending(stack, i))'
    BY <1>3, <2>2 DEF Pending, Indices
  <2> QED BY <1>1, <1>5, <1>7, <1>8, <2>1, <2>3 DEF AccountInv
<1> QED BY <1>9, <1>10

LEMMA SubmitAccount == ASSUME PlanInv, AccountInv, Submit PROVE AccountInv'
<1>1. /\ jobStage = "submit" /\ UNCHANGED <<device, total, turns, plan, next, good, warnings, output, blamed, silent>>
      /\ \/ jobStage' \in {"gpu", "raised"} /\ stack' = stack
         \/ jobStage' = "assemble" /\ stack' = <<>>
  BY DEF Submit
<1>2. Chunk' = Chunk /\ Indices(Chunk)' = Indices(Chunk)
  BY <1>1, ChunkKept
<1>3. Recorded(output, warnings, silent, next)'
  BY <1>1, RecordedPrime DEF AccountInv
<1>4. <<>> \in BatchesOf(Indices(Chunk))
  BY DEF BatchesOf
<1>5. stack' \in BatchesOf(Indices(Chunk))' /\ (good \subseteq Indices(Chunk))'
  BY <1>1, <1>2, <1>4 DEF AccountInv, BatchesOf
<1>6. device = "gpu" /\ stack # <<>>
  BY <1>1 DEF AccountInv
<1>7. /\ device' \in {"cpu", "gpu"} /\ total' \in Totals \cup {0} /\ turns' \in Seq(Bounds(total'))
      /\ blamed' \subseteq DOMAIN plan'
  BY <1>1 DEF AccountInv, Bounds
<1> QED BY <1>1, <1>3, <1>5, <1>6, <1>7 DEF AccountInv

LEMMA AssembleAccount == ASSUME PlanInv, AccountInv, Assemble PROVE AccountInv'
<1>1. /\ jobStage = "assemble" /\ jobStage' = "chunk" /\ good' = {} /\ next' = ChunkEnd + 1
      /\ UNCHANGED <<device, total, turns, plan, stack, blamed>>
  BY DEF Assemble
<1>2. /\ Recorded(output', warnings', silent', next')
      /\ Indices(warnings') \subseteq Indices(warnings) \cup (Indices(Chunk) \ good) /\ silent' \subseteq 1 .. next' - 1
  BY AssembleRecords
<1>3. Recorded(output, warnings, silent, next)'
  BY <1>1, <1>2, RecordedPrime
<1>4. stack' = <<>>
  BY <1>1 DEF AccountInv
<1>5. (stack \in BatchesOf(Indices(Chunk)))' /\ (good \subseteq Indices(Chunk))'
  BY <1>1, <1>4 DEF BatchesOf
<1>6. device' = "cpu" => Indices(warnings)' \subseteq blamed'
  <2>1. Indices(warnings)' = Indices(warnings')
    BY DEF Indices
  <2> QED BY <1>1, <1>2, <2>1 DEF AccountInv
<1>7. /\ device' \in {"cpu", "gpu"} /\ total' \in Totals \cup {0} /\ turns' \in Seq(Bounds(total'))
      /\ blamed' \subseteq DOMAIN plan'
  BY <1>1 DEF AccountInv, Bounds
<1> QED BY <1>1, <1>2, <1>3, <1>4, <1>5, <1>6, <1>7 DEF AccountInv

\* The order of the items does not matter to the records.
LEMMA RecordedInOrder ==
  ASSUME NEW out, NEW warn, NEW quiet, NEW m, Recorded(out, warn, quiet, m), NEW p, NEW q, FirstOnes(p, q, out, Len(out))
  PROVE  Recorded(q, warn, quiet, m)
<1> DEFINE n == Len(out)
<1>1. /\ out \in Seq(Items(m)) /\ warn \in Seq(1 .. m - 1) /\ n \in Nat /\ DOMAIN out = 1 .. n
      /\ \A k \in 1 .. n : out[k] \in Items(m)
  BY DEF Recorded
<1>2. /\ q \in Seq(Timed) /\ Len(q) = n
      /\ p \in [1 .. n -> 1 .. n]
      /\ \A k \in 1 .. n : q[k] = out[p[k]]
      /\ \A j, k \in 1 .. n : p[j] = p[k] => j = k
      /\ \A k \in 1 .. n : \E j \in 1 .. n : p[j] = k
  BY DEF FirstOnes
<1> HIDE DEF n
<1>3. DOMAIN q = 1 .. n /\ \A k \in 1 .. n : p[k] \in 1 .. n
  <2>1. DOMAIN q = 1 .. Len(q)
    <3>1. q \in Seq(Timed)
      BY <1>2
    <3> QED BY <3>1
  <2>2. \A k \in 1 .. n : p[k] \in 1 .. n
    <3>1. p \in [1 .. n -> 1 .. n]
      BY <1>2
    <3> QED BY <3>1
  <2> QED BY <1>2, <2>1, <2>2
<1>4. q \in Seq(Items(m))
  <2>1. \A k \in 1 .. n : q[k] \in Items(m)
    BY <1>1, <1>2, <1>3
  <2>2. q = [k \in 1 .. n |-> q[k]]
    BY <1>2, <1>3
  <2>3. q \in [1 .. n -> Items(m)]
    BY <2>1, <2>2
  <2>4. q \in UNION {[1 .. k -> Items(m)] : k \in Nat}
    BY <1>1, <2>3
  <2> QED BY <2>4, SeqDef
<1>5. ASSUME NEW i \in 1 .. m - 1 PROVE Entered(q, warn, quiet, i)
  <2>1. ASSUME HasText(out, warn, i) PROVE HasText(q, warn, i)
    <3>1. \E k \in DOMAIN q : q[k].of = i
      <4>1. PICK l \in 1 .. n : out[l].of = i
        BY <1>1, <2>1 DEF HasText
      <4>2. PICK k \in 1 .. n : p[k] = l
        BY <1>2
      <4> QED BY <1>2, <1>3, <4>1, <4>2
    <3>2. \A k \in DOMAIN q :
            q[k].of = i => q[k].text = TRUE /\ plan[i].start <= q[k].start /\ q[k].end <= plan[i].end
      <4> SUFFICES ASSUME NEW k \in 1 .. n, q[k].of = i
                   PROVE  q[k].text = TRUE /\ plan[i].start <= q[k].start /\ q[k].end <= plan[i].end
        BY <1>3
      <4>1. p[k] \in DOMAIN out /\ q[k] = out[p[k]]
        BY <1>1, <1>2, <1>3
      <4> QED BY <2>1, <4>1 DEF HasText
    <3> QED BY <2>1, <3>1, <3>2 DEF HasText
  <2>2. ASSUME HasEmpty(out, i) PROVE HasEmpty(q, i)
    <3>1. PICK l \in 1 .. n : /\ out[l] = Item(i, plan[i].start, plan[i].end, FALSE) /\ out[l].of = i
                              /\ \A j \in 1 .. n : out[j].of = i => j = l
      BY <1>1, <2>2 DEF HasEmpty
    <3>2. PICK k \in 1 .. n : p[k] = l
      BY <1>2
    <3>3. q[k] = out[l]
      BY <1>2, <3>2
    <3>4. ASSUME NEW j \in 1 .. n, q[j].of = i PROVE j = k
      <4>1. out[p[j]].of = i /\ p[j] \in 1 .. n
        BY <1>2, <1>3, <3>4
      <4>2. p[j] = p[k]
        BY <3>1, <3>2, <4>1
      <4> QED BY <1>2, <4>2
    <3>5. /\ k \in DOMAIN q /\ q[k] = Item(i, plan[i].start, plan[i].end, FALSE) /\ q[k].of = i
          /\ \A j \in DOMAIN q : q[j].of = i => j = k
      <4>1. k \in DOMAIN q
        BY <1>3
      <4>2. q[k] = Item(i, plan[i].start, plan[i].end, FALSE) /\ q[k].of = i
        BY <3>1, <3>3
      <4>3. \A j \in DOMAIN q : q[j].of = i => j = k
        BY <1>3, <3>4
      <4> QED BY <4>1, <4>2, <4>3
    <3> HIDE DEF n
    <3> QED BY <3>5 DEF HasEmpty
  <2>3. Entered(out, warn, quiet, i)
    BY DEF Recorded
  <2> QED BY <2>1, <2>2, <2>3 DEF Entered, HasSilence, HasPlaceholder
<1> QED BY <1>1, <1>4, <1>5 DEF Recorded

LEMMA SortOutputAccount == ASSUME PlanInv, AccountInv, SortOutput PROVE AccountInv'
<1>1. /\ jobStage \in {"planned", "chunk"} /\ next > Len(plan) /\ jobStage' = "merge"
      /\ output' = Chronological(output) /\ turns' = <<>>
      /\ UNCHANGED <<device, total, plan, next, stack, good, warnings, blamed, silent>>
  BY DEF SortOutput
<1>2. Recorded(output, warnings, silent, next) /\ stack = <<>>
  BY <1>1 DEF AccountInv
<1>3. output \in Seq(Timed)
  <2>1. output \in Seq(Items(next)) /\ total \in Nat
    BY <1>2 DEF Recorded, PlanInv
  <2>2. Items(next) \subseteq Timed
    <3>1. 1 .. next - 1 \subseteq Nat /\ 0 .. total \subseteq Nat
      OBVIOUS
    <3> QED BY <3>1 DEF Items, Timed
  <2> QED BY <2>1, <2>2
<1>4. InTime(output')
  BY <1>1, <1>3, ChronologicalLemma
<1>5. PICK p : FirstOnes(p, output', output, Len(output))
  BY <1>1, <1>3, ChronologicalLemma
<1>6. Recorded(output', warnings, silent, next)
  BY <1>2, <1>5, RecordedInOrder
<1>7. Recorded(output, warnings, silent, next)'
  BY <1>1, <1>6, RecordedPrime
<1>8. Chunk' = Chunk /\ Indices(Chunk)' = Indices(Chunk)
  BY <1>1, ChunkKept
<1>9. (stack \in BatchesOf(Indices(Chunk)))' /\ (good \subseteq Indices(Chunk))'
  BY <1>1, <1>8 DEF AccountInv, BatchesOf
<1>10. /\ device' \in {"cpu", "gpu"} /\ total' \in Totals \cup {0} /\ turns' \in Seq(Bounds(total'))
       /\ blamed' \subseteq DOMAIN plan' /\ (device' = "cpu" => Indices(warnings') \subseteq blamed')
  <2>1. <<>> \in Seq(Bounds(total'))
    BY EmptySeq
  <2> QED BY <1>1, <2>1 DEF AccountInv
<1>11. InTime(output)'
  BY <1>4 DEF InTime
<1> QED BY <1>1, <1>2, <1>7, <1>9, <1>10, <1>11 DEF AccountInv

LEMMA AccountNext == PlanInv /\ BisectInv /\ AccountInv /\ [JobNext]_jobVars => AccountInv'
<1> SUFFICES ASSUME PlanInv, BisectInv, AccountInv, [JobNext]_jobVars PROVE AccountInv'
  OBVIOUS
<1>1. CASE JobRaises \/ OutcomeEndsJob \/ Export \/ UNCHANGED jobVars
  <2>1. /\ UNCHANGED <<device, total, turns, plan, next, stack, good, warnings, output, blamed, silent>>
        /\ \/ jobStage' \in {"raised"} \/ jobStage' = jobStage
           \/ jobStage' \in {"done", "merge"} /\ jobStage \in {"done", "merge"}
    BY <1>1 DEF JobRaises, OutcomeEndsJob, Export, jobVars
  <2> QED BY <2>1, AccountKept
<1> QED BY <1>1, DiarizeAccount, MakePlanAccount, TakeChunkAccount, BatchAnsweredAccount, BatchFailedAccount,
           SubmitAccount, OutcomeArrivesAccount, AssembleAccount, SortOutputAccount DEF JobNext

LEMMA AccountInit == JobInit => AccountInv
<1> SUFFICES ASSUME JobInit PROVE AccountInv
  OBVIOUS
<1>1. output = <<>> /\ warnings = <<>> /\ next = 1 /\ stack = <<>> /\ turns = <<>> /\ good = {} /\ blamed = {} /\ silent = {}
  BY DEF JobInit
<1>2. Recorded(output, warnings, silent, next)
  <2>1. \A x : x \notin 1 .. 1 - 1
    OBVIOUS
  <2> QED BY <1>1, <2>1 DEF Recorded
<1>3. stack \in BatchesOf(Indices(Chunk)) /\ turns \in Seq(Bounds(total)) /\ Indices(warnings) = {}
  BY <1>1 DEF BatchesOf, Indices
<1> QED BY <1>1, <1>2, <1>3 DEF JobInit, AccountInv

\* The records of a finished transcript are its segments.
LEMMA AccountedAtTheEnd == PlanInv /\ AccountInv => EverySegmentAccounted
<1> SUFFICES ASSUME PlanInv, AccountInv, jobStage = "done" PROVE EverySegmentAccounted
  BY DEF EverySegmentAccounted
<1>1. next - 1 = Len(plan) /\ DOMAIN plan = 1 .. next - 1
  <2>1. next > Len(plan) /\ next \in 1 .. Len(plan) + 1 /\ plan \in Seq(Spans(total))
    BY DEF PlanInv, AccountInv
  <2> QED BY <2>1
<1>2. Recorded(output, warnings, silent, next) /\ InTime(output)
  BY DEF AccountInv
<1> DEFINE mine(i) == {k \in DOMAIN output : output[k].of = i}
           warned(i) == {k \in DOMAIN warnings : warnings[k] = i}
           Empty(i) == \E k \in mine(i) : mine(i) = {k} /\ <<output[k]>> = Placeholder(i)
<1>3. ASSUME NEW i \in DOMAIN plan
      PROVE  \/ /\ i \notin silent /\ mine(i) # {} /\ warned(i) = {}
                /\ \A k \in mine(i) : output[k].text /\ plan[i].start <= output[k].start /\ output[k].end <= plan[i].end
             \/ i \in silent /\ Empty(i) /\ warned(i) = {}
             \/ i \notin silent /\ Empty(i) /\ \E k \in warned(i) : warned(i) = {k}
  <2>1. Entered(output, warnings, silent, i)
    BY <1>1, <1>2 DEF Recorded
  <2>2. ASSUME HasEmpty(output, i) PROVE Empty(i)
    <3>1. PICK k \in DOMAIN output : /\ output[k] = Item(i, plan[i].start, plan[i].end, FALSE) /\ output[k].of = i
                                     /\ \A l \in DOMAIN output : output[l].of = i => l = k
      BY <2>2 DEF HasEmpty
    <3>2. k \in mine(i) /\ mine(i) = {k}
      BY <3>1
    <3>3. <<output[k]>> = Placeholder(i)
      BY <3>1 DEF Placeholder
    <3> QED BY <3>2, <3>3
  <2>3. ASSUME HasPlaceholder(output, warnings, i) PROVE \E k \in warned(i) : warned(i) = {k}
    <3>1. PICK w \in DOMAIN warnings : warnings[w] = i /\ \A l \in DOMAIN warnings : warnings[l] = i => l = w
      BY <2>3 DEF HasPlaceholder
    <3>2. w \in warned(i) /\ warned(i) = {w}
      BY <3>1
    <3> QED BY <3>2
  <2>4. CASE i \in silent
    <3>1. HasSilence(output, warnings, i)
      BY <2>1, <2>4 DEF Entered
    <3> QED BY <2>2, <2>4, <3>1 DEF HasSilence
  <2>5. CASE i \notin silent /\ HasText(output, warnings, i)
    BY <2>5 DEF HasText
  <2>6. CASE i \notin silent /\ HasPlaceholder(output, warnings, i)
    <3>1. HasEmpty(output, i)
      BY <2>6 DEF HasPlaceholder
    <3> QED BY <2>2, <2>3, <2>6, <3>1
  <2> QED BY <2>1, <2>4, <2>5, <2>6 DEF Entered
<1>4. \A k \in 1 .. Len(output) - 1 : output[k].start <= output[k + 1].start
  <2>1. Len(output) \in Nat
    BY <1>2 DEF Recorded
  <2>2. \A k \in 1 .. Len(output) - 1 : k \in 1 .. Len(output) /\ k + 1 \in 1 .. Len(output) /\ k < k + 1
    BY <2>1
  <2> QED BY <1>2, <2>2 DEF InTime
<1>5. device = "cpu" => Indices(warnings) \subseteq blamed
  BY DEF AccountInv
<1> QED BY <1>3, <1>4, <1>5 DEF EverySegmentAccounted

LEMMA AccountTypes == PlanInv /\ BisectInv /\ AccountInv => JobTypeOK
<1> SUFFICES ASSUME PlanInv, BisectInv, AccountInv PROVE JobTypeOK
  OBVIOUS
<1>1. total \in Nat /\ Indices(Chunk) \subseteq DOMAIN plan /\ next \in 1 .. Len(plan) + 1
  BY ChunkRange DEF PlanInv
<1>2. ASSUME NEW t \in Bounds(total) PROVE t.speaker \in Speakers /\ t.start \in 0 .. total /\ t.end \in 0 .. total
  BY <1>1 DEF Bounds
<1>3. \A i \in DOMAIN turns : turns[i].speaker \in Speakers /\ turns[i].start \in 0 .. total /\ turns[i].end \in 0 .. total
  <2>1. \A i \in DOMAIN turns : turns[i] \in Bounds(total)
    BY DEF AccountInv
  <2> QED BY <1>2, <2>1
<1>4. \A i \in DOMAIN plan : plan[i].speaker \in Speakers /\ plan[i].start \in 0 .. total /\ plan[i].end \in 0 .. total
  <2>1. \A i \in DOMAIN plan : plan[i] \in Spans(total)
    BY DEF PlanInv
  <2>2. \A i \in DOMAIN plan : plan[i] \in Bounds(total)
    BY <2>1 DEF Spans
  <2> QED BY <1>2, <2>2
<1>5. \A k \in DOMAIN stack : stack[k] # <<>> /\ Indices(stack[k]) \subseteq Indices(Chunk)
  <2>1. \A k \in DOMAIN stack : stack[k] \in Seq(Indices(Chunk)) \ {<<>>}
    BY DEF AccountInv, BatchesOf
  <2>2. \A s \in Seq(Indices(Chunk)) : \A k \in DOMAIN s : s[k] \in Indices(Chunk)
    BY ElementOfSeq
  <2>3. ASSUME NEW k \in DOMAIN stack PROVE \A l \in DOMAIN stack[k] : stack[k][l] \in Indices(Chunk)
    BY <2>1, <2>2
  <2>4. ASSUME NEW k \in DOMAIN stack PROVE Indices(stack[k]) \subseteq Indices(Chunk)
    <3> SUFFICES ASSUME NEW l \in DOMAIN stack[k] PROVE stack[k][l] \in Indices(Chunk)
      BY DEF Indices
    <3> QED BY <2>3
  <2> QED BY <2>1, <2>4
<1>6. /\ \A k \in DOMAIN warnings : warnings[k] \in 1 .. next - 1
      /\ \A k \in DOMAIN output : output[k] \in Items(next)
  <2>1. Recorded(output, warnings, silent, next)
    BY DEF AccountInv
  <2>2. output \in Seq(Items(next)) /\ warnings \in Seq(1 .. next - 1)
    BY <2>1 DEF Recorded
  <2>3. \A k \in DOMAIN warnings : warnings[k] \in 1 .. next - 1
    <3> DEFINE S == 1 .. next - 1
    <3>1. warnings \in Seq(S)
      BY <2>2
    <3> HIDE DEF S
    <3>2. \A k \in DOMAIN warnings : warnings[k] \in S
      BY <3>1
    <3> QED BY <3>2 DEF S
  <2>4. \A k \in DOMAIN output : output[k] \in Items(next)
    BY <2>2, ElementOfSeq
  <2> QED BY <2>3, <2>4
<1>7. 1 .. next - 1 \subseteq DOMAIN plan
  BY <1>1 DEF PlanInv
<1>8. Indices(warnings) \subseteq DOMAIN plan
  BY <1>6, <1>7 DEF Indices
<1>9. \A k \in DOMAIN output :
        /\ output[k].of \in DOMAIN plan /\ output[k].text \in BOOLEAN
        /\ output[k].start \in 0 .. total /\ output[k].end \in 0 .. total
  BY <1>6, <1>7 DEF Items
<1>10. good \subseteq DOMAIN plan /\ blamed \subseteq DOMAIN plan /\ silent \subseteq DOMAIN plan /\ modelCalls \in Nat
  BY <1>1, <1>7 DEF AccountInv, BisectInv
<1>11. /\ jobStage \in {"new", "diarized", "planned", "chunk", "cpu", "submit", "gpu",
                        "assemble", "merge", "done", "raised"}
       /\ device \in {"cpu", "gpu"} /\ total \in Totals \cup {0}
  BY DEF AccountInv
<1> QED BY <1>1, <1>3, <1>4, <1>5, <1>8, <1>9, <1>10, <1>11 DEF JobTypeOK

\* Whatever batches fail, answers are null or empty, futures are lost or
\* segments have no audio, for every length of recording, plan and batch size:
\* a finished transcript has, for each segment of the plan, its text inside its
\* bounds and no warning, an empty text and no warning where the model answered
\* with none, or an empty placeholder and one warning where there is no answer,
\* in the order of the recording; and on the CPU no segment is given up for the
\* failure of another.
THEOREM TranscriptAccountsForEverySegment == JobSpec => [](JobTypeOK /\ EverySegmentAccounted)
<1>1. JobInit => BisectInv
  BY DEF JobInit, BisectInv
<1>2. PlanInv /\ BisectInv /\ AccountInv => JobTypeOK /\ EverySegmentAccounted
  BY AccountedAtTheEnd, AccountTypes
<1> QED BY <1>1, <1>2, PlanInit, PlanNext, BisectNext, AccountInit, AccountNext, PTL DEF JobSpec
=============================================================================
