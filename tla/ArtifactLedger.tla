-------------------------- MODULE ArtifactLedger --------------------------
(***************************************************************************)
(* workflow/supervisor.py with registry.py and output_layout.py: the files *)
(* of one workflow and the artifacts that its row says they are.           *)
(*                                                                         *)
(* A file is put in place before the row that names it is committed, by    *)
(* one task without suspending (WorkflowSupervisor), so nothing but an     *)
(* error or the death of the process comes in between.  Revisions are      *)
(* accepted in every status, also while a model or provider call is out.   *)
(* The files of a workflow carry its id, so those of another never are in  *)
(* the way, and an operation that was recorded is answered without being   *)
(* done again: neither appears here.  The number of an artifact is its     *)
(* position, its bytes are the number of the write that made them.         *)
(***************************************************************************)
EXTENDS Naturals, Sequences, FiniteSets, FiniteSetsExt

CONSTANTS
  Unmade,   \* no bytes, no artifact
  MaxRuns,  \* bounds the attempts
  MaxFiles  \* bounds the files put in place

ASSUME LedgerAssumption == MaxRuns \in Nat \ {0} /\ MaxFiles \in Nat /\ Unmade \notin Nat

VARIABLES
  phase,   \* of the run: "none", "copying" the transcript of a resummarize,
           \* "transcribing" and "summarizing" with a call out, "final" before the
           \* final file; and of the row: "ended" (completed, failed or interrupted),
           \* "cancelled", "cleared"
  wanted,  \* recovery.input_artifact_id, or 0
  input,   \* the transcript of the run
  ledger,  \* the artifacts of the row
  files,   \* what is in the file of a kind and a revision
  unsaved, \* the artifact whose file is in place and whose row is not committed
  staged,  \* whether there is an edit in the staging directory
  made,    \* files made so far
  runs     \* attempts so far

ledgerVars == <<phase, wanted, input, ledger, files, unsaved, staged, made, runs>>

Summaries == {"checkpoint", "final"}
ArtifactKinds == {"transcript"} \cup Summaries

-----------------------------------------------------------------------------
(* Revisions and staleness. *)

OfKind(kind) == {i \in DOMAIN ledger : ledger[i].kind = kind}
Fresh(kind) == {i \in OfKind(kind) : ~ledger[i].stale}

\* Mutated form: stale artifacts do not count.
NextRevisionOfFresh(kind) == Max({ledger[i].revision : i \in Fresh(kind)} \cup {0}) + 1

NextRevision(kind) == Max({ledger[i].revision : i \in OfKind(kind)} \cup {0}) + 1

\* Transcripts never become stale, and revisions grow with positions.
NewestTranscript == Max(OfKind("transcript") \cup {0})

\* What a new artifact makes stale: a generated transcript every summary, a
\* generated summary those of its kind with an input in common, an edited
\* transcript the summaries made from the one it is an edit of.
Outdates(new, old) ==
  \/ new.kind = "transcript" /\ new.edits = 0 /\ old.kind \in Summaries
  \/ new.kind \in Summaries /\ new.edits = 0 /\ old.kind = new.kind /\ new.inputs \cap old.inputs # {}
  \/ new.kind = "transcript" /\ new.edits \in old.inputs  \* no input is 0

\* The file is written beside its place, or staged, and moved there.
PutInPlace(kind, inputs, edits) ==
  LET revision == NextRevision(kind) IN
  /\ made < MaxFiles
  /\ made' = made + 1
  /\ files' = [files EXCEPT ![<<kind, revision>>] = made']
  /\ unsaved' = [kind |-> kind, revision |-> revision, inputs |-> inputs, edits |-> edits,
                 stale |-> FALSE, bytes |-> made']

\* Every task waits.
Suspended == phase \in {"transcribing", "summarizing", "ended", "cancelled"} /\ unsaved = Unmade

-----------------------------------------------------------------------------
(* Runs. *)

SubmitNew ==
  /\ phase = "none"
  /\ phase' \in {"transcribing", "copying"}
  /\ runs' = runs + 1
  /\ UNCHANGED <<wanted, input, ledger, files, unsaved, staged, made>>

\* workflow.retry from a stage, with or without a transcript it names, up to
\* the first call.
RetryFrom(stage, t) ==
  LET chosen == IF t = 0 THEN NewestTranscript ELSE t IN
  /\ phase = "ended" /\ unsaved = Unmade /\ runs < MaxRuns
  /\ runs' = runs + 1
  /\ wanted' = t
  /\ \/ stage = "transcribing" /\ phase' = stage /\ input' = 0
     \/ stage = "summarizing" /\ chosen # 0 /\ phase' = stage /\ input' = chosen
     \/ /\ stage = "final" /\ chosen # 0 /\ Fresh("checkpoint") \cup Fresh("final") # {}
        /\ phase' = stage /\ input' = chosen
     \/ phase' = "ended" /\ UNCHANGED input
  /\ UNCHANGED <<ledger, files, unsaved, staged, made>>

\* _add_artifact up to the commit.
Generate ==
  /\ unsaved = Unmade
  /\ \/ phase \in {"transcribing", "copying"} /\ PutInPlace("transcript", {}, 0)
     \/ phase = "summarizing" /\ PutInPlace("checkpoint", {input}, 0)
     \/ phase = "final" /\ PutInPlace("final", ({input} \cup {Max(Fresh("checkpoint") \cup {0})}) \ {0}, 0)
  /\ UNCHANGED <<phase, wanted, input, ledger, staged, runs>>

\* The commit, and the run goes on to its next call or ends, which removes
\* the staging directory.
Save ==
  /\ unsaved # Unmade
  /\ ledger' = Append([i \in DOMAIN ledger |->
                         [ledger[i] EXCEPT !.stale = @ \/ Outdates(unsaved, ledger[i])]], unsaved)
  /\ unsaved' = Unmade
  /\ IF unsaved.edits # 0 THEN UNCHANGED <<phase, input, staged>>
     ELSE \/ /\ unsaved.kind = "transcript" /\ phase' = "summarizing"
             /\ input' = IF wanted # 0 THEN wanted ELSE Len(ledger')
             /\ UNCHANGED staged
          \/ unsaved.kind = "checkpoint" /\ phase' = "final" /\ UNCHANGED <<input, staged>>
          \/ unsaved.kind = "final" /\ phase' = "ended" /\ staged' = FALSE /\ UNCHANGED input
  /\ UNCHANGED <<wanted, files, made, runs>>

\* A call, a file operation or the commit raises, or the run is cancelled.
RunStops ==
  /\ phase \in {"transcribing", "summarizing", "final"}
  /\ unsaved # Unmade => unsaved.edits = 0
  /\ unsaved' = Unmade
  /\ \/ phase' = "ended" /\ UNCHANGED staged
     \/ phase' = "cancelled" /\ unsaved = Unmade /\ phase # "final" /\ staged' = FALSE
  /\ UNCHANGED <<wanted, input, ledger, files, made, runs>>

\* The commit of an edit raises.
EditStops ==
  /\ unsaved # Unmade /\ unsaved.edits # 0
  /\ unsaved' = Unmade
  /\ UNCHANGED <<phase, wanted, input, ledger, files, staged, made, runs>>

\* The process dies.  The next one finds the row interrupted; a resummarize
\* that was not recorded, or that raised, is forgotten, and its file remains.
Dies ==
  /\ phase \in {"copying", "transcribing", "summarizing", "final"} \/ unsaved # Unmade
  /\ unsaved' = Unmade
  /\ phase' = IF phase = "copying" THEN "cleared" ELSE IF phase = "cancelled" THEN phase ELSE "ended"
  /\ UNCHANGED <<wanted, input, ledger, files, staged, made, runs>>

-----------------------------------------------------------------------------
(* The user. *)

\* The desktop writes an edit into the staging directory.
StageEdit ==
  /\ Suspended /\ ~staged
  /\ staged' = TRUE
  /\ UNCHANGED <<phase, wanted, input, ledger, files, unsaved, made, runs>>

\* artifact.register_revision of artifact i, up to the commit: the staged file
\* is moved, so that a process that dies here leaves nothing to register.
RegisterRevision(i) ==
  /\ Suspended /\ staged
  /\ i \in OfKind("transcript") \cup OfKind("final")
  /\ PutInPlace(ledger[i].kind, ledger[i].inputs, i)
  /\ staged' = FALSE
  /\ UNCHANGED <<phase, wanted, input, ledger, runs>>

\* workflow.clear: the rows go, the files stay.
ClearRow ==
  /\ phase \in {"ended", "cancelled"} /\ unsaved = Unmade
  /\ phase' = "cleared"
  /\ ledger' = <<>>
  /\ UNCHANGED <<wanted, input, files, unsaved, staged, made, runs>>

-----------------------------------------------------------------------------
LedgerInit ==
  /\ phase = "none" /\ wanted = 0 /\ input = 0
  /\ ledger = <<>>
  /\ files = [f \in ArtifactKinds \X (1 .. MaxFiles) |-> Unmade]
  /\ unsaved = Unmade /\ staged = FALSE /\ made = 0 /\ runs = 0

LedgerNext ==
  \/ SubmitNew \/ Generate \/ Save \/ RunStops \/ EditStops \/ Dies
  \/ \E stage \in {"transcribing", "summarizing", "final"}, t \in OfKind("transcript") \cup {0} :
       RetryFrom(stage, t)
  \/ StageEdit \/ ClearRow
  \/ \E i \in DOMAIN ledger : RegisterRevision(i)

LedgerSpec == LedgerInit /\ [][LedgerNext]_ledgerVars

-----------------------------------------------------------------------------
(* Properties. *)

Artifact ==
  [kind : ArtifactKinds, revision : 1 .. MaxFiles, inputs : SUBSET (1 .. MaxFiles),
   edits : 0 .. MaxFiles, stale : BOOLEAN, bytes : 1 .. MaxFiles]

LedgerTypeOK ==
  /\ phase \in {"none", "copying", "transcribing", "summarizing", "final", "ended", "cancelled", "cleared"}
  /\ wanted \in 0 .. Len(ledger) \/ phase = "cleared"
  /\ input \in 0 .. Len(ledger) \/ phase = "cleared"
  /\ \A i \in DOMAIN ledger : ledger[i] \in Artifact
  /\ files \in [ArtifactKinds \X (1 .. MaxFiles) -> 1 .. MaxFiles \cup {Unmade}]
  /\ unsaved \in Artifact \cup {Unmade}
  /\ staged \in BOOLEAN /\ made \in 0 .. MaxFiles /\ runs \in 0 .. MaxRuns

\* A committed artifact is never overwritten: its file holds the bytes it was
\* committed with, whatever ran, was edited, failed or died since.
CommittedFilesIntact ==
  \A i \in DOMAIN ledger : files[<<ledger[i].kind, ledger[i].revision>>] = ledger[i].bytes

\* A summary that is not stale was not made from a transcript that has been
\* edited, or done again, after it was committed.
StaleFollowsEdits ==
  \A i \in DOMAIN ledger : \A later \in i + 1 .. Len(ledger) :
    ledger[i].kind \in Summaries /\ ~ledger[i].stale /\ ledger[later].kind = "transcript" =>
      ledger[later].edits \notin ledger[i].inputs \cup {0}

\* What the row says of the files is true, and current.
LedgerSound == CommittedFilesIntact /\ StaleFollowsEdits
=============================================================================
