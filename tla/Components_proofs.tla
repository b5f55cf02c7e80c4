------------------------- MODULE Components_proofs -------------------------
(***************************************************************************)
(* What MCComponents checks of the components side by side holds of them   *)
(* for all values of the constants: each behaviour of the composition is,  *)
(* for every component, one of that component's own specification, in      *)
(* which the steps of the others are stutters.                             *)
(***************************************************************************)
EXTENDS MCComponents, Adapters_proofs, Results_proofs, WorkflowStore_proofs

LEMMA LocalSteps == [ComponentsNext]_componentVars => [LocalNext]_localVars
BY DEF ComponentsNext, componentVars, StepLocal, StepCloud, StepSecret, StepJob, StepSum, StepLedger, StepStore, Part

LEMMA CloudSteps == [ComponentsNext]_componentVars => [CloudNext]_cloudVars
BY DEF ComponentsNext, componentVars, StepLocal, StepCloud, StepSecret, StepJob, StepSum, StepLedger, StepStore, Part

LEMMA SecretSteps == [ComponentsNext]_componentVars => [SecretNext]_secretVars
BY DEF ComponentsNext, componentVars, StepLocal, StepCloud, StepSecret, StepJob, StepSum, StepLedger, StepStore, Part

LEMMA JobSteps == [ComponentsNext]_componentVars => [JobNext]_jobVars
BY DEF ComponentsNext, componentVars, StepLocal, StepCloud, StepSecret, StepJob, StepSum, StepLedger, StepStore, Part

LEMMA SumSteps == [ComponentsNext]_componentVars => [SumNext]_sumVars
BY DEF ComponentsNext, componentVars, StepLocal, StepCloud, StepSecret, StepJob, StepSum, StepLedger, StepStore, Part

LEMMA LedgerSteps == [ComponentsNext]_componentVars => [LedgerNext]_ledgerVars
BY DEF ComponentsNext, componentVars, StepLocal, StepCloud, StepSecret, StepJob, StepSum, StepLedger, StepStore, Part

LEMMA StoreSteps == [ComponentsNext]_componentVars => [StoreNext]_storeVars
BY DEF ComponentsNext, componentVars, StepLocal, StepCloud, StepSecret, StepJob, StepSum, StepLedger, StepStore, Part

\* A run of the composition is a run of every component.
THEOREM ComponentsRunAlone ==
  ComponentsSpec => LocalSpec /\ CloudSpec /\ SecretSpec /\ JobSpec /\ SumSpec /\ LedgerSpec /\ StoreSpec
<1>1. ComponentsInit =>
        LocalInit /\ CloudInit /\ SecretInit /\ JobInit /\ SumInit /\ LedgerInit /\ StoreInit
  BY DEF ComponentsInit
<1> QED
  BY <1>1, LocalSteps, CloudSteps, SecretSteps, JobSteps, SumSteps, LedgerSteps, StoreSteps, PTL
  DEF ComponentsSpec, LocalSpec, CloudSpec, SecretSpec, JobSpec, SumSpec, LedgerSpec, StoreSpec

\* The variables of every component keep their types, for all constants.
THEOREM ComponentsTypesCorrect == ComponentsSpec => []ComponentsTypeOK
<1>1. LInv => LocalTypeOK
  BY DEF LInv
<1>2. LocalTypeOK /\ CloudTypeOK /\ SecretTypeOK /\ JobTypeOK /\ SumTypeOK /\ LedgerTypeOK /\ StoreTypeOK
        => ComponentsTypeOK
  BY DEF ComponentsTypeOK
<1> QED
  BY <1>1, <1>2, ComponentsRunAlone, LocalInvariant, CancelledGivesNoTranscript, SecretsDoNotLinger,
     TranscriptAccountsForEverySegment, PiecesCoverWholeText, LedgerIsSound, StoreTypesCorrect, PTL
=============================================================================
