--------------------------- MODULE MCComponents ---------------------------
(***************************************************************************)
(* TLC instance of the components that are modelled on their own.  They    *)
(* share no state, so each behaviour exercises one of them and leaves the  *)
(* variables of the others as they were.                                   *)
(***************************************************************************)
EXTENDS LocalTranscriber, CloudTranscriber, SecretBroker, TranscriptionJob,
        SummaryGenerator, ArtifactLedger, WorkflowStore

VARIABLE part  \* the component of the behaviour

Part(name, step) == part = name /\ step /\ UNCHANGED part

StepLocal(step) ==
  Part("local", step) /\ UNCHANGED <<cloudVars, secretVars, jobVars, sumVars, ledgerVars, storeVars>>
StepCloud(step) ==
  Part("cloud", step) /\ UNCHANGED <<localVars, secretVars, jobVars, sumVars, ledgerVars, storeVars>>
StepSecret(step) ==
  Part("secret", step) /\ UNCHANGED <<localVars, cloudVars, jobVars, sumVars, ledgerVars, storeVars>>
StepJob(step) ==
  Part("job", step) /\ UNCHANGED <<localVars, cloudVars, secretVars, sumVars, ledgerVars, storeVars>>
StepSum(step) ==
  Part("summary", step) /\ UNCHANGED <<localVars, cloudVars, secretVars, jobVars, ledgerVars, storeVars>>
StepLedger(step) ==
  Part("ledger", step) /\ UNCHANGED <<localVars, cloudVars, secretVars, jobVars, sumVars, storeVars>>
StepStore(step) ==
  Part("store", step) /\ UNCHANGED <<localVars, cloudVars, secretVars, jobVars, sumVars, ledgerVars>>

ComponentsInit ==
  /\ part \in {"local", "cloud", "secret", "job", "summary", "ledger", "store"}
  /\ LocalInit /\ CloudInit /\ SecretInit /\ JobInit /\ SumInit /\ LedgerInit /\ StoreInit

ComponentsNext ==
  \/ StepLocal(LocalNext)
  \/ StepCloud(CloudNext)
  \/ StepSecret(SecretNext)
  \/ StepJob(JobNext)
  \/ StepSum(SumNext)
  \/ StepLedger(LedgerNext)
  \/ StepStore(StoreNext)

componentVars == <<part, localVars, cloudVars, secretVars, jobVars, sumVars, ledgerVars, storeVars>>

\* The threads of the local transcriber run and their calls return.
ComponentsSpec ==
  /\ ComponentsInit /\ [][ComponentsNext]_componentVars
  /\ \A a \in LocalAttempt : WF_componentVars(StepLocal(NativeStep(a)))
  /\ \A c \in Closer : WF_componentVars(StepLocal(CloserStep(c)))

ComponentsTypeOK ==
  /\ LocalTypeOK /\ CloudTypeOK /\ SecretTypeOK /\ JobTypeOK
  /\ SumTypeOK /\ LedgerTypeOK /\ StoreTypeOK

-----------------------------------------------------------------------------
(* Inputs. *)

Turn == {t \in [speaker : Speakers, start : 0 .. 4, end : 1 .. 5] : t.start < t.end}

\* Any two turns, and three that do not overlap.
SomeTurns ==
  {{}} \cup {{t, u} : t, u \in Turn}
    \cup {ts \in {{t, u, v} : t, u, v \in Turn} :
            \A t, u \in ts : t = u \/ t.end <= u.start \/ u.end <= t.start}

\* Every transcript of up to three characters, and longer ones with and
\* without paragraph breaks where a chunk could end, one of them blank.
SomeTexts ==
  UNION {[1 .. n -> {"c", "l", "n"}] : n \in 0 .. 3}
    \cup {<<"c", "n", "n", "l", "l", "l", "l", "l">>, <<"n", "n", "c", "c", "n", "n">>,
          <<"c", "n", "c", "n", "n", "c", "c">>, <<"c", "n", "n", "n", "n", "l">>,
          [i \in 1 .. 14 |-> "n"]}

SomeReplies == {<<"c">>, <<"c", "n", "n", "c">>}
=============================================================================
