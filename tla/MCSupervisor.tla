--------------------------- MODULE MCSupervisor ---------------------------
(***************************************************************************)
(* TLC instances of WorkflowSupervisor.                                    *)
(***************************************************************************)
EXTENDS WorkflowSupervisor, TLC

\* The worker tasks run the same loop on the same queue.
WorkerSymmetry == Permutations(Workers)
=============================================================================
