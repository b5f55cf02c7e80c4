--------------------------- MODULE MCDispatcher ---------------------------
(***************************************************************************)
(* TLC instances of GpuBatchDispatcher.                                    *)
(***************************************************************************)
EXTENDS GpuBatchDispatcher

\* Seconds: two recordings of a common and a longer segment, of which two of
\* the longer do not fit a batch, and one that is over the budgets.
MixedDuration == [a |-> <<4, 5>>, b |-> <<4, 12>>]

MixedAttempts == [a |-> 2, b |-> 1]

\* Three recordings with segments in three length buckets.
ApartDuration == [a |-> <<4>>, b |-> <<9>>, c |-> <<14>>]

ApartAttempts == [a |-> 1, b |-> 1, c |-> 1]
=============================================================================
