----------------------------- MODULE MCClient -----------------------------
(***************************************************************************)
(* TLC instances of RuntimeClient.                                         *)
(***************************************************************************)
EXTENDS RuntimeClient
=============================================================================
