------------------------------ MODULE MC_Demo -------------------------------
(* Bounded instances of Demo for TLC.                                      *)
EXTENDS Demo

\* Two engine status codes, distinct from Success and RetryLater.
MCExistsCode  == -10
MCMissingCode == -11
=============================================================================
