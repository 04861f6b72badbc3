-------------------------- MODULE MCLoggingContext --------------------------
(***************************************************************************)
(* Model-checking instances of LoggingContext.                              *)
(***************************************************************************)
EXTENDS LoggingContext, TLC

CONSTANTS main, t1, t2, a, b, r1, r2

LoggingSymmetry == Permutations({t1, t2}) \cup Permutations(Requests)
=============================================================================
