----------------------------- MODULE MCDemoRun -----------------------------
(***************************************************************************)
(* Model-checking instances of DemoRun.                                     *)
(***************************************************************************)
EXTENDS DemoRun

CONSTANTS r1, r2
=============================================================================
