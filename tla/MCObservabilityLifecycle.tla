---------------------- MODULE MCObservabilityLifecycle ----------------------
(***************************************************************************)
(* Model-checking instances of ObservabilityLifecycle.  Threads take turns  *)
(* to shut down i1 and i4, of which the latter may fail to, and race for    *)
(* i2, which records two spans.  i3 is disabled and records one.            *)
(***************************************************************************)
EXTENDS ObservabilityLifecycle, TLC

CONSTANTS t1, t2, i1, i2, i3, i4, s1, s2, s3

MCInstanceOf == s1 :> i2 @@ s2 :> i2 @@ s3 :> i3

LifecycleSymmetry == Permutations(Threads) \cup Permutations({s1, s2})
=============================================================================
