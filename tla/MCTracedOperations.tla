------------------------ MODULE MCTracedOperations ------------------------
(***************************************************************************)
(* Model-checking instances of TracedOperations: `call` is an awaited       *)
(* client call, `send` a client stream, `serve` a handler's stream, and     *)
(* `plain` a handler's stream whose iterator has no aclose().               *)
(***************************************************************************)
EXTENDS TracedOperations, TLC

CONSTANTS call, send, serve, plain, t1, t2, t3, remote

TaskSymmetry == Permutations(Tasks)
=============================================================================
