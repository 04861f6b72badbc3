------------------------- MODULE MCTracePropagation -------------------------
(***************************************************************************)
(* Model-checking instances of TracePropagation: one A2A call whose caller  *)
(* left an older pair or nothing in its service parameters, and one MCP     *)
(* request sent twice.                                                      *)
(***************************************************************************)
EXTENDS TracePropagation, TLC

CONSTANTS k1, r1, s1, s2, w1, w2

MCAppSpans == {s1, s2} \cup CallSpans

MCDeployments == {{}, {"caller", "handler"}}

MCAmbient == {NoContext, [span |-> s1, state |-> w1]}

MCStale == {NoContext, [span |-> s2, state |-> w2]}
=============================================================================
