-------------------------- MODULE OperationReports --------------------------
(***************************************************************************)
(* What traced operations promise to whoever reads their events: each is   *)
(* reported as started, then exactly once as completed or failed, and its   *)
(* caller is released only after that.  adapters/a2a.py and adapters/mcp.py *)
(* state this as their terminal-outcome policy.                             *)
(***************************************************************************)
CONSTANT Ops

VARIABLES
  report,    \* report[o]: what the events emitted for o amount to
  released   \* released[o]: the caller has got control back for good

vars == <<report, released>>

Reports == {"none", "started", "completed", "failed"}

Init ==
  /\ report = [o \in Ops |-> "none"]
  /\ released = [o \in Ops |-> FALSE]

Start(o) ==
  /\ report[o] = "none"
  /\ report' = [report EXCEPT ![o] = "started"]
  /\ UNCHANGED released

\* The operation ends; its caller may have to wait for the cleanup.
Settle(o, r) ==
  /\ report[o] = "started"
  /\ report' = [report EXCEPT ![o] = r]
  /\ released' \in {released, [released EXCEPT ![o] = TRUE]}

Release(o) ==
  /\ report[o] \in {"completed", "failed"}
  /\ ~released[o]
  /\ released' = [released EXCEPT ![o] = TRUE]
  /\ UNCHANGED report

Next ==
  \E o \in Ops :
    \/ Start(o)
    \/ \E r \in {"completed", "failed"} : Settle(o, r)
    \/ Release(o)

Spec == Init /\ [][Next]_vars
=============================================================================
