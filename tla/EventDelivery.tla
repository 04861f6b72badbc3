---------------------------- MODULE EventDelivery ----------------------------
(***************************************************************************)
(* What the governance sink promises to whoever delivers an event: a        *)
(* receipt means that the service has the event; any other end leaves open  *)
(* whether the service has it or will have it yet; and an event that was    *)
(* refused before anything was sent never gets there.                       *)
(***************************************************************************)
CONSTANTS
  Deliveries,
  Events

VARIABLES
  phase,     \* phase[d]: "idle", "open", "refused", "receipt" or "failed"
  event,     \* event[d]: what d delivers
  recorded   \* the events the service has

vars == <<phase, event, recorded>>

Init ==
  /\ phase = [d \in Deliveries |-> "idle"]
  /\ event \in [Deliveries -> Events]
  /\ recorded = {}

Open(d) ==
  /\ phase[d] = "idle"
  /\ phase' \in {[phase EXCEPT ![d] = p] : p \in {"open", "refused"}}
  /\ UNCHANGED <<event, recorded>>

\* The event of a delivery that was opened gets there, also after its end.
Record(d) ==
  /\ phase[d] \in {"open", "receipt", "failed"}
  /\ recorded' = recorded \cup {event[d]}
  /\ UNCHANGED <<phase, event>>

Conclude(d) ==
  /\ phase[d] = "open"
  /\ \/ /\ event[d] \in recorded
        /\ phase' = [phase EXCEPT ![d] = "receipt"]
     \/ phase' = [phase EXCEPT ![d] = "failed"]
  /\ UNCHANGED <<event, recorded>>

Next == \E d \in Deliveries : Open(d) \/ Record(d) \/ Conclude(d)

Spec == Init /\ [][Next]_vars
=============================================================================
