----------------------- MODULE MCGovernanceDelivery -----------------------
(***************************************************************************)
(* Model-checking instances of GovernanceDelivery: two deliveries of one    *)
(* envelope that share the workers.  Of the transient outcomes only the     *)
(* worker's exception occurs in them: Transient treats them all alike.      *)
(***************************************************************************)
EXTENDS GovernanceDelivery

CONSTANTS d1, d2, v1
=============================================================================
