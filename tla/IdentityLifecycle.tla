------------------------- MODULE IdentityLifecycle -------------------------
(***************************************************************************)
(* What the registry promises for one subject, and nothing about how: the  *)
(* lifecycle of the identity and of the device keys below it.  An identity *)
(* is registered once and revoked once; a device key is activated at most  *)
(* once, and once revoked (even before it was ever seen) it stays revoked; *)
(* after the identity is revoked nothing below it changes.                 *)
(*                                                                         *)
(*   none --register--> active --revoke--> revoked (terminal)              *)
(*   absent --activate--> active --revoke--> revoked (terminal)            *)
(*   absent --revoke--> revoked (a tombstone: never activated)             *)
(***************************************************************************)
CONSTANT Devices    \* the device identifiers bound to the subject

VARIABLES
  lifecycle,        \* the state of the identity
  deviceLifecycle   \* the state of each device key

vars == <<lifecycle, deviceLifecycle>>

Init ==
  /\ lifecycle = "none"
  /\ deviceLifecycle = [d \in Devices |-> "absent"]

RegisterIdentity ==
  /\ lifecycle = "none"
  /\ lifecycle' = "active"
  /\ UNCHANGED deviceLifecycle

RevokeIdentity ==
  /\ lifecycle = "active"
  /\ lifecycle' = "revoked"
  /\ UNCHANGED deviceLifecycle

ActivateDevice(d) ==
  /\ lifecycle = "active"
  /\ deviceLifecycle[d] = "absent"
  /\ deviceLifecycle' = [deviceLifecycle EXCEPT ![d] = "active"]
  /\ UNCHANGED lifecycle

RevokeDevice(d) ==
  /\ lifecycle = "active"
  /\ deviceLifecycle[d] # "revoked"
  /\ deviceLifecycle' = [deviceLifecycle EXCEPT ![d] = "revoked"]
  /\ UNCHANGED lifecycle

Next ==
  \/ RegisterIdentity
  \/ RevokeIdentity
  \/ \E d \in Devices : ActivateDevice(d) \/ RevokeDevice(d)

Spec == Init /\ [][Next]_vars
============================================================================
