---------------------------- MODULE DeviceLedger ----------------------------
(***************************************************************************)
(* What the registry promises its readers about a subject's device ledger, *)
(* and what the projector relies on: the events, in order of sequence,     *)
(* with what the projection reads of each.                                 *)
(***************************************************************************)
EXTENDS Integers, Sequences

\* Events of the subject's devices.  An activation names its authorization, and
\* a device has at most one activation and one revocation, in that order.
IsLedger(log, devices, auths, none) ==
  /\ log \in Seq([type : {"activated", "revoked"}, device : devices, auth : auths \cup {none}])
  /\ \A n \in DOMAIN log : log[n].type = "activated" => log[n].auth # none
  /\ \A m, n \in DOMAIN log :
        m < n /\ log[m].device = log[n].device =>
          log[m].type = "activated" /\ log[n].type = "revoked"

\* What a ledger says of a device in the end.
StateAfter(log, d) ==
  IF \E n \in DOMAIN log : log[n].device = d /\ log[n].type = "revoked" THEN "revoked"
  ELSE IF \E n \in DOMAIN log : log[n].device = d THEN "active"
  ELSE "none"

\* What the projector reads of the events a registry recorded.
Delivered(events) ==
  [n \in DOMAIN events |-> [type |-> events[n].type, device |-> events[n].device,
                            auth |-> events[n].auth]]
=============================================================================
