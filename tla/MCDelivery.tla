----------------------------- MODULE MCDelivery -----------------------------
(***************************************************************************)
(* Small instances of the two halves of the delivery of events, on either  *)
(* side of the queues, one for each scenario:                              *)
(*                                                                         *)
(*   outbox     two events of a subject, created in the same second so     *)
(*              that either may be sent first, and two kicks               *)
(*              (IdentityOutbox);                                          *)
(*   projector  two consumers of the events of a revoked identity whose    *)
(*              ledger has the activation and revocation of one device and *)
(*              a tombstone of another (Projector).                        *)
(*                                                                         *)
(* The other half stays in its initial state, in which nothing fair can be *)
(* done; what comes from outside (requests, deliveries) is fair only in    *)
(* the premises of VisitedIsPublished and ProjectionConverges.             *)
(***************************************************************************)
EXTENDS IdentityOutbox, Projector

CONSTANTS e1, e2, k1, k2, w1, w2, d1, d2, a1

VARIABLE scenario

MCEvents == {e1, e2}
MCKicks == {k1, k2}
MCCreated == [e \in MCEvents |-> 0]

MCConsumers == {w1, w2}
MCDevices == {d1, d2}
MCAuths == {a1}

Event(type, d, a) == [type |-> type, device |-> d, auth |-> a]

MCLedger ==
  <<Event("activated", d1, a1), Event("revoked", d2, NULL), Event("revoked", d1, a1)>>

(***************************************************************************)
(* Bounds the repeated deliveries: a message that is already acknowledged  *)
(* is applied beside another message only before any failure, and one such *)
(* message at a time.  Alone, or beside a copy of itself, it comes at any  *)
(* time.  Only deliveries wait for it: a consumer that goes on or fails    *)
(* never leaves two different messages in work that were not so before.    *)
(***************************************************************************)
RepeatsAreFew ==
  LET repeated == {c \in Consumers : work'[c].message \in acked'}
      messages == {work'[c].message : c \in Consumers} \ {NULL} IN
  repeated # {} /\ Cardinality(messages) > 1 => failures' = 0 /\ Cardinality(repeated) = 1

MCInit == OutboxInit /\ Init /\ scenario \in {"outbox", "projector"}

MCNext ==
  \/ scenario = "outbox" /\ OutboxNext /\ UNCHANGED <<vars, scenario>>
  \/ scenario = "projector" /\ Next /\ UNCHANGED <<outboxVars, scenario>> /\ RepeatsAreFew

MCFairSpec ==
  /\ MCInit
  /\ [][MCNext]_<<outboxVars, vars, scenario>>
  /\ OutboxFairness
  /\ Fairness
=============================================================================
