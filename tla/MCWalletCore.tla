---------------------------- MODULE MCWalletCore ----------------------------
(***************************************************************************)
(* Two tabs of one wallet. A behaviour has one of four scenarios, so that  *)
(* each can be followed far enough: "identities" creates, registers,       *)
(* revokes and disposes of a root in an empty wallet; with a registered    *)
(* root, "imports" imports one device twice and recovers, and "devices"    *)
(* activates, revokes and removes a device as well; in "sequence" every    *)
(* operation can follow every other, one at a time.                        *)
(***************************************************************************)
EXTENDS WalletCore

VARIABLE scenario

MCInit ==
  /\ Init
  /\ scenario \in IF ids = << >> THEN {"identities"} ELSE {"imports", "devices", "sequence"}

Roots == {n \in DOMAIN ids' : ids'[n] = "root"}
Busy  == {p \in Pages : op'[p] # Idle}

IdentitiesScenario ==
  /\ Cardinality(Roots) = 1 /\ faults' <= 1
  /\ now' = now /\ bundles' = bundles
  /\ \A p \in Busy : op'[p].step # "issue"

ImportsScenario ==
  /\ Roots = {1}
  /\ registry' = registry
  /\ \A p \in Busy : op'[p].step \notin {"revoke-status", "refresh", "activate-sign", "self-sign", "root-send"}

DevicesScenario ==
  /\ Roots = {1} /\ Len(ids') <= 2 /\ faults' <= 1
  /\ identities' = identities
  /\ \A p \in Busy : op'[p].step # "revoke-status"

SequenceScenario ==
  /\ Len(ids') <= 2 /\ faults' = 0
  /\ Cardinality(Busy) <= 1

Step ==
  /\ Next
  /\ CASE scenario = "identities" -> IdentitiesScenario
       [] scenario = "imports"    -> ImportsScenario
       [] scenario = "devices"    -> DevicesScenario
       [] scenario = "sequence"   -> SequenceScenario
  /\ UNCHANGED scenario

\* Nothing more has to happen once every tab is at rest. A tab that is not can
\* always go on.
Rest == (\A p \in Pages : Free(p)) /\ UNCHANGED <<vars, scenario>>

MCNext == Step \/ Rest

MCSpec == MCInit /\ [][MCNext]_<<vars, scenario>> /\ Fairness
=============================================================================
