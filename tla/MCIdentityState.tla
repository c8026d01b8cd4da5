-------------------------- MODULE MCIdentityState --------------------------
(***************************************************************************)
(* Small instances of IdentityState: one subject, one or two devices, two  *)
(* authorizations, and a handful of signed operations, each of which may   *)
(* be sent any number of times. A behaviour keeps to the requests of one   *)
(* scenario, so that each can be followed far enough.                      *)
(***************************************************************************)
EXTENDS IdentityState, TLC

CONSTANTS c1, c2, d1, d2, a1, a2, g1, g2, o1, o2, o3, o4, p2, p3, p4, s3, s4

VARIABLE scenario

MCTwoCallers == {c1, c2}
MCGeneses == {g1, g2}
MCDevices == {d1, d2}
MCAuths == {a1, a2}
MCOperationIds == {o1, o2, o3, o4, p2, p3, p4, s3, s4}

MCValidFrom == [a \in MCAuths |-> 0]
MCDeadline == [a \in MCAuths |-> IF a = a1 THEN 1 ELSE 2]
MCExpiresAt == [a \in MCAuths |-> 2]

Operation(type, o, d, a, iat) ==
  [type |-> type, operationId |-> o, device |-> d, auth |-> a,
   iat |-> iat, exp |-> iat + 1, genuine |-> TRUE]

Revocation(type, expected, genuine) ==
  [type |-> type, expectedSequence |-> expected, issuedAt |-> 0, genuine |-> genuine]

Register(g) == [type |-> "register", genesis |-> g]

\* One identity and one device: two genesis documents that claim the subject,
\* both kinds of revocation, two authorizations for the device, its own
\* revocation and the root's.
MCRaceRequests ==
  {Register(g1), Register(g2), Revocation("revokeBySecret", 0, TRUE),
   Revocation("revokeBySignature", 0, TRUE),
   Operation("activate", o1, d1, a1, 0), Operation("activate", o2, d1, a2, 0),
   Operation("revokeSelf", o3, d1, a1, 1), Operation("revokeRoot", o4, d1, NULL, 0)}

\* Two devices, each with one authorization, that share the ledger.
MCLedgerRequests ==
  {Register(g1), Revocation("revokeBySecret", 0, TRUE),
   Operation("activate", o1, d1, a1, 0), Operation("activate", p2, d2, a2, 0),
   Operation("revokeRoot", p3, d1, NULL, 0), Operation("revokeSelf", p4, d2, a2, 1)}

\* What is refused whatever the state: forged, stale and early requests, a wrong
\* expected sequence.
MCRefused ==
  {Revocation("revokeBySecret", 1, TRUE), Revocation("revokeBySecret", 0, FALSE),
   [Revocation("revokeBySignature", 0, TRUE) EXCEPT !.issuedAt = 3],
   [Operation("revokeSelf", s4, d1, a2, 1) EXCEPT !.genuine = FALSE]}

\* Status reads, what they are about, and the requests that are refused.
MCStatusRequests ==
  MCRefused \cup
  {Register(g1), Revocation("revokeBySecret", 0, TRUE),
   Operation("activate", o1, d1, a1, 0),
   Operation("revokeRoot", s3, d1, NULL, 1),
   [type |-> "status"],
   [type |-> "deviceStatus", device |-> d1, auth |-> a1],
   [type |-> "deviceStatus", device |-> d1, auth |-> a2]}

MCRequests == MCRaceRequests \cup MCLedgerRequests \cup MCStatusRequests

ScenarioRequests ==
  CASE scenario = "races" -> MCRaceRequests
    [] scenario = "ledger" -> MCLedgerRequests
    [] scenario = "status" -> MCStatusRequests

MCInit == Init /\ scenario \in {"races", "ledger", "status"}

\* Of the requests to be refused one is in flight at a time.
MCNext ==
  /\ \/ \E c \in Callers, r \in ScenarioRequests : Arrive(c, r)
     \/ \E c \in Callers : Proceed(c)
     \/ Restart \/ Tick
  /\ \A c, other \in Callers : {call'[c].req, call'[other].req} \subseteq MCRefused => c = other
  /\ UNCHANGED scenario

MCSpec == MCInit /\ [][MCNext]_<<vars, scenario>>

Symmetry == Permutations(Callers)
=============================================================================
