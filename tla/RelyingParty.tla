---------------------------- MODULE RelyingParty ----------------------------
(***************************************************************************)
(* The relying party as it is deployed: either the service, a Worker with  *)
(* its Durable Object (ReferenceRp), or the development server in one      *)
(* process (LocalRp). Both serve the same operations to the same page; a   *)
(* deployment is one of them for good.                                     *)
(***************************************************************************)
EXTENDS LocalRp

VARIABLE deployment

rpVars == <<localVars, deployment>>

RpInit == LocalInit /\ deployment \in {"worker", "development"}

RpNext ==
  /\ \/ deployment = "worker" /\ Next /\ UNCHANGED chain
     \/ deployment = "development" /\ LocalNext
  /\ UNCHANGED deployment

RpSpec == RpInit /\ [][RpNext]_rpVars

-----------------------------------------------------------------------------
(* What only the service promises *)

\* The caps on challenges (MAX_OUTSTANDING_CHALLENGES, MAX_TOTAL_CHALLENGES):
\* the maps of the development server grow without one.
ServiceStoreIsBounded == deployment # "development" => ChallengeStoreIsBounded

\* The second look at the session, after the registry has answered
\* (#commitSessionOperation): the development server does not take it.
ServiceSessionsEnd == deployment # "development" => EndedSessionsHaveNoEffect
=============================================================================
