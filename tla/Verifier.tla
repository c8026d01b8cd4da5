----------------------------- MODULE Verifier -----------------------------
(***************************************************************************)
(* The checks of packages/verifier: what a relying party demands of an     *)
(* ownership proof. Every verifier is a list of checks made in order, and  *)
(* the first that fails names the error; "OK" stands for the value it      *)
(* returns. ServiceStatements has what is demanded of a service.           *)
(*                                                                         *)
(* A subject stands for its root key and a device for its own, so a        *)
(* signature is the name of its signer; the identifiers the code derives   *)
(* from keys and documents agree with them by construction.                *)
(***************************************************************************)
EXTENDS Integers, Sequences

CONSTANT MaxLifetime    \* MAX_SIGNED_OBJECT_LIFETIME_SECONDS

\* A check refuses with its error when the condition holds.
Check(refused, error) == IF refused THEN error ELSE "OK"

Verdict(checks) ==
  LET failing == {i \in DOMAIN checks : checks[i] # "OK"} IN
  IF failing = {} THEN "OK"
  ELSE checks[CHOOSE i \in failing : \A j \in failing : i <= j]

-----------------------------------------------------------------------------
(* Time windows *)

ExpiringWindow(p, e) == <<
  Check(p.exp - p.iat > MaxLifetime, "PROOF_LIFETIME_EXCEEDED"),
  Check(p.iat > e.now + e.skew,      "PROOF_NOT_YET_VALID"),
  Check(e.now > p.exp + e.skew,      "PROOF_EXPIRED") >>

\* An object with an issue time only is accepted up to a maximal age.
IssuedAtWindow(p, e, maxAge) == <<
  Check(p.iat > e.now + e.skew,           "PROOF_NOT_YET_VALID"),
  Check(e.now > p.iat + maxAge + e.skew,  "PROOF_EXPIRED") >>

-----------------------------------------------------------------------------
(* Ownership proofs *)

Purpose(p, e) == <<
  Check(p.audience # e.audience, "WRONG_AUDIENCE"),
  Check(p.action # e.action,     "WRONG_ACTION"),
  Check(p.resource # e.resource, "WRONG_RESOURCE"),
  Check(p.nonce # e.nonce,       "WRONG_NONCE") >>

ContextBinding(p, e) == << Check(p.context # e.context, "WRONG_CONTEXT") >>

OwnershipProof(p, e) ==
  Verdict(Purpose(p, e) \o ExpiringWindow(p, e)
          \o << Check(p.signedBy # p.subject, "INVALID_SIGNATURE") >>)

\* The chain from the root over the grant to the device, then the proof itself.
OwnershipProofV2(p, e) ==
  LET grant == p.grant IN
  Verdict(<<
    Check(grant.subject # p.subject,               "INVALID_SUBJECT"),
    Check(grant.device # p.device,                 "WRONG_DEVICE"),
    Check(grant.device = p.subject,                "INVALID_KEY"),
    Check(grant.signedBy # p.subject,              "INVALID_SIGNATURE"),
    Check(p.iat < grant.validFrom,                 "PROOF_NOT_YET_VALID"),
    Check(p.exp > grant.expiresAt,                 "DEVICE_EXPIRED"),
    Check(e.now < grant.validFrom - e.skew,        "PROOF_NOT_YET_VALID"),
    Check(e.now >= grant.expiresAt,                "DEVICE_EXPIRED") >>
    \o Purpose(p, e) \o ContextBinding(p, e) \o ExpiringWindow(p, e)
    \o << Check(p.signedBy # p.device,             "INVALID_SIGNATURE") >>)

\* The dispatcher: the caller names every protocol it accepts.
OwnershipProofAny(p, e, accepted) ==
  IF p.protocol \notin accepted THEN "UNSUPPORTED_PROTOCOL"
  ELSE IF p.protocol = "v2" THEN OwnershipProofV2(p, e)
  ELSE IF p.context # e.context THEN "WRONG_CONTEXT" ELSE OwnershipProof(p, e)
=============================================================================
