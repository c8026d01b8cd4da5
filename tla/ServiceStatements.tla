------------------------- MODULE ServiceStatements -------------------------
(***************************************************************************)
(* What is demanded of an object that a service signed (packages/verifier: *)
(* service-statements.ts and transparency-auth.ts): the receipts and the   *)
(* status statements of the registry, and the checkpoints, the manifests   *)
(* and the inclusion proofs of the transparency log.                       *)
(*                                                                         *)
(* A key set is a set of key identifiers: the schema refuses one that      *)
(* lists an identifier twice. The caller says what it expects as a record  *)
(* that need not have every field; a field it leaves out is not compared.  *)
(***************************************************************************)
EXTENDS Verifier

\* The object names the key it was signed with.
ServiceSignature(object, keyset) == << Check(object.kid \notin keyset, "KEY_NOT_FOUND") >>

Differences(object, expected, fields) ==
  [i \in DOMAIN fields |->
     LET field == fields[i][1] IN
     Check(field \in DOMAIN expected /\ object[field] # expected[field], fields[i][2])]

-----------------------------------------------------------------------------
(* Receipts and status statements *)

RegistryReceipt(receipt, keyset, expected) ==
  Verdict(ServiceSignature(receipt, keyset)
          \o Differences(receipt, expected,
               << <<"type", "WRONG_EVENT_TYPE">>, <<"sequence", "SEQUENCE_CONFLICT">> >>))

DeviceRegistryReceipt(receipt, keyset, expected) ==
  Verdict(ServiceSignature(receipt, keyset)
          \o Differences(receipt, expected,
               << <<"operationId", "WRONG_OPERATION">>, <<"type", "WRONG_EVENT_TYPE">>,
                  <<"sequence", "SEQUENCE_CONFLICT">>, <<"device", "WRONG_DEVICE">>,
                  <<"auth", "WRONG_AUTHORIZATION">>, <<"expires", "WRONG_AUTHORIZATION">>,
                  <<"acceptedAt", "WRONG_STATE">>, <<"revokedBy", "WRONG_STATE">> >>))

\* The clock skew that is granted to the issue time does not extend a statement.
StatementWindow(s, e) == <<
  Check(s.iat > e.now + e.skew, "PROOF_NOT_YET_VALID"),
  Check(e.now > s.exp,          "PROOF_EXPIRED") >>

StatusStatement(s, keyset, e) == Verdict(ServiceSignature(s, keyset) \o StatementWindow(s, e))

DeviceStatusStatement(s, keyset, e, expected) ==
  Verdict(ServiceSignature(s, keyset) \o StatementWindow(s, e)
          \o << Check(s.state = "active" /\ e.now >= s.expires, "DEVICE_EXPIRED") >>
          \o Differences(s, expected,
               << <<"device", "WRONG_DEVICE">>, <<"auth", "WRONG_AUTHORIZATION">>,
                  <<"state", "WRONG_STATE">>, <<"expires", "WRONG_AUTHORIZATION">> >>))

-----------------------------------------------------------------------------
(* The transparency log *)

Freshness(at, e) == <<
  Check(at > e.now + e.skew,             "PROOF_NOT_YET_VALID"),
  Check(e.now > at + e.maxAge + e.skew,  "PROOF_EXPIRED") >>

TransparencyCheckpoint(c, keyset, e, expected) ==
  Verdict(ServiceSignature(c, keyset) \o Freshness(c.at, e)
          \o Differences(c, expected,
               << <<"kid", "KEY_NOT_FOUND">>, <<"shard", "WRONG_SHARD">>,
                  <<"size", "WRONG_TREE_SIZE">>, <<"root", "WRONG_ROOT">> >>))

\* The shards of a manifest are compared one by one when the caller has them.
GlobalCheckpoint(m, keyset, e, expected) ==
  Verdict(ServiceSignature(m, keyset) \o Freshness(m.at, e)
          \o Differences(m, expected, << <<"kid", "KEY_NOT_FOUND">>, <<"shards", "WRONG_MANIFEST">> >>))

\* The proof is about the event and the shard it was asked for, its checkpoint
\* is authentic, and its path leads to that checkpoint's root.
AuthenticatedInclusion(p, keyset, e, expected, pathLeadsToRoot) ==
  LET asked == Verdict(<< Check(p.event # expected.event, "WRONG_EVENT_HASH"),
                          Check(p.shard # expected.shard, "WRONG_SHARD") >>)
      checkpoint == TransparencyCheckpoint(p.checkpoint, keyset, e, expected) IN
  IF asked # "OK" THEN asked
  ELSE IF checkpoint # "OK" THEN checkpoint
  ELSE IF ~pathLeadsToRoot THEN "INVALID_INCLUSION_PROOF" ELSE "OK"
=============================================================================
