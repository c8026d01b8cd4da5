-------------------------- MODULE TransparencyAudit --------------------------
(***************************************************************************)
(* An auditor of the transparency log: the public endpoints of the service *)
(* (workers/transparency/src/index.ts, fetch, and keyset.ts) together with *)
(* the checks of packages/verifier (transparency-auth.ts).                 *)
(*                                                                         *)
(* The auditor reads the latest global manifest and keeps it when it       *)
(* verifies; then it asks for the inclusion of an event and holds the      *)
(* answer against the manifest.  Between reading and checking anything may *)
(* happen: trees grow, publications go on, the key is rotated, and the key *)
(* set in the auditor's HTTP cache may be older than what it is used for.  *)
(*                                                                         *)
(* An event is its shard and its place in the tree; TransparencyShard has  *)
(* the audit path and why it leads to the root of its checkpoint.          *)
(***************************************************************************)
EXTENDS GlobalManifest, ServiceStatements

CONSTANTS
  KeysetMaxAge,    \* max-age of the key set's response
  AuditMaxAge,     \* the age up to which the auditor believes a checkpoint
  AuditSkew        \* the clock skew it grants

ASSUME AuditAssumption == {KeysetMaxAge, AuditMaxAge, AuditSkew} \subseteq Nat

VARIABLES
  cached,    \* the key set in the auditor's cache, and when it was read
  pending,   \* what the auditor has read and not checked
  trusted,   \* the last manifest that it found right
  included,  \* the events that it found in the tree of a manifest
  refusal    \* the last object that it refused, and why

auditVars == <<cached, pending, trusted, included, refusal>>

Nothing == [what |-> "nothing"]

-----------------------------------------------------------------------------
(* The endpoints *)

\* TRANSPARENCY_PUBLIC_KEYSET_JSON: the current key and those before it.
Keyset(current) == 0 .. current

CacheIsFresh == cached # NULL /\ now <= cached.at + KeysetMaxAge

FetchKeyset ==
  /\ ~CacheIsFresh
  /\ cached' = [keys |-> Keyset(signerKid), at |-> now]
  /\ UNCHANGED <<manifestVars, pending, trusted, included, refusal>>

ReadManifest ==
  /\ pending = Nothing /\ globalPointer # NULL
  /\ pending' = [what |-> "manifest", object |-> globalPointer]
  /\ UNCHANGED <<manifestVars, cached, trusted, included, refusal>>

\* The proof is of the tree of this moment, which is stated along with it.
ProofOfInclusion(s, event) ==
  [event |-> event, shard |-> s,
   checkpoint |-> [shard |-> s, size |-> sizes[s], root |-> <<s, sizes[s]>>,
                   at |-> stated'[<<s, sizes[s]>>], kid |-> signerKid]]

ReadInclusion(s) ==
  /\ pending = Nothing /\ trusted # NULL
  /\ \E event \in 1 .. sizes[s] :
       /\ State(s, now)
       /\ pending' = [what |-> "proof", object |-> ProofOfInclusion(s, event), of |-> event]
  /\ UNCHANGED <<sizes, bucket, run, cached, trusted, included, refusal>>

-----------------------------------------------------------------------------
(* The checks *)

Environment == [now |-> now, maxAge |-> AuditMaxAge, skew |-> AuditSkew]

Judged(object, code) ==
  /\ pending' = Nothing
  /\ refusal' = IF code = "OK" THEN Nothing
                ELSE [what |-> pending.what, object |-> object, code |-> code, at |-> now,
                      keys |-> cached.keys, trusted |-> trusted]

CheckManifest ==
  /\ pending.what = "manifest" /\ CacheIsFresh
  /\ LET m    == pending.object
         code == GlobalCheckpoint(m, cached.keys, Environment, << >>) IN
     /\ Judged(m, code)
     /\ trusted' = IF code = "OK" THEN m ELSE trusted
  /\ UNCHANGED <<manifestVars, cached, included>>

CheckInclusion ==
  /\ pending.what = "proof" /\ CacheIsFresh
  /\ LET p == pending.object
         s == p.shard
         expected == [event |-> pending.of, shard |-> s, size |-> trusted.sizes[s],
                      root |-> <<s, trusted.sizes[s]>>]
         code == AuthenticatedInclusion(p, cached.keys, Environment, expected, TRUE) IN
     /\ Judged(p, code)
     /\ included' = IF code = "OK" THEN included \cup {<<s, p.event, trusted>>} ELSE included
  /\ UNCHANGED <<manifestVars, cached, trusted>>

AuditInit ==
  /\ cached = NULL /\ pending = Nothing /\ trusted = NULL
  /\ included = {} /\ refusal = Nothing

AuditNext ==
  \/ FetchKeyset \/ ReadManifest \/ CheckManifest \/ CheckInclusion
  \/ \E s \in Shards : ReadInclusion(s)

-----------------------------------------------------------------------------
(* Correctness *)

\* What may be wrong with an object that the service signed: its key is younger
\* than the cached key set; no tree of it was first stated of late; or, for a
\* proof, the tree has grown since the manifest it is held against.
RefusedForAReason(r) ==
  LET stale(at) == at + AuditMaxAge + AuditSkew < r.at
      kid == IF r.what = "manifest" THEN r.object.kid ELSE r.object.checkpoint.kid IN
  CASE r.code = "KEY_NOT_FOUND" -> \A known \in r.keys : known < kid
    [] r.code = "PROOF_EXPIRED" ->
         IF r.what = "manifest"
           THEN \A s \in Shards : stale(stated[<<s, r.object.sizes[s]>>])
           ELSE stale(stated[r.object.checkpoint.root])
    [] r.code = "WRONG_TREE_SIZE" ->
         r.what = "proof" /\ r.object.checkpoint.size > r.trusted.sizes[r.object.shard]
    [] OTHER -> FALSE

\* An auditor finds no fault with a log that has none, whatever grew, was
\* published by runs that overlap, or was signed with a new key while it looked
\* on; and an event it found included is in the manifest that it found it in,
\* which stands in the bucket.
AuditsAreTrue ==
  /\ refusal # Nothing => RefusedForAReason(refusal)
  /\ \A found \in included : found[2] <= found[3].sizes[found[1]] /\ found[3] \in manifests

\* What is published stands behind its pointers, and before an auditor.
PublishedIsAuditable == PublishedIsBacked /\ AuditsAreTrue
=============================================================================
