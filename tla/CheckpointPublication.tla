----------------------- MODULE CheckpointPublication -----------------------
(***************************************************************************)
(* Publication of a shard's checkpoints (workers/transparency/src/         *)
(* index.ts, publishCheckpoint): the service asks the shard for a          *)
(* checkpoint, signs it, and writes an immutable artifact and a latest     *)
(* pointer to R2.                                                          *)
(*                                                                         *)
(* Publications overlap (the cron, its retry, the RPC method), each of     *)
(* their writes is an await, and each may fail with or without effect.     *)
(* Signatures are deterministic, so that a signed statement is its fields  *)
(* and the key it was signed with.  The key may be rotated; an invocation  *)
(* signs with the key it was started with.  GlobalManifest has the batches *)
(* of the cron and the manifest of all shards.                             *)
(***************************************************************************)
EXTENDS TransparencyShard

CONSTANTS
  MaxPublications,  \* bound on the publications started
  MaxRotations      \* bound on the rotations of the signing key

ASSUME PublicationAssumption == {MaxPublications, MaxRotations} \subseteq Nat

VARIABLES
  signerKid,     \* TRANSPARENCY_SIGNING_KID, as a generation
  publication,   \* each caller's publication: its next write, key and statement
  started,       \* the number of publications started
  immutable,     \* R2, checkpoints/shards/.../<size>-<root>.json
  latest         \* R2, checkpoints/shards/.../latest.json

publicationVars == <<shardVars, signerKid, publication, started, immutable, latest>>

NoPublication == [pc |-> "none", kid |-> NULL, statement |-> NULL]
Publishing(c) == publication[c].pc # "none"

MovesTo(c, pc, statement) ==
  publication' = [publication EXCEPT ![c] = [pc |-> pc, kid |-> @.kid, statement |-> statement]]

Ends(c) == publication' = [publication EXCEPT ![c] = NoPublication]

StartPublication(c) ==
  /\ ~Publishing(c)
  /\ started < MaxPublications
  /\ started' = started + 1
  /\ RequestCheckpoint(c)
  /\ publication' = [publication EXCEPT ![c] = [pc |-> "waiting", kid |-> signerKid,
                                                statement |-> NULL]]
  /\ UNCHANGED <<signerKid, immutable, latest>>

SignCheckpoint(c) ==
  /\ publication[c].pc = "waiting"
  /\ call[c].pc = "replied"
  /\ MovesTo(c, "immutable", [checkpoint |-> call[c].body, kid |-> publication[c].kid])
  /\ call' = [call EXCEPT ![c] = Idle]
  /\ UNCHANGED <<tables, appendTail, now, signerKid, started, immutable, latest>>

\* The name of the object: the tree, and not the key that signed for it.
ArtifactKey(s) == <<s.checkpoint.size, s.checkpoint.root>>

PutImmutable(c) ==
  LET s == publication[c].statement IN
  /\ publication[c].pc = "immutable"
  /\ immutable' = Put(immutable, ArtifactKey(s), s)
  /\ MovesTo(c, "latest", s)
  /\ UNCHANGED <<shardVars, signerKid, started, latest>>

PutLatest(c) ==
  /\ publication[c].pc = "latest"
  /\ latest' = publication[c].statement
  /\ Ends(c)
  /\ UNCHANGED <<shardVars, signerKid, started, immutable>>

\* The shard's call or a write fails and the invocation with it.
PublicationFails(c) ==
  /\ Publishing(c)
  /\ Free(c)
  /\ Ends(c)
  /\ UNCHANGED <<shardVars, signerKid, started, immutable, latest>>

\* The secret, its identifier and the key set are deployed together.
RotateSigningKey ==
  /\ signerKid < MaxRotations
  /\ signerKid' = signerKid + 1
  /\ UNCHANGED <<shardVars, publication, started, immutable, latest>>

Init ==
  /\ ShardInit
  /\ signerKid = 0
  /\ publication = [c \in Callers |-> NoPublication]
  /\ started = 0
  /\ immutable = << >>
  /\ latest = NULL

Next ==
  \/ /\ \/ \E c \in Callers : (~Publishing(c) /\ Request(c)) \/ Proceed(c)
        \/ Restart
        \/ Tick
     /\ UNCHANGED <<signerKid, publication, started, immutable, latest>>
  \/ \E c \in Callers :
       \/ StartPublication(c) \/ SignCheckpoint(c)
       \/ PutImmutable(c) \/ PutLatest(c)
       \/ PublicationFails(c)
  \/ RotateSigningKey

Spec == Init /\ [][Next]_publicationVars

-----------------------------------------------------------------------------
(* Correctness *)

\* An immutable artifact, cached for a year by whoever read it, stays as it is:
\* any number of publications of the same tree, by whomever and at whatever
\* time, write the same bytes.  This is what the code says of itself; it does not
\* hold, for the key's rotation changes the bytes and not the name.
ArtifactsAreKept ==
  [][\A key \in DOMAIN immutable :
       key \in DOMAIN immutable' /\ immutable'[key] = immutable[key]]_immutable

\* What does hold: no artifact goes, none is written again for another checkpoint
\* (a tree of that size and root with another time), so that only the key and its
\* signature may change; and nothing does before the key is first rotated.
CheckpointsAreKept ==
  [][\A key \in DOMAIN immutable :
       /\ key \in DOMAIN immutable'
       /\ immutable'[key].checkpoint = immutable[key].checkpoint
       /\ signerKid = 0 => immutable'[key] = immutable[key]]_immutable

\* The checkpoint that the latest pointer shows is also there for good.
LatestIsBacked ==
  latest # NULL =>
    /\ ArtifactKey(latest) \in DOMAIN immutable
    /\ immutable[ArtifactKey(latest)].checkpoint = latest.checkpoint
=============================================================================
