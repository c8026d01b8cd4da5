--------------------------- MODULE GlobalManifest ---------------------------
(***************************************************************************)
(* The scheduled publication of the transparency service (workers/         *)
(* transparency/src/index.ts, publishScheduledArtifacts,                   *)
(* publishGlobalCheckpoint and publishGlobalManifest): every shard is      *)
(* asked for a checkpoint, one batch of shards at a time, and a manifest   *)
(* of all of them is signed and written.                                   *)
(*                                                                         *)
(* The cron also writes each shard's artifact and pointer before the       *)
(* manifest; the RPC method writes the manifest only.  Within a batch the  *)
(* shards go on side by side and the first failure ends the invocation,    *)
(* but what the others have begun may still be written.  A failed cron is  *)
(* run again, and may overlap with the next one.                           *)
(*                                                                         *)
(* A shard is reduced to what TransparencyShard shows of it: one root per  *)
(* tree size, stated with the time at which that size was first asked for. *)
(* The signing key may be rotated between two invocations: the new public  *)
(* key is added to the key set, which keeps the keys of the past.          *)
(***************************************************************************)
EXTENDS CheckpointPublication, FiniteSetsExt

CONSTANTS
  ShardCount,    \* SHARD_COUNT
  BatchSize,     \* CHECKPOINT_BATCH_SIZE
  Invocations,   \* the cron's and the RPC method's runs
  MaxGrowth      \* bound on the size of a shard's tree

ASSUME ManifestAssumption == {ShardCount, BatchSize} \subseteq Nat \ {0} /\ MaxGrowth \in Nat

VARIABLES
  sizes,          \* the tree size of each shard
  stated,         \* the checkpoints of the shards: when each was first asked for
  artifacts,      \* R2, checkpoints/shards/: the immutable ones
  pointers,       \* R2, checkpoints/shards/.../latest.json
  manifests,      \* R2, checkpoints/global/: the immutable ones
  globalPointer,  \* R2, checkpoints/global/latest.json
  run             \* where each invocation is

bucket == <<artifacts, pointers, manifests, globalPointer>>

manifestVars == <<sizes, stated, bucket, run>>

-----------------------------------------------------------------------------

Shards == 0 .. ShardCount - 1

ShardBatch(start) == {s \in Shards : start <= s /\ s < start + BatchSize}

Unasked == [step |-> "unasked"]

NotBegun == [step |-> "none"]

Over == [step |-> "over"]

\* A run that failed leaves its unfinished calls behind.
InBatch(i, s) ==
  run[i].step \in {"batch", "failed"} /\ s \in ShardBatch(run[i].start)

BeginBatch(i, kind, kid, start, parts, at) ==
  run' = [run EXCEPT ![i] = [step |-> "batch", kind |-> kind, kid |-> kid, start |-> start,
                             at |-> at, parts |-> parts]]

\* The RPC method reads the clock once, the cron with every batch.
StartRun(i) ==
  /\ run[i] = NotBegun
  /\ \E kind \in {"scheduled", "rpc"} :
       BeginBatch(i, kind, signerKid, 0, [s \in Shards |-> Unasked], now)
  /\ UNCHANGED <<sizes, stated, bucket>>

Part(i, s, part) == run' = [run EXCEPT ![i].parts[s] = part]

\* A shard states the present size of its tree once, with the time of that request.
State(s, at) == stated' = PutNew(stated, <<s, sizes[s]>>, at)

AskCheckpoint(i, s) ==
  /\ InBatch(i, s) /\ run[i].parts[s] = Unasked
  /\ State(s, run[i].at)
  /\ Part(i, s, [step |-> IF run[i].kind = "scheduled" THEN "put" ELSE "done",
                 size |-> sizes[s], at |-> stated'[<<s, sizes[s]>>]])
  /\ UNCHANGED <<sizes, bucket>>

PutArtifact(i, s) ==
  /\ InBatch(i, s) /\ run[i].parts[s].step = "put"
  /\ LET part == run[i].parts[s] IN
     /\ artifacts' = Put(artifacts, <<s, part.size>>, [at |-> part.at, kid |-> run[i].kid])
     /\ Part(i, s, [part EXCEPT !.step = "point"])
  /\ UNCHANGED <<sizes, stated, pointers, manifests, globalPointer>>

PutPointer(i, s) ==
  /\ InBatch(i, s) /\ run[i].parts[s].step = "point"
  /\ pointers' = [pointers EXCEPT ![s] = run[i].parts[s].size]
  /\ Part(i, s, [run[i].parts[s] EXCEPT !.step = "done"])
  /\ UNCHANGED <<sizes, stated, artifacts, manifests, globalPointer>>

\* (mutant) A batch is over when every shard has answered.
BatchAnswered(i) == \A s \in ShardBatch(run[i].start) : run[i].parts[s] # Unasked

BatchIsDone(i) == \A s \in ShardBatch(run[i].start) : run[i].parts[s].step = "done"

\* The manifest is as old as the youngest checkpoint in it.
Manifest(i) ==
  [at |-> Max({run[i].parts[s].at : s \in Shards}),
   sizes |-> [s \in Shards |-> run[i].parts[s].size], kind |-> run[i].kind, kid |-> run[i].kid]

NextBatch(i) ==
  /\ run[i].step = "batch" /\ BatchIsDone(i)
  /\ IF run[i].start + BatchSize < ShardCount
       THEN BeginBatch(i, run[i].kind, run[i].kid, run[i].start + BatchSize, run[i].parts,
                       IF run[i].kind = "scheduled" THEN now ELSE run[i].at)
       ELSE run' = [run EXCEPT ![i] = [step |-> "manifest", kind |-> run[i].kind,
                                       manifest |-> Manifest(i)]]
  /\ UNCHANGED <<sizes, stated, bucket>>

PutManifest(i) ==
  /\ run[i].step = "manifest"
  /\ manifests' = manifests \cup {run[i].manifest}
  /\ run' = [run EXCEPT ![i].step = "global"]
  /\ UNCHANGED <<sizes, stated, artifacts, pointers, globalPointer>>

PutGlobalPointer(i) ==
  /\ run[i].step = "global"
  /\ globalPointer' = run[i].manifest
  /\ run' = [run EXCEPT ![i] = Over]
  /\ UNCHANGED <<sizes, stated, artifacts, pointers, manifests>>

\* A call or a write fails.
RunFails(i) ==
  /\ \/ run[i].step = "batch" /\ run' = [run EXCEPT ![i].step = "failed"]
     \/ run[i].step \in {"manifest", "global"} /\ run' = [run EXCEPT ![i] = Over]
  /\ UNCHANGED <<sizes, stated, bucket>>

Grow(s) ==
  /\ sizes[s] < MaxGrowth
  /\ sizes' = [sizes EXCEPT ![s] = @ + 1]
  /\ UNCHANGED <<stated, bucket, run>>

ManifestInit ==
  /\ sizes = [s \in Shards |-> 0] /\ stated = << >>
  /\ artifacts = << >> /\ pointers = [s \in Shards |-> NULL]
  /\ manifests = {} /\ globalPointer = NULL
  /\ run = [i \in Invocations |-> NotBegun]

ManifestNext ==
  \/ \E i \in Invocations :
       \/ StartRun(i) \/ NextBatch(i) \/ PutManifest(i) \/ PutGlobalPointer(i) \/ RunFails(i)
       \/ \E s \in Shards : AskCheckpoint(i, s) \/ PutArtifact(i, s) \/ PutPointer(i, s)
  \/ \E s \in Shards : Grow(s)

-----------------------------------------------------------------------------
(* Correctness *)

\* Whoever reads the cron's manifest finds every checkpoint it lists, whatever
\* failed and overlapped ("publish every shard before its complete global
\* manifest"), and whoever reads a pointer finds the artifact behind it.  A
\* manifest is a function of the trees it lists and of the key: publishing the
\* same trees again, at whatever time, writes the same bytes.
ManifestsAreBacked ==
  /\ \A m \in manifests : m.kind = "scheduled" =>
       \A s \in Shards : <<s, m.sizes[s]>> \in DOMAIN artifacts
  /\ globalPointer # NULL => globalPointer \in manifests
  /\ \A s \in Shards : pointers[s] # NULL => <<s, pointers[s]>> \in DOMAIN artifacts
  /\ \A m, other \in manifests : m.sizes = other.sizes => m.at = other.at

\* What any pointer says is also there for good.
PublishedIsBacked == LatestIsBacked /\ ManifestsAreBacked
=============================================================================
