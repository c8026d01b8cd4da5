---------------------- MODULE MCCheckpointPublication ----------------------
(***************************************************************************)
(* Small instances of TransparencyService, and the tree algorithms on all  *)
(* sizes of tree up to MaxTree. A behaviour has one of four scenarios: in  *)
(* "shard" one shard is followed in detail, with its publications and a    *)
(* rotation of the key; "global" is the publication of three shards, in    *)
(* batches of two, by two runs; in "audit" there is an auditor as well,    *)
(* and the key is rotated, but the runs neither overlap nor fail; in       *)
(* "operator" an operator runs the command of CheckpointCli twice.         *)
(***************************************************************************)
EXTENDS TransparencyService, TLC

CONSTANTS c1, c2, e1, e2, e3, i1, i2, MaxTree

VARIABLE scenario

MCCallers == {c1, c2}
MCEvents == {e1, e2, e3}
MCInvocations == {i1, i2}

MCInit ==
  /\ ServiceInit
  /\ scenario \in {"shard", "global", "audit", "operator"}

\* Every run has ended; the next cron is not modelled.
AllIsPublished ==
  /\ scenario \in {"global", "audit"}
  /\ \A i \in Invocations : run[i].step \in {"over", "failed"}
  /\ UNCHANGED serviceVars

OneGrows == Cardinality({s \in Shards : sizes'[s] # 0}) <= 1

\* One run after the other, all of them the cron's, and none fails.
InTurn ==
  /\ \A i \in Invocations :
       run'[i].step # "failed" /\ ("kind" \in DOMAIN run'[i] => run'[i].kind = "scheduled")
  /\ Cardinality({i \in Invocations : run'[i].step \notin {"none", "over"}}) <= 1

InShard == InOneShard /\ treeSize' + started' + now' + signerKid' <= 4

InGlobal ==
  \/ /\ \/ Tick /\ UNCHANGED <<signerKid, publication, started, immutable, latest>>
        \/ RotateSigningKey
     /\ UNCHANGED <<manifestVars, auditVars, cliVars>>
  \/ InAllShards /\ OneGrows

AllIsDone ==
  /\ scenario = "operator" /\ \A o \in Operators : command[o].at \in {"done", "failed"}
  /\ UNCHANGED serviceVars

\* In "shard" leaves, publications, seconds and rotations are at most four together.
MCNext ==
  /\ \/ scenario = "shard" /\ InShard
     \/ scenario = "global" /\ InGlobal /\ signerKid' = 0
     \/ scenario = "audit" /\ (InGlobal \/ ByAuditor) /\ InTurn
     \/ scenario = "operator" /\ ByOperator
     \/ AllIsPublished \/ AllIsDone
  /\ UNCHANGED scenario

MCSpec == MCInit /\ [][MCNext]_<<serviceVars, scenario>>

Symmetry == Permutations(MCEvents) \cup Permutations(Callers) \cup Permutations(Invocations)

ASSUME ProofsAreSoundUpToMaxTree == \A n \in 1..MaxTree : ProofsAreSound([i \in 1..n |-> i])
=============================================================================
