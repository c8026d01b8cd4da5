------------------------- MODULE TransparencyService -------------------------
(***************************************************************************)
(* The transparency service as a whole: one shard in detail with its       *)
(* publications, the manifests of all shards, an auditor and the operator  *)
(* who runs the command, one step of one of them at a time.  They share    *)
(* the clock; the auditor shares the bucket with the cron, and its request *)
(* for a proof makes a shard state a checkpoint.                           *)
(***************************************************************************)
EXTENDS TransparencyAudit, CheckpointCli

serviceVars == <<publicationVars, manifestVars, auditVars, cliVars>>

InOneShard == Next /\ UNCHANGED <<manifestVars, auditVars, cliVars>>

InAllShards == ManifestNext /\ UNCHANGED <<publicationVars, auditVars, cliVars>>

ByAuditor == AuditNext /\ UNCHANGED <<publicationVars, cliVars>>

ByOperator == CliNext /\ UNCHANGED <<publicationVars, manifestVars, auditVars>>

ServiceInit == Init /\ ManifestInit /\ AuditInit /\ CliInit

ServiceNext == InOneShard \/ InAllShards \/ ByAuditor \/ ByOperator

ServiceSpec == ServiceInit /\ [][ServiceNext]_serviceVars

-----------------------------------------------------------------------------
(* Correctness *)

\* What is published stands behind its pointers, before an auditor, and on file:
\* of a shard, of all shards, and by the operator's command.
PublishedStands == PublishedIsAuditable /\ UploadsAreOnFile
=============================================================================
