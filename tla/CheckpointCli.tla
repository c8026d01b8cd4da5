---------------------------- MODULE CheckpointCli ----------------------------
(***************************************************************************)
(* The operator's command that signs a global manifest by hand and may     *)
(* write it to a file and upload it (scripts/publish-checkpoint.ts,        *)
(* runPublishCheckpointCli).                                               *)
(*                                                                         *)
(* The command is run several times, possibly at the same time, with the   *)
(* same output path: after a failed upload, say, or a full disk.  The file *)
(* system and the upload endpoint are shared; a run may die between any    *)
(* two of its awaits.  A manifest is either complete (256 shards in order, *)
(* nothing but hashes) or not; a signed body is the manifest, the key and  *)
(* the key's identifier, for Ed25519 signatures are deterministic.         *)
(***************************************************************************)
EXTENDS Naturals

CONSTANTS
  Operators,      \* the runs of the command
  Manifests,      \* the input files
  Complete,       \* those that parseUnsignedCheckpointManifest accepts
  SigningKeys,    \* private keys and their identifiers
  RegistryKeys    \* those of them that the environment names as the registry's

ASSUME CliAssumption == Complete \subseteq Manifests /\ RegistryKeys \subseteq SigningKeys

VARIABLES
  command,   \* what each run was asked to do, and how far it is
  file,      \* what is at the output path
  uploads    \* what the upload endpoint has accepted

cliVars == <<command, file, uploads>>

NoFile == [state |-> "none"]
PartOfFile == [state |-> "part"]
Written(body) == [state |-> "written", body |-> body]

NotRun == [at |-> "not run"]

\* The options: the key and the identifier (--kid), --output and --upload.
Options ==
  [key : SigningKeys, kid : SigningKeys, input : Manifests, output : BOOLEAN, upload : BOOLEAN]

Body(o) ==
  LET asked == command[o].options IN
  [manifest |-> asked.input, key |-> asked.key, kid |-> asked.kid]

At(o, step) == command[o].at = step

GoesTo(o, step) == command' = [command EXCEPT ![o].at = step]

StartCommand(o) ==
  /\ At(o, "not run")
  /\ \E options \in Options :
       command' = [command EXCEPT ![o] = [at |-> "secrets", options |-> options]]
  /\ UNCHANGED <<file, uploads>>

\* rejectRegistryKeyReuse: neither the key nor its identifier is a registry's.
CheckSecrets(o) ==
  /\ At(o, "secrets")
  /\ GoesTo(o, IF {command[o].options.key, command[o].options.kid} \cap RegistryKeys = {}
                 THEN "input" ELSE "failed")
  /\ UNCHANGED <<file, uploads>>

SignInput(o) ==
  /\ At(o, "input")
  /\ GoesTo(o, IF command[o].options.input \in Complete THEN "output" ELSE "failed")
  /\ UNCHANGED <<file, uploads>>

\* The flag "wx": an existing path is not opened.
Writable == file = NoFile

\* The file is created, then filled; what a failure leaves behind stays there.
OpenOutput(o) ==
  /\ At(o, "output") /\ command[o].options.output
  /\ IF Writable THEN file' = PartOfFile /\ GoesTo(o, "filling")
                 ELSE GoesTo(o, "failed") /\ UNCHANGED file
  /\ UNCHANGED uploads

FillOutput(o) ==
  /\ At(o, "filling")
  /\ file' = Written(Body(o))
  /\ GoesTo(o, "upload")
  /\ UNCHANGED uploads

SkipOutput(o) ==
  /\ At(o, "output") /\ ~command[o].options.output
  /\ GoesTo(o, "upload")
  /\ UNCHANGED <<file, uploads>>

\* A failing upload may still have arrived.
Upload(o) ==
  /\ At(o, "upload") /\ command[o].options.upload
  /\ \/ /\ uploads' = uploads \cup {[by |-> o, body |-> Body(o)]}
        /\ \E step \in {"print", "failed"} : GoesTo(o, step)
     \/ UNCHANGED uploads /\ GoesTo(o, "failed")
  /\ UNCHANGED file

Finish(o) ==
  /\ At(o, "print") \/ (At(o, "upload") /\ ~command[o].options.upload)
  /\ GoesTo(o, "done")
  /\ UNCHANGED <<file, uploads>>

Dies(o) ==
  /\ command[o].at \in {"input", "filling"}
  /\ GoesTo(o, "failed")
  /\ UNCHANGED <<file, uploads>>

CliInit == command = [o \in Operators |-> NotRun] /\ file = NoFile /\ uploads = {}

CliNext ==
  \E o \in Operators :
    \/ StartCommand(o) \/ CheckSecrets(o) \/ SignInput(o)
    \/ OpenOutput(o) \/ FillOutput(o) \/ SkipOutput(o) \/ Upload(o)
    \/ Finish(o) \/ Dies(o)

-----------------------------------------------------------------------------
(* Correctness *)

\* What a run with --output has uploaded is what the file says, for good: no
\* other run, started before or after, succeeding or dying on the way, replaces
\* it ("Write once; refuses to overwrite an existing path").  A run that ended
\* well has done all it was asked to do, and nothing incomplete or signed with
\* a key of the registry is ever let out.
UploadsAreOnFile ==
  /\ \A u \in uploads :
       /\ command[u.by].options.output => file = Written(u.body)
       /\ u.body.manifest \in Complete /\ {u.body.key, u.body.kid} \cap RegistryKeys = {}
  /\ \A o \in Operators : At(o, "done") =>
       /\ command[o].options.output => file = Written(Body(o))
       /\ command[o].options.upload => [by |-> o, body |-> Body(o)] \in uploads
=============================================================================
