# ROwO Nexus: TLA+ models, model checks and proofs

This directory is a formal companion of the repository. It models the parts of
ROwO Nexus that keep state and may interleave, fail or be retried, from the
identity registry to the pages in the browser, checks them with TLC on small
instances, and proves every safety property that is checked with TLAPS, for
every value of the constants.

1. [The system](#1-the-system)
2. [Modules and how they correspond to the code](#2-modules-and-how-they-correspond-to-the-code)
3. [Runs, bounds and what they show](#3-runs-bounds-and-what-they-show)
4. [Fairness](#4-fairness)
5. [Proofs](#5-proofs)
6. [What the checks found](#6-what-the-checks-found)
7. [What is not modelled](#7-what-is-not-modelled)
8. [Plan](#8-plan)

## 1. The system

A Nexus identity (*subject*) is named by the hash of its genesis document and is
registered once and revoked once. Below it, device keys are authorized by the
identity's root key, activated, and revoked by themselves or by the root. A
wallet keeps the keys; a relying party asks it for proofs of ownership and the
registry for the state of who signed them.

```
 RP page ──popup──> wallet ──HTTP──> edge-api ──RPC──> RegistryService ──> IdentityState (one object per subject)
    │                                   ^                                     │ outbox, alarm
    └──HTTP──> reference-rp ──HTTP──────┘                    two queues <─────┘
               (notes, sessions)                                 │
                                                             projector ──> D1 projection
                                                                 └──RPC──> transparency ──> 256 TransparencyShard objects
                                                                                        └─> checkpoints, manifests in R2
                                     auditor ──HTTP──> transparency      operator ──> publish-checkpoint, rotate-service-key
```

| Component | State it keeps | Operations | Talks to | Modules |
|---|---|---|---|---|
| `workers/registry` (`IdentityState` object) | `identity_state`, `actions`, `device_state`, `device_ledger`, `device_operations`, both outboxes, alarm, `#flushPromise` | `register`, `revokeBySignature`, `revokeBySecret`, `activateDevice`, `revokeDeviceSelf`, `revokeDeviceRoot`, `status`, `deviceStatus`, `alarm` | queues | `IdentityLifecycle`, `DeviceLedger`, `IdentityState`, `IdentityOutbox` |
| `workers/edge-api` | none of its own; clock, TTL, key set | one exchange: rate limit, parse, registry call, validate, sign | registry | `EdgeApi`, `RegistryClient` |
| `workers/projector` with `migrations/d1` | `identities`, `registry_events`, `pending_registry_events`, `device_registry_events`, `device_states`, `device_projection_heads` | `queue` for two queues | D1, transparency | `DeviceLedger`, `Projector` |
| `workers/transparency` | per shard: events, nodes, `tree_size`, checkpoints; R2 artifacts | `append`, `appendDevice`, `checkpoint`, `publishCheckpoint`, `publishGlobalCheckpoint`, `scheduled`, inclusion proofs, key set | R2 | `Merkle`, `AppendOnlyLog`, `TransparencyShard`, `CheckpointPublication`, `GlobalManifest`, `TransparencyAudit`, `TransparencyService` |
| `apps/reference-rp/worker` | challenges, sessions, receipts, names, notes, replies, likes | challenge, proof, session, operations | edge API | `ReferenceRp`, `RelyingParty` |
| `apps/reference-rp/src/backend` | the same, in memory, and a chain of promises | the same | edge API | `LocalRp`, `RelyingParty` |
| `apps/reference-rp/src` (page) | session, proof stage, list, selected note, editor, address | sign in, operate, log out, go back and forth | relying party, wallet | `SignIn`, `NotesPage`, `ReferenceRpPage` |
| `packages/sdk-browser`, `apps/wallet` (popup) | one popup exchange | `requestProof`; consent | each other, by messages | `ProofPopup` |
| `packages/wallet-core`, `apps/wallet` | identity records, key vault, device catalogue, pending imports | create, register, rotate, import, recover, activate, revoke, dispose, remove | edge API, IndexedDB | `WalletStore`, `WalletIdentity`, `WalletDevices`, `WalletCore` |
| `packages/verifier` | none | what is demanded of proofs, receipts, statements, checkpoints | - | `Verifier`, `ServiceStatements` |
| `scripts` | one output file, uploads | publish a checkpoint, rotate a service key | deployed services | `CheckpointCli` |
| `protocol`, `crypto`, `cloudflare-common` | none | schemas, primitives, key choice, rate limit keys | - | - |

**Hard behaviours.**

* *Interleaving at awaits.* A Durable Object is single threaded but its methods
  are asynchronous; between reading rows and writing them in a synchronous
  transaction another method may run. The same holds for the functions of a page
  that write the state of one component, and for the tabs of one wallet.
* *Retries.* A client that lost an answer sends the same signed bytes again.
* *Time.* Windows, expiry and the edge's own clock; time stamps taken before an
  await and used after it.
* *Crashes.* Between a commit and the alarm, a send and its mark; a tab that is
  closed between two transactions; an operator's command that dies half way.
* *Queues* that deliver late, twice, out of order and to two consumers at once;
  two queues whose events depend on each other.
* *Partial failure.* The projection is written, the append to the log fails; a
  cron that fails while its other calls go on writing.
* *Two validations.* The edge checks the registry's answers with rules of its
  own, and the wallet those of the edge, against a key set it loaded earlier.
* *Answers for somebody else.* Popups that outlive their login, addresses whose
  note arrives after the user went on.

**What makes each part correct.**

* Registry: rows and events agree; one registration, one terminal revocation;
  a revoked device never returns; a gapless device ledger with ordered times;
  a signed operation takes effect once and its replays report the same event;
  each commit is handed to the outbox; no gate is left behind.
* Outbox: a committed event reaches its queue; only crashes and unknown
  outcomes duplicate it.
* Edge and its clients: every answer of the authority is served and believed; a
  receipt is about what was asked; statements end with the authorization and
  never move back.
* Projector: whatever the order, the projection ends with the registry's answer,
  never moves back, and the log never knows more than the projection.
* Transparency: one leaf per event, one root per tree size, verifiable proofs; an
  artifact is never replaced by another checkpoint; what a pointer or a manifest names is there, and an auditor refuses nothing
  true without a reason.
* Relying party: a challenge is consumed once; no effect of an ended session or a
  revoked signer; bounded stores; no change of a note is lost.
* Page: a cancelled login leaves no session; a proof is submitted for its own
  challenge; every login ends; an ended session disappears; the editor replaces
  no version unread and a note is shown under its own address.
* Wallet: a usable record has its keys, a stray key is dead; a record is revoked
  only when the registry says so; an import is finished or undone in one piece.

## 2. Modules and how they correspond to the code

`PROJECT.json` maps every definition to the lines it stands for. Operators marked
`(mutant)` in a comment are plausible bugs kept beside the definition they break;
they are used by no specification and show that a property can fail.

### `IdentityLifecycle` (abstract)

What the registry promises for one subject: four transitions of the identity's
and the devices' states, nothing about how. `IdentityState` implements it.

### `DeviceLedger` (what the registry and the projector agree on)

What a reader of the device ledger may rely on (`IsLedger`) and what the ledger
says of a device (`StateAfter`). The projector assumes it of the events it is
given, the registry is proved to provide it: `Delivered` is what the projection
reads of a recorded event.

### `IdentityState` (`workers/registry/src/identity-state-do.ts`)

One object, that is one subject. Variables: the rows (`identity`, `device`,
`ledger`), the append-only tables (`actions`, `deviceLog`), and for each of
`Callers` the method in flight (`call`): its program point and its locals (`seen`,
the identity row it read; `at`, the time it took; `next`, the sequence it
reserved). `gate` is `blockConcurrencyWhile`. A method is split exactly at the
awaits between which another method can matter:

| code | actions |
|---|---|
| `register` | `RegisterArrives`, `CheckRegistration`, `CommitRegistration` |
| `revokeBySignature`, `revokeBySecret`, `#commitRevocation` | `RevokeArrives`, `VerifyRevocation`, `CommitRevocation` |
| `activateDevice` | `DeviceRequestArrives`, `DecideActivation`, `CommitActivation` |
| `revokeDeviceSelf`, `revokeDeviceRoot`, `#commitDeviceRevocation` | `DeviceRequestArrives`, `DecideDeviceRevocation`, `CommitDeviceRevocation` |
| `status`, `deviceStatus` (synchronous) | `ReadStatus`, `ReadDeviceStatus` |
| eviction of the object | `Restart` |
| `nowSeconds` | `now`, `Tick` |

The gate stops the delivery of new requests but not a method already in flight;
hence an identity revocation may commit in the middle of a device mutation, which
is what the second read in each transaction is for. An event id is the hash of
the event, so the position of an event in the log stands for its id; an operation
id is the hash of the signed payload, so equal ids mean equal payloads
(`RequestsAssumption`). A request says whether its signature or secret is
genuine. A device revocation reads the clock twice, a hash apart; the model reads
it once, at the second place. Commits and replays set `kicked`, the link to the
outbox. Metrics and schema migrations are left out.

### `IdentityOutbox` (the same file: `#kickOutbox`, `#requestFlush`, `#flushPendingOutbox`, `#ensureAlarm`, `alarm`)

Starts where a commit of `IdentityState` sets `kicked`: the commit and the kick are
one step, as they are one synchronous turn in the code. Each kick is in one of the awaits of `#ensureAlarm`; the one flush is at
one of the awaits of its loop, including the moment in which it has returned and
`finally` has not run. The alarm's time and the attempt counter, which only
chooses that time, are abstracted; the `catch` of `alarm` sets the alarm again,
which the retry of a lost alarm (`Crash`) covers. `InDoubt` is a send that reached
the queue without the object learning of it.

### `EdgeApi` (`workers/edge-api/src/index.ts`, `workers/registry/src/index.ts`)

Extends `IdentityState` with the exchanges of its callers: `Forward` and the
`Arrive` actions are one step, `Respond` applies the edge's validation and its
clock at any later time, `LoseReply` is a failing binding, `EdgeRestart` a restart
that `RegistryService` turns into `INTERNAL_ERROR`, `TurnAway` the rate limiter.
`ValidStatus`, `ValidDeviceStatus` and `ValidDeviceMutation` are the conditions of
the three validators that relate one field to another.

### `Verifier`, `ServiceStatements` (`packages/verifier/src`)

The checks of the verifier as lists of conditions with the error each is refused
with; `Verdict` is the first that fails. `Verifier` has the ownership proofs of
both protocols, `ServiceStatements` what is signed by a service: receipts, status
statements, checkpoints, manifests, inclusion proofs. A signature is the name of
its signer or key, a key set is a set of key identifiers. They are used by the
models of the components that call them.

### `RegistryClient` (`apps/wallet/src/lib/wallet-adapter.ts`, `packages/wallet-core`, `receipt-signing.ts`)

Extends `EdgeApi`: each client is a page of a wallet that loads the service's key
set once (`LoadServiceKeyset`), keeps it until the page is loaded again
(`ReloadPage`), and judges each answer (`Judge`) with `ServiceStatements` and with
what `WalletCore` expects of it (`ConfirmedBy`). `RotateServiceKey` is the
operator's script: the new key signs, the old ones stay in the published set.

### `Projector` (`workers/projector/src`, `migrations/d1`)

Consumers take messages of two queues in any order and any number of times. Every
D1 batch is one action, statements outside a batch are separate actions
(`StoreDeviceEvent`, `ReadAnchor`, `Materialize`; `SelectDeviceEvents` and one
`Materialize` per event for a reconciliation). `Fail` loses a consumer anywhere.
The ledger of device events is a constant that satisfies what `IdentityState`
guarantees (`LedgerAssumption`, which theorem `RegistryDeliversLedgers` discharges).
The genesis assertions only read and throw, and all
events of a subject carry the one genesis hash, so they are left out.

### `Merkle` (`workers/transparency/src/merkle.ts`)

The tree algorithms over stored nodes, with the verifier's loop as a function of
the round. Recursion is written as recursive functions, of the size of a range and
its start, so that theorems can reach them. A hash is the term it was computed
from. The reference definitions (`RangeHashes`, `MTH`, `NodesOf`) are RFC 6962's,
over the sequence of leaves.

### `AppendOnlyLog` (abstract)

What a shard promises whatever it stores: a list to which each event is added at
most once, at the end, and the tree hash of some of its prefixes, each stated once.
`TransparencyProofs` shows that the service implements it.

### `TransparencyShard` (`transparency-shard-do.ts`), `CheckpointPublication` (`index.ts`)

Appends join a chain (`appendTail`) and hash one node per step; `Hashing` holds the
nodes hashed so far and the last of them. Checkpoints and proofs wait for nobody.
`checkpoint` reads the size first and computes the root when the awaits are over, the
latest moment at which the code may read a node.
`CheckpointPublication` extends the shard with publications: each writes the
immutable artifact, then `latest.json`, and may fail before or after each write. An
artifact is the checkpoint with the key that signed it, its name (`ArtifactKey`) only
the tree; `RotateSigningKey` may come at any time, and an invocation signs with the
key it was started with.

### `GlobalManifest` (`publishScheduledArtifacts`, `publishGlobalCheckpoint`, `publishGlobalManifest`)

`Invocations` of the cron and of the RPC method ask all shards for their
checkpoints, a batch at a time (`AskCheckpoint`, `PutArtifact`, `PutPointer`,
`NextBatch`), and write a manifest of the answers (`PutManifest`,
`PutGlobalPointer`). They overlap; `RunFails` ends one while the calls of its
batch go on writing (`InBatch`). A shard is reduced to what `TransparencyShard`
shows of it. `RotateSigningKey` comes between invocations.

### `TransparencyAudit` (`http.ts`, `keyset.ts`, the public endpoints; `transparency-auth.ts` of the verifier)

An auditor with an HTTP cache reads the latest manifest, then the inclusion of
events, and checks both some time later. What it refuses must have a reason
(`RefusedForAReason`): a key set older than the key, an object older than it
accepts, a tree that grew since the manifest.

### `CheckpointCli` (`scripts/publish-checkpoint.ts`)

Concurrent and repeated runs of the command with one output path: refuse a
registry's key, sign, create the file exclusively, fill it, upload, each an await
after which the run may die.

### `TransparencyService`

Composes the four: one shard in detail with its publications, the manifests of all
shards, an auditor and the operator, one step of one of them at a time. They share
the clock, the auditor and the cron also the bucket. The run and the proofs are
about its `ServiceSpec`.

### `ReferenceRp` (`apps/reference-rp/worker`)

One object with all tables. A handler of a client is at one of its awaits
(`exchange`): `IssueArrives`, `Issue`; `StartArrives`, `Start` for a proof;
`OperationArrives`, `Ask`, `Operate` for an operation, with the registry's answer
read at `Ask` and the whole transaction in the last action. The verification is
`Verifier`'s, on proofs of roots and of devices. Receipts record what was done, so
properties read the history from them; `ended` says which sessions the client was
told were over.

### `LocalRp` (`apps/reference-rp/src/backend`)

The same service in the development server: extends `ReferenceRp`, replaces its
handlers by work that waits in `chain`, the promise `#exclusive`. It reuses the
content operations of `ReferenceRp` and asks the registry a second time for
identity roots, as the code does. What it does not promise (caps, a second look
at the session) is left out of the properties of this scenario and stated in
section 6. `RelyingParty` is the two as they are deployed, one or the other for
good, and says what only the service promises.

### `ProofPopup` (`packages/sdk-browser/src/popup.ts`, the wallet's popup and consent), `SignIn` (`App.tsx`)

`ProofPopup` is one request with its listener, timer, poll and abort signal on the
side of the page (`ReceiveReady`, `ReceiveAnswer`, `TimesOut`, `FoundClosed`,
`Aborted`) and the wallet's window on the other (`Load`, `WalletReceives`,
`Approve`, `Prove`, `PostProof`, `Deny`, `Reload`, `UserCloses`); messages of one
window keep their order. `SignIn` extends it with the asynchronous functions of
the page that share `proof`, `session` and `abortRef`: `startLogin`, operations,
logout, the restored session, the expiry timer, `Cancel`, the button to write a note,
which clears the proof stage of whatever is under way (`OpenCreate`), and a reload of
the page that leaves its popups and its calls behind.

### `NotesPage` (`App.tsx`, `note-route.ts`, `api.ts`)

The list, the selected note, the editor and the address. `PopState` starts the
loading of an address (`IsNewest` is the counter `routeRequestRef`), an operation
is answered and then reads the list again (`OperationAnswered`,
`OperationListed`), and logout, expiry and clicks come in between. The editor's
draft stays as long as React keeps it mounted with its key (`Composer`). Another
window of the user edits the same note (`OtherWindowEdits`). To write a note clears
`busy` whatever is under way (`OpenView`), so operations may overlap. The answer to a
name selects a note under whatever is shown by then (`Reselect`); the field
`reselected` has no counterpart in the code, it records that this was the last thing
to set the note and says in `PageIsConsistent` which behaviours are those of the
third and fourth disagreement of section 6. `ReferenceRpPage` instantiates the module
beside the service (`MCReferenceRp`) and beside the sign-in (`SignInProofs`).

### `WalletStore`, `WalletIdentity`, `WalletDevices`, `WalletCore` (`packages/wallet-core`)

`WalletStore` has what the tabs of one wallet share: records, key vault, registry,
the transfers given out. A tab is in one operation (`op`), one transaction of
IndexedDB or one answer of the registry per step; `ClosePage` ends it anywhere, and
the branches with `Fault` are failed transactions and lost answers.
`WalletIdentity` has creation, registration, rotation, revocation, disposal and
removal of roots with their clean-ups, `WalletDevices` issue, import (reserve,
key, finalize), the clean-up that cancels a reference before its record goes, the
recovery of `listIdentities`, activation, both revocations, status and removal of
devices. `WalletCore` composes them and states the properties.

## 3. Runs, bounds and what they show

Twelve runs, each within a few minutes. `MC*` modules give the constants their
values. Where one question has several situations, a variable `scenario`, chosen
at the start and never changed, selects the requests and the bounds of a
behaviour; each scenario is followed exhaustively.

| Run | Instance | Properties and what they show |
|---|---|---|
| `Registry` | 2 callers; *races*: 2 genesis documents, both revocations of the identity, 1 device with 2 authorizations; *ledger*: 2 devices that share the ledger; *status*: both status reads among forged, stale, early and misnumbered requests | `RowsMatchEvents`: rows and events agree. `AnswersAreTrue`: each acknowledgement, first or repeated, names the right event. `LedgerIsSound`: gapless, ordered, one event per operation. `ReservationHolds`: what a method reserved before an await is still its own. `ImplementsLifecycle`: refinement of `IdentityLifecycle`. `EffectiveStateMovesForward`: the state told for an authorization never moves back. |
| `Edge` | 2 clients, lost answers, restarts; *receipts*, *statements* for any client; *walletIdentity*, *walletDevices*, *walletStatus* for pages of a wallet | `ReceiptsAnswerTheRequest`: equal requests get equal receipts, about what was asked. `ActiveStatementsEndWithTheAuthorization`, `StatementsMoveForward`. `AuthorityReachesTheWallet` = `EdgeServesAuthority` (no answer is refused but those of section 6) and `WalletBelievesTheEdge` (the wallet refuses nothing without a reason, and what it believes is so). |
| `EdgeSelfRevocation`, `EdgeDeviceStatus` | as `Edge` | the two disagreements of section 6 |
| `Delivery` | *outbox*: 2 events of the same second, 2 kicks, 1 crash, 1 unknown outcome each; *projector*: 2 consumers, 3 device events of 2 devices, revoked identity, 1 failure | `PendingIsCovered`; `SentOnceUnlessInDoubt`; `CommittedIsPublished` and `VisitedIsPublished`: delivery without and with later requests. `RowMatchesEvents`, `NothingIsStranded`, `ProjectionMovesForward`, `ProjectionConverges`: order, duplicates, races and failures |
| `Transparency` | *shard*: 3 events, 2 requests in flight, 2 publications, 1 rotation; *global*: 3 shards, 2 invocations; *audit*: an auditor and a rotation; *operator*: the command twice | `LogIsTheTree`, `ProofsVerify`, `AppendsAreAcknowledged`. `CheckpointsAreKept`: no artifact goes or gets another checkpoint, and nothing of it changes before a rotation. `PublishedStands`: pointers and manifests name what is there (`PublishedIsBacked`), auditors refuse only for a reason (`AuditsAreTrue`), what was uploaded is also in the output file (`UploadsAreOnFile`). The tree algorithms agree with RFC 6962 on all trees of up to 12 leaves. |
| `ArtifactRotation` | as `Transparency` | the fifth disagreement of section 6 |
| `ReferenceRp` | *sessions*, *content*: 2 browsers and the service; *local*: the development server; *editing*, *visiting*, *writing*: the page with two functions under way, names set at any time | `ChallengeStartsOneSession`; `ServiceSessionsEnd`: an ended or expired session has no effect; `RevokedSignersHaveNoEffect`; `ServiceStoreIsBounded`; `NothingIsLost`: the versions of a note form one history; `TheChainGoesOn`: the chain holds exactly the unfinished work, one at its head. `PageIsConsistent`: a version is replaced unread, and a note shown under another's address, only after a name has selected a note under the view and until the view is next set; an address gone back to, overlapping operations, a logout and a reading of the list never do it, and of several addresses the last decides (`TheLastAddressDecides`). |
| `NotesEditor` | one note on the page and in another window, names set at any time | `NothingIsReplacedUnread`: the third disagreement of section 6 |
| `NotesAddress` | two notes, names set at any time | `NotesHaveTheirAddress`: the fourth disagreement of section 6 |
| `WalletCore` | 2 tabs; *identities*, *imports*, *devices*, *sequence* | `KeysFollowRecords` = usable records have their keys and stray keys are dead; `LocalRevocationIsConfirmed`; `RecordsMoveForward`; `ImportsAreResolved` |
| `SignIn` | 2 functions under way, 2 logins; *popups*, *session* | `CancelledLoginsHaveNoSession`, `LoginsSubmitTheirOwnProof`, `EveryLoginEnds`, `StaleSessionsDisappear` |

**Why the bounds are enough to be interesting.**

* *Registry and edge.* Two methods in flight are what every race in the object is
  between, and each may be sent again any number of times, so retries after any
  outcome are covered; a restart empties both slots at any time. Two
  authorizations for one device give every combination the code distinguishes
  (absent, own, other, revoked); two devices are the least that share a ledger.
  The clock runs 0..2 with windows of one or two seconds, so each window is open in
  some states and closed in others, and a second can pass in any await. In `Edge`
  the clock stands still in *receipts*, *walletIdentity* and *walletDevices*, where
  nothing depends on it. There is at most one rotation, of the key the scenario
  is about; reloads, failing bindings and an exhausted rate limit are left out of
  the longest scenarios and covered in the short ones. In *status* one of the
  requests that must be refused is in flight at a time, next to any other.
* *Delivery.* Two kicks and one flush give the joins and the alarm races; the crash
  may fall into any await, and what survives it (rows, alarm) is what a second one
  would find again. Two consumers may hold the same message or both sides of the
  anchor race, with a later revocation of the same device and a tombstone of
  another.
* *Transparency.* Three leaves are the least with an unbalanced tree; in *shard*
  leaves, publications, seconds and rotations are at most four together (three leaves
  with one publication, one leaf published twice on both sides of a rotation, and so
  on).
  Larger trees are covered by the assumption that TLC evaluates on all sizes up to
  `MaxTree`. Three shards in batches of two give a full and a partial batch; one
  shard grows once, the least for two manifests to differ. In *audit* the runs
  follow one another and do not fail, since *global* has the overlaps; ages and
  skew are zero, so every age is exceeded as soon as the clock moves.
* *Relying party.* One outstanding and two stored challenges put both caps within
  reach; a session lasts one second, a challenge too. Two browsers hold any two
  handlers between their awaits. *sessions* has one revocation, of either identity
  or of the device. *content* runs one request at a time, since its handlers are one
  transaction each, and goes up to five receipts. *local* has one challenge, three
  receipts and one revocation. On the page two functions are what each race is
  between; *editing* has one note with up to three versions, *visiting* two notes,
  one of them private, and two steps in the history, with notes created meanwhile;
  *writing* has creations, likes and deletions, one operation at a time. A name is
  set in each of them. What the three leave to each other, operations of every kind
  that overlap with edits and addresses at once, is covered by the theorem
  `PageStaysConsistent`, which has no scenarios.
* *Wallet.* Two tabs are what each race over the store is between. Three records
  and one device allow an import that is repeated while the first is recovered.
  Two faults (one in *identities* and *devices*) may fall on any transaction,
  answer or tab.
* *Sign-in.* Two logins are the least for a popup to answer the wrong one, one
  fault (a reload, a blocked popup, a lost call) may come at any time, and the
  timeouts are short against the clock.

Every bound is a constant (`MaxTime`, `MaxCrashes`, `MaxDoubts`, `MaxFailures`,
`MaxPublications`, `MaxGrowth`, `MaxRotations`, `MaxTree`, `MaxIssued`,
`MaxReceipts`, `MaxVersion`, `MaxRoutes`, `MaxIds`, `MaxFaults`) or a conjunct of
the scenario in the `MC` module. Callers, clients, invocations, functions of the
page and the events of a shard are interchangeable and declared as symmetry sets
in the runs without liveness properties; the others use no symmetry. Deadlock is
checked in every run. In most systems somebody can always ask again; where a
bounded behaviour may be over, the `MC` module has an action that stutters exactly
in the states in which everything has come to rest (`AllIsPublished`, `AllIsDone`,
`Rest`), so a tab or a run that hangs half way is still reported.

## 4. Fairness

* `IdentityOutbox`: weak fairness of the awaits in a kick and in the flush and of
  a set alarm. What the object cannot ensure is a premise of the properties: a queue
  that is tried again and again accepts the event at last (`QueueRecovers`; the code
  tries for ever, with the alarm), and, of `VisitedIsPublished` only, requests for the
  subject recur (`RequestsRecur`). `CommittedIsPublished` shows precisely what holds
  without the second.
* `Projector`: weak fairness of each consumer. `ProjectionConverges` has the premise
  that a message that is not acknowledged is delivered again (`MessagesRecur`: queue
  retries and the replay of dead letters).
* `WalletCore`: weak fairness of the clock and of the next step of each tab that is
  in an operation, and strong fairness of `Recover`: every now and then some tab
  lists the identities, which the application does whenever it is opened. The
  recovery of an import whose lease has not run out needs the clock.
  In *identities*, where the clock stands still and nothing is imported, the run
  checks safety only.
* `SignIn`: weak fairness of the clock, of the expiry timer, of the next step of
  each function of the page (a call is answered or fails) and of the delivery of
  messages. Nothing is assumed of the user or of the wallet, which may stay open
  for ever: the timeout has to end the login.

No fairness is assumed of clients or of the success of any particular registry
call, and none in the runs that check safety only.

## 5. Proofs

Eight modules prove, for every value of the constants that satisfies the named
assumptions (any numbers of callers, devices, tabs, consumers, requests, events, any
windows and bounds), every invariant and every action property that the passing runs
check on small instances.
Each theorem is about the specification without the scenarios of the `MC` modules,
which only select behaviours of it. No safety property here is inductive: what a step may do
depends on what its handler read several steps earlier. Each module therefore
states an inductive invariant whose main part says what a handler in flight may rely
on at each of its awaits, and derives the properties from it.

### `IdentityStateProofs`

| Theorem | States |
|---|---|
| `Invariance` | the inductive invariant `FullInv` |
| `TypeCorrectness` | `TypeOK` |
| `RowsAgreeWithEvents` | `RowsMatchEvents` (`LifecycleMatchesActions`, `RowsMatchLog`) |
| `LedgerCorrectness` | `LedgerIsSound` (`LedgerIsGapless`, `LedgerTimesOrdered`, `OperationsCommitOnce`) |
| `ReservationCorrectness` | `ReservationHolds` |
| `Refinement` | `ImplementsLifecycle` |
| `AnswerCorrectness` | `AnswersAreTrue` |
| `EffectiveStateCorrectness` | `EffectiveStateMovesForward` |
| `RegistryDeliversLedgers` | the device ledger is always one the projector accepts (`IsLedger`), and each row shows the state its ledger ends in |
| `GateIsNeverStranded` | a caller holds the gate exactly while its device mutation is going on |

`FullInv` has five parts. `StoredOK`, `CallsOK`, `ClockOK`: the rows are well typed
and consistent with each other; a method holds exactly the locals its program point
needs and never a time in the future. `GateOK`: a device mutation in flight
holds the gate, so there is at most one. `ClaimsOK`: a device mutation about to
commit owns the next ledger sequence, its operation is new, its device's row is as
it decided, and the log has no younger time than the one it stamped. `LogOK`: the
events of each device are those its row names, an operation has one event, times
are ordered. `TimesOK`: identity events are not stamped before the rows they follow.

The step lemma `StepShape` classifies each action as one of a few shapes (a call
starts, prepares, returns, registers, revokes the identity, records a device event,
everything in flight is dropped, time passes); each part of the invariant is then
preserved shape by shape, and the refinement and
`EffectiveStateMovesForward` follow from the same shapes. `AnswersInv` adds that
each event was asked for by a request (`EventsWereRequested`) and what a finished
call remembers of its answer. `RegistryDeliversLedgers` follows from it: that the
events of a device are at most its activation and then its revocation is in the rows
that name them. `GateIsNeverStranded` is the converse of `GateOK`, kept by the same
shapes: what returns, fails or is dropped by a restart leaves no gate behind.

### `IdentityOutboxProofs`

| Theorem | States |
|---|---|
| `InvHolds` | the inductive invariant `IInv` |
| `RowsAreCovered` | `PendingIsCovered` |
| `RowsAreSentOnce` | `SentOnceUnlessInDoubt` |

`PendingIsCovered` alone says that somebody is on the way to a pending row. `Covered`
says who, for each point the loop and the kicks may be at (a flush that has read
an empty queue covers nothing any more and hands over to its `finally`);
`Accounted` counts the sends of a row against its mark, the send whose mark is
outstanding, the doubts and the crashes.

### `RegistryClientProofs`

| Theorem | States |
|---|---|
| `EdgeInvHolds` | the inductive invariant `EdgeInv` of registry and edge |
| `ReceiptsAreTheClients` | `ReceiptsAnswerTheRequest` |
| `ActiveStatementsExpire` | `ActiveStatementsEndWithTheAuthorization` |
| `AuthorityIsServed` | `EdgeServesAuthority`, for any client |
| `StatementsOnlyMoveForward` | `StatementsMoveForward` |
| `ClientInvHolds` | the inductive invariant `ClientInv` of the wallet's pages |
| `WalletsBelieveTheAuthority` | `AuthorityReachesTheWallet` (`EdgeServesAuthority`, `WalletBelievesTheEdge`) |

The proof starts from `AnswersInv`. An answer waits at the edge while the registry
goes on, so `EdgeInv` says of each waiting answer (`ExchangeOK`) what stays true
of it whatever happens meanwhile: which event it names, which states can follow the
one it reports. `PagesOK` does the same for what a page has judged: an answer that
was believed is true and signed by a published key, a refusal has a reason that
does not go away. The step lemmas show that the registry's records only grow, and
each part is preserved for that reason.

The last two theorems have the hypothesis `RequestsAreTheWallets`, on top of the
assumptions on constants: a device request is of the authorization this wallet
issued to the device (or of none, the root's), and an identity revocation expects
the sequence 0. `wallet-core.ts:1846-1905` sends nothing else: the sequence it read,
0 for an identity found active, or one less than the 1 of one found revoked. The
scenarios of the wallet in `Edge` satisfy it; without it a page may ask about
an authorization that it knows is not the device's, and refuses the answer.

### `ProjectorProofs`

| Theorem | States |
|---|---|
| `InvHolds` | the inductive invariant `IInv` |
| `IdentityAgreesWithEvents` | `RowMatchesEvents` |
| `NoEventIsStranded` | `NothingIsStranded` |
| `RowsComeFromTheLedger` | `RowsAreRecorded` |
| `NothingMovesBack` | `ProjectionMovesForward` |
| `AcknowledgedStaysProjected` | once everything is acknowledged the projection has converged for good and shows of each device what its ledger says |

`NoneMissed` is the heart of it: an event whose consumer is done with the database
has taken effect, or was stored before the anchor was written, and then the
registration is not acknowledged and every consumer of it has yet to select the
events or has this one among them. `StepOK` and `AnchorOK` say what a consumer
at each step has already written. For the last theorem `RevocationOK` and
`LoggedOK` say what an applied revocation and an acknowledged message have left
behind, wherever their consumers are. The ledger is a constant;
that the registry provides what `LedgerAssumption` asks is `RegistryDeliversLedgers`.
Together the two theorems reach from one end to the other: the projection of a
ledger the registry has recorded shows, when every message is acknowledged, the
states of the registry's own rows.

### `ReferenceRpProofs`

| Theorem | States |
|---|---|
| `InvHolds` | the inductive invariant `IInv` of the worker |
| `ChallengesStartOneSession` | `ChallengeStartsOneSession` |
| `SessionsEnd` | `EndedSessionsHaveNoEffect` |
| `RevocationsTakeEffect` | `RevokedSignersHaveNoEffect` |
| `ChallengeCapsHold` | `ChallengeStoreIsBounded` |
| `NoChangeIsLost` | `NothingIsLost` |
| `LocalInvHolds` | the inductive invariant `LocalIInv` of the development server |
| `ChainGoesOn` | `TheChainGoesOn` |
| `LocalChallengesStartOneSession`, `LocalRevocationsTakeEffect`, `LocalNoChangeIsLost` | the same properties of the development server |
| `DeployedSessionsEnd`, `DeployedStoreIsBounded` | `ServiceSessionsEnd`, `ServiceStoreIsBounded` of `RelyingParty`, whichever of the two is deployed |

In the worker the last transaction looks again at what was read before the await,
so `Sound` asks little of a handler: a verified proof was made for this service, a
token had been given out, and a late request has a signer that stays in bad
standing, so that no answer lets it pass. `ChallengesOK` and `SessionsOK` relate the
stored rows to the receipts of what was done with them, `NotesOK` the changes that
were accepted to the version of their note. The development server does not look
again: there the promise chain carries the argument. `ChainOK` says that the chain
holds each client with work once and that only the work of its head has begun,
`Spent` that the challenge the head has consumed has no session yet and cannot be
presented again. `RpInv` is the invariant of whichever is deployed.

### `SignInProofs`

| Theorem | States |
|---|---|
| `InvHolds` | the inductive invariant `IInv` |
| `CancellingIsFinal` | `CancelledLoginsHaveNoSession` |
| `OwnProofIsSubmitted` | `LoginsSubmitTheirOwnProof` |
| `ShownSessionsWereStarted` | the page shows no session the service has not started |
| `BusyPagesHaveARun` | a page that shows a challenge, the wallet or a verification has a login or an operation under way that is not finished |
| `PageInvHolds` | the inductive invariant `PageInv` of `NotesPage` |
| `PageStaysConsistent` | `PageIsConsistent` of `NotesPage` |

`HeldOnce`: a challenge is held by one function of the page or by none, whatever
popups are open. `HeldOK`: who holds a challenge has not been cancelled, and has no
session as long as it can be. `Recorded`: only an issued challenge is cancelled or
has a session. The message types of `TypeOK` carry the second theorem: a popup
can post no proof but that of its own challenge.

The second half of the module is about the notes of the same page, for any notes,
any number of functions under way and all the actions at once, where the run follows
one kind of situation at a time. Nothing is assumed of when a name is set.
`EditorOK` and `Operations` say that what an operation sends as its version is what
its author had before him, unless his note was selected anew under the editor, which
the operation then carries with it (`anew`) until the service has carried it out.
`AddressOK` says the same of the address. Every function that sets the view ends the
exception; `EditorFollows` is what the others owe the editor. `RouteOK`: the function
with the last number looks for the address that is sought, unless the user has gone
elsewhere, so whichever of the others answers last, `AddressOK` stays; `LoadingOK`:
that function is still under way as long as the page is loading.

### `WalletCoreProofs`

| Theorem | States |
|---|---|
| `InvHolds` | the inductive invariant `IInv` |
| `KeysAreWhereTheyBelong` | `KeysFollowRecords` |
| `RevocationsAreConfirmed` | `LocalRevocationIsConfirmed` |
| `RecordsOnlyMoveForward` | `RecordsMoveForward` |

`OpOK` says of each step of an operation what the transaction it is about to run
needs of its record, in a form that every step of every other tab preserves:
`Moves` collects what any step does to the store at most, and is why. `ReservedOnce`
says that no two tabs are about to create the same record, `StoreOK` that each
record fits its kind, its keys and the registry, `VaultOK` that a key has the name
it was made for and is not one that was cancelled, and `LeftOK` what may be left of
a record that is gone or of its keys.

### `TransparencyProofs`

| Theorem | States |
|---|---|
| `ServiceInvHolds` | the inductive invariant `ServiceInv` |
| `AppendsAreAcknowledgedAlways` | `AppendsAreAcknowledged` |
| `TreeIsAlwaysComplete` | `TreeIsComplete`: the stored nodes are those of the complete subtrees, each the hash of the two below it, over leaves without gap or repetition |
| `LogIsAppendOnly` | no leaf, stated checkpoint or checkpoint of a published artifact changes or goes, and the tree never shrinks |
| `CheckpointsAreAlwaysKept` | `CheckpointsAreKept` |
| `PublishedAlwaysStands` | `PublishedStands` (`LatestIsBacked`, `ManifestsAreBacked`, `AuditsAreTrue`, `UploadsAreOnFile`) |
| `LogIsAlwaysTheTree` | `LogIsTheTree`: nodes and checkpoints are those of the RFC 6962 tree over the events in their order |
| `ProofsAlwaysVerify` | `ProofsVerify`: every inclusion proof verifies against the checkpoint it comes with |
| `OnlyTheLogEverVerifies` | nothing verifies against a stated root, with whatever path, but an event of the log at its own leaf |
| `ShardIsAnAppendOnlyLog` | the service implements `AppendOnlyLog`, with `Leaves` for the list and `StatedRoots` for its statements |

`ServiceInv` has one part for each of the four that act. `ShardInv`, of a shard:
`CallsOK` says what a request has read, and `CallStays` that it stays true while the
tables grow, whoever makes them grow. Only the append that is first in line hashes
(`LineOK`), so nobody takes the leaf it reserved. The shape of the tree is followed
level by level instead of with powers of two: `Widths` counts the complete subtrees
on each level, half of those on the level below, and `Climbs` says that an append
has hashed what its leaf completes up to some level, whose left siblings are stored;
hence no append finds a node missing or in its way. `PublicationInv`: a publication holds
a statement of the shard signed by a key that was in use (`SignedOK`), and a shard
states one checkpoint of a size, so whatever is written under a name is the same
checkpoint, and until the first rotation the same artifact. `AllShardsInv`: `PartOK` and `ManifestOK` say
what a run of the cron has asked, written and pointed at for each shard, while other
runs overlap and failed ones go on writing. `AuditInv`: what an auditor has
fetched was true when it was served (`PendingOK`, `IncludedOK`), and `RefusalOK`
gives each refusal a reason that does not go away. `CliInv`: one run fills the
output file (`OneFills`) and only what it filled is uploaded.

On top of it `HashInv` says what is computed from the nodes: each checkpoint is the
RFC 6962 hash of a prefix of the leaves (`RootsOK`), a request for a proof is of an
event below the size its checkpoint has, however much the tree grows meanwhile, and
the path it is answered with verifies (`ProofOK`). It rests on the first part of the module, which is
about `Merkle` alone, for trees of any size. The library's induction theorems take
an operator; here induction is over sets of numbers instead (`Inductive`,
`CompletelyInductive`), and each recursive function is first shown to exist and to
satisfy its equation (`Pow2Def`, `RangeHashesDef`, `SubtreeRootDef`,
`InclusionProofDef`). From there: the nodes of the complete subtrees are those of
the tree (`NodesAreOfTheTree`), the root recomputed from them is the tree hash
(`SubtreeRootIs`), an audit path leads from its leaf to the root through the
verifier's loop (`PathLeadsToRange`, `AuditPathVerifies`), and, hashes being
injective, no other event or leaf does (`OneProofOfALeaf`, `OnlyTheLeafVerifies`).

### Assumptions

The theorems rest on the assumptions of the modules, each evaluated by TLC on the
instances: `WindowsAssumption`, `BoundsAssumption`, `RequestsAssumption` (an
operation id is the hash of its payload) and `NullAssumption` of `IdentityState`,
`TtlAssumption` of `EdgeApi`, `ClientAssumption` of `RegistryClient`,
`OutboxAssumption`, `LedgerAssumption` and `ConsumersAssumption` of `Projector`,
`RpAssumption`, `PopupAssumption`, `SignInAssumption`, `NotesAssumption` (of the page:
the notes there are at first are notes, the actions are those it has),
`WalletAssumption`, and
`ShardAssumption`, `PublicationAssumption`, `ManifestAssumption`, `AuditAssumption`
and `CliAssumption` of the transparency modules.
`LedgerAssumption` is proved of the registry (`RegistryDeliversLedgers`).
They say that bounds and times are numbers, that caps, lifetimes and periods are
positive, that `NULL` is not one of the values beside it, and, of `WalletAssumption`,
that an authorization's activation window ends no later than the authorization.
Beside these, a hash is the term it was computed from: that SHA-256 is injective
and keeps leaves and nodes apart is used by `OnlyTheLogEverVerifies`, as it is by
every auditor.

### Only model-checked

Every invariant and every action property of the passing runs is stated by a theorem.
What TLC alone checks are the liveness properties, since fairness and `ENABLED` are
out of the provers' reach. Where a part of one is a safety property it is proved:

| Liveness property | What is proved of it |
|---|---|
| `CommittedIsPublished`, `VisitedIsPublished` | `RowsAreCovered`: a pending event has somebody on the way to it |
| `ProjectionConverges` | `AcknowledgedStaysProjected`: nothing is left but the acknowledgement of every message |
| `EveryLoginEnds` | `BusyPagesHaveARun`: a busy page has a function under way that is not finished |
| `ImportsAreResolved` | `KeysAreWhereTheyBelong`, `RecordsOnlyMoveForward`: what an unfinished import leaves can do no harm meanwhile |
| `StaleSessionsDisappear` | nothing beyond `ShownSessionsWereStarted` |

That the algorithms of `Merkle` agree with RFC 6962 is also evaluated by TLC for
every tree of up to 12 leaves, and so is the refinement of `IdentityLifecycle` on
the instance of `Registry`.

## 6. What the checks found

**Disagreements shown by a run.**

* `EdgeSelfRevocation`: a device's self-revocation that finds the root's tombstone
  of a device never activated is accepted by the registry with the root's event,
  which names no authorization; the edge requires the one of the request and
  answers `INTERNAL_ERROR`, on every retry. `device-delegation-v2.md:319` wants the
  two to converge. The wallet would accept the answer; the edge does not serve it.
* `EdgeDeviceStatus`: an identity revocation is stamped before an await; a device
  activated meanwhile, a second later, has `revokedAt < activatedAt`, which the
  edge refuses to sign for ever. This needs another method to run, and the second
  to pass, during the hash. The transaction that follows is written for the first.
  `AuthorityReachesTheWallet` shows that these two are the only answers refused.
* `NotesEditor`: a friendly name set while the editor is open selects the note
  anew. The editor keeps the text of the version it was opened with, the save sends
  the version that is now selected: an edit made meanwhile in another window is
  overwritten and the service cannot see the conflict.
* `NotesAddress`: the same answer, when the user has meanwhile opened another note,
  shows the first one under the address of the second, where the application's
  README has "Opening a note updates the browser to `/notes/<note-id>`".
  `PageIsConsistent` shows that nothing else on the page does either.
* `ArtifactRotation`: the name of an immutable artifact is its tree, its bytes also
  the key it was signed with. After a rotation the next publication of a tree that
  has not grown writes other bytes under the same name, against
  `workers/transparency/README.md:44` and the comment at
  `workers/transparency/src/index.ts:134`. `CheckpointsAreKept` shows that the
  checkpoint in it stays.

**Behaviour met while modelling that no property forbids.**

* Outbox: an event whose commit is followed by a crash before the alarm waits for
  the next request of its subject; documented in the code, and
  `CommittedIsPublished` makes the window precise.
* Wallet: a device revoked by the root (or an expired record removed) while another
  tab imports it leaves a key without a record. `StrayKeysAreDead` shows that such
  a key can never speak again. The page's key set is never loaded again, so after a
  rotation answers are refused (`KEY_NOT_FOUND`) until the page is; a stored
  revocation receipt is verified again at disposal, so old keys must stay in the
  published set for as long as wallets hold receipts.
* Page, sign-in: a logout does not make the page busy, so an operation begun before
  it returns may show the ended session until its expiry; the `finally` of one
  function clears the `abortRef` of another, after which *Cancel* does nothing and
  only the timeout ends the login; a failed logout shows the page logged out while
  the cookie lives; a slow restore can clear a fresh login.
* Page, notes: a list or an answer in flight at logout brings a private note back on
  screen; a click made while an address loads is overridden by it; the button to
  write a note in the feed makes the page free while an operation runs, so a second
  one may start beside it.
* Development server: no caps, nothing is ever deleted, an operation in flight
  commits after a logout or an expiry (the worker looks again), and a root's second
  refusal burns its challenge.
* Transparency: `latest` pointers may fall back when publications overlap; the RPC
  method writes a manifest without the shards' artifacts; the checkpoint of an idle
  shard keeps its first time, so auditors with a maximal age refuse it; an inclusion
  proof is always of the present tree, so it does not match an older manifest; the
  signer does not check that its key is in the key set.
* Operator's command: the key and `--kid` are not compared; a missing upload URL is
  noticed only after the output file is written, so that the corrected command
  is refused with the same `--output`.

## 7. What is not modelled

* Cryptography, canonical encodings and schemas (`packages/crypto`, `protocol`):
  stateless; a signature is genuine or not, a hash is injective.
* Routing, CORS, body limits, cookies, rate limit keys, logging and metrics.
* Batch routes: the single reads, item by item.
* Dead letter queues: configuration, replayed by an operator.
* Device labels, scopes, authorization history, agreement keys, continuity links,
  the catalogue's limit, the wallet's copies of registry states and the contents of
  proofs and transfer bundles: none of them decides what becomes of a key or a
  record.
* The client for V1 popup messages, which has the shape of the one modelled, and
  its refusal of a wallet without a common protocol.
* Reply addresses, share links, the error state of the list, layout, and the
  wallet's management screens, which call `WalletCore` and show its results.
* Test vectors, tests and the in-memory doubles.

## 8. Plan

Done: the registry, its outbox, edge, clients and projector; the relying party with
its popups and its development server; the wallet; the transparency service with its
publications, auditors and the operator's command; the page's sign-in and notes; all
with their runs and their proofs.

What a continuation would add, in this order:

1. A composition of registry, outbox and projector, whose safety the theorems
   `RegistryDeliversLedgers`, `RowsAreSentOnce` and `AcknowledgedStaysProjected`
   give piece by piece, with an abstract specification of the eventually consistent
   projection; and one of relying party and registry with an abstract specification
   of sessions.
2. Batch routes and the wallet's copies of registry states.
