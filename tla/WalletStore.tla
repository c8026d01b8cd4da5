---------------------------- MODULE WalletStore ----------------------------
(***************************************************************************)
(* What the pages of one wallet share: the records of the identity store,  *)
(* the key vault, and the authoritative registry behind the network.       *)
(*                                                                         *)
(* Every browser tab runs a WalletCore of its own over the same two        *)
(* databases. An operation is a sequence of awaits; each transaction of a  *)
(* database is one step, and the steps of two tabs interleave. A tab can   *)
(* be closed at any step; a transaction can fail and an answer of the      *)
(* registry can be lost. The names of the records and of their keys are    *)
(* fresh: both are the position of the record in the history.              *)
(***************************************************************************)
EXTENDS Integers, Sequences, FiniteSets, Functions

CONSTANTS
  NULL,
  Pages,                \* browser tabs of the wallet
  Devices,              \* the devices whose keys may be generated
  ActivationDeadline,   \* activationDeadline of every device authorization
  ExpiresAt,            \* expiresAt of every device authorization
  Lease,                \* DEVICE_IMPORT_RECOVERY_LEASE_SECONDS
  MaxTime,              \* bound on the clock
  MaxIds,               \* bound on the records ever begun
  MaxFaults             \* bound on closed tabs, failed steps and lost answers

ASSUME WalletAssumption ==
  /\ {ActivationDeadline, ExpiresAt, Lease, MaxTime, MaxIds, MaxFaults} \subseteq Nat
  /\ MaxIds > 0
  /\ ActivationDeadline <= ExpiresAt
  /\ "root" \notin Devices
  /\ NULL \notin {"revoked", "expired"}

VARIABLES
  now,          \* the clock of the wallet and of the registry
  identities,   \* the registry: state of the identity of each root record
  registered,   \* the registry: the devices that are active or revoked
  ids,          \* what each record was begun for: a root, or a device
  bundles,      \* the device transfers given out, by device: the root that issued it
  records,      \* the identity store
  keys,         \* the key vault: the references that hold a key or a secret
  cancelled,    \* the key vault: the references that may never hold one again
  op,           \* what each tab is doing
  faults        \* how much has gone wrong

database == <<records, keys, cancelled>>
registry == <<identities, registered>>
history  == <<ids, bundles>>

vars == <<now, registry, history, database, op, faults>>

-----------------------------------------------------------------------------
(* Records and references *)

SigningKey(n) == <<n, "signing">>
Secret(n)     == <<n, "revocation-secret">>
DeviceKey(n)  == <<n, "device-signing">>

RootRecord(n, confirmed) ==
  [kind |-> "root", state |-> "active", refs |-> {SigningKey(n), Secret(n)},
   receipt |-> confirmed, catalogue |-> {}]

Reservation(n, d, at) ==
  [kind |-> "device", device |-> d, state |-> "pending-import", refs |-> {DeviceKey(n)},
   importStartedAt |-> at, told |-> NULL]

With(n, record) == [m \in DOMAIN records \cup {n} |-> IF m = n THEN record ELSE records[m]]
Without(n)      == Restrict(records, DOMAIN records \ {n})

Stored(n) == n \in DOMAIN records

ActiveRegisteredRoot(n) ==
  /\ Stored(n)
  /\ records[n].kind = "root" /\ records[n].state = "active" /\ records[n].receipt
  /\ SigningKey(n) \in records[n].refs

Incomplete == {"pending-import", "import-cleanup-pending"}

\* A device record that may be used for signing.
SigningDevice(n) ==
  /\ Stored(n)
  /\ records[n].kind = "device" /\ records[n].state \notin Incomplete
  /\ records[n].refs # {}

-----------------------------------------------------------------------------
(* Operations of a tab *)

Idle == [step |-> "idle"]

Free(p) == op[p].step = "idle"

At(p, step) == op[p].step = step

\* The operation of p goes on at another await, or ends.
Go(p, step) == op' = [op EXCEPT ![p].step = step]
Start(p, operation) == op' = [op EXCEPT ![p] = operation]
End(p) == op' = [op EXCEPT ![p] = Idle]

Fault == faults < MaxFaults /\ faults' = faults + 1
NoFault == UNCHANGED faults

\* The next record to be begun, and what it is for.
Begin(n, what) ==
  /\ Len(ids) < MaxIds
  /\ n = Len(ids) + 1
  /\ ids' = Append(ids, what)

-----------------------------------------------------------------------------
(* The registry, as the wallet sees it *)

\* Registration is idempotent, but a revoked identity is not registered again.
AcceptRegistration(n) ==
  identities' = [identities EXCEPT ![n] = IF @ = "none" THEN "active" ELSE @]

\* A repeated revocation is answered with the receipt of the first.
AcceptRevocation(n) ==
  identities' = [identities EXCEPT ![n] = IF @ = "active" THEN "revoked" ELSE @]

DeviceState(d) ==
  IF registered[d] = "revoked" \/ identities[bundles[d]] = "revoked" THEN "revoked"
  ELSE IF now >= ExpiresAt THEN "expired"
  ELSE registered[d]

Init ==
  /\ now = 0
  /\ registered = [d \in Devices |-> "none"]
  /\ bundles = << >>
  /\ cancelled = {}
  /\ op = [p \in Pages |-> Idle]
  /\ faults = 0
  /\ \/ /\ ids = << >> /\ records = << >> /\ keys = {}
        /\ identities = [n \in 1 .. MaxIds |-> "none"]
     \/ /\ ids = <<"root">>
        /\ records = [n \in {1} |-> RootRecord(1, TRUE)]
        /\ keys = {SigningKey(1), Secret(1)}
        /\ identities = [n \in 1 .. MaxIds |-> IF n = 1 THEN "active" ELSE "none"]

Tick ==
  /\ now < MaxTime
  /\ now' = now + 1
  /\ UNCHANGED <<registry, history, database, op, faults>>

\* The tab is closed, or an await is never answered and the operation fails.
ClosePage(p) ==
  /\ ~Free(p)
  /\ Fault
  /\ End(p)
  /\ UNCHANGED <<now, registry, history, database>>
=============================================================================
