-------------------------- MODULE WalletCoreProofs --------------------------
(***************************************************************************)
(* Theorems about WalletCore, for any number of tabs, records, devices and *)
(* faults.                                                                 *)
(*                                                                         *)
(* Every tab works on one record at a time, and what it has read of it may *)
(* be stale when it writes.  OpOK says, of each step of an operation, what *)
(* is still true of its record whatever the other tabs did in between;     *)
(* Moves says what any step of any tab does at most, and is why it is.     *)
(***************************************************************************)
EXTENDS WalletCore, TLAPS

Names == 1 .. MaxIds
RootRefs(n) == {SigningKey(n), Secret(n)}
RefsOf(n) == IF ids[n] = "root" THEN RootRefs(n) ELSE {DeviceKey(n)}
AllRefs == Names \X {"signing", "revocation-secret", "device-signing"}

RootRecords == [kind : {"root"}, state : {"active", "revoked"}, refs : SUBSET AllRefs,
                receipt : BOOLEAN, catalogue : SUBSET Devices]

DeviceRecords ==
  [kind : {"device"}, device : Devices,
   state : {"pending-import", "import-cleanup-pending", "pending-activation", "active", "revoked"},
   refs : SUBSET AllRefs, importStartedAt : Nat \cup {NULL},
   told : {NULL, "none", "active", "revoked", "expired"}]

Found == [n : Names, state : Incomplete, refs : SUBSET AllRefs]

-----------------------------------------------------------------------------
(* The operations of a tab, by their steps *)

CreateSteps   == {"create-secret", "create-put", "create-cleanup", "register", "register-note"}
RevokeSteps   == {"revoke-status", "revoke-sign", "revoke-send", "revoke-note", "dispose-keys",
                  "dispose-record"}
RemoveSteps   == {"remove-keys", "remove-refs", "remove-record"}
ImportSteps   == {"import-reserve", "import-key", "import-finalize", "import-claim"}
CleanSteps    == {"recover-promote", "recover-claim", "cancel", "drop"}
ActivateSteps == {"activate-sign", "activate-send", "activate-note"}
RetireSteps   == {"self-sign", "self-send", "root-send", "root-list", "revoked-note",
                  "revoked-key", "revoked-refs"}

Creations   == [step : CreateSteps, n : Names, creating : BOOLEAN, old : Names \cup {NULL}]
Revocations == [step : RevokeSteps, n : Names, seen : RootRecords,
                method : {"signature", "secret"}, purpose : {"revoke", "dispose", "forget"}]
Removals    == [step : RemoveSteps, n : Names, refs : SUBSET AllRefs]
Issues      == [step : {"issue"}, n : Names, device : Devices]
Imports     == [step : ImportSteps, n : Names, at : Nat]
Recoveries  == [step : {"recover"}, todo : SUBSET Found]
CleanUps    == [step : CleanSteps, n : Names, refs : SUBSET AllRefs, todo : SUBSET Found]
Activations == [step : ActivateSteps, n : Names, device : Devices]
Retirements == [step : RetireSteps, n : Names, device : Devices, refs : SUBSET AllRefs]
Refreshes   == [step : {"refresh"}, n : Names,
                told : {"none", "active", "revoked", "expired"}]

Ops == {Idle} \cup Creations \cup Revocations \cup Removals \cup Issues \cup Imports
         \cup Recoveries \cup CleanUps \cup Activations \cup Retirements \cup Refreshes

\* The record of the operation is not there yet, and is for nobody else.
Reserving(o) == o.step \in {"create-secret", "create-put", "import-reserve"}

TypeOK ==
  /\ now \in Nat
  /\ identities \in [Names -> {"none", "active", "revoked"}]
  /\ registered \in [Devices -> {"none", "active", "revoked"}]
  /\ ids \in Seq({"root"} \cup Devices) /\ Len(ids) <= MaxIds
  /\ bundles \in [DOMAIN bundles -> Names] /\ DOMAIN bundles \subseteq Devices
  /\ \A n \in DOMAIN ids : ids[n] # "root" => ids[n] \in DOMAIN bundles
  /\ records \in [DOMAIN records -> RootRecords \cup DeviceRecords]
  /\ DOMAIN records \subseteq DOMAIN ids
  /\ keys \subseteq AllRefs /\ cancelled \subseteq AllRefs
  /\ op \in [Pages -> Ops]

RootName(n) == n \in DOMAIN ids /\ ids[n] = "root"
DeviceName(n) == n \in DOMAIN ids /\ ids[n] # "root"

\* No operation is about to put record n for the first time.
Placed(n) == n \in DOMAIN ids /\ \A p \in Pages : Reserving(op[p]) => op[p].n # n

Dead(n) == ~Live(ids[n])
NoKeys(n) == keys \cap RootRefs(n) = {}

-----------------------------------------------------------------------------
(* The records and the keys *)

RootFits(n, r) ==
  /\ r \in RootRecords
  /\ r.refs \in {{}, RootRefs(n)}
  /\ r.state = "active" => r.refs = RootRefs(n) /\ r.refs \subseteq keys
  /\ r.state = "revoked" => identities[n] = "revoked"

DeviceFits(n, r) ==
  /\ r \in DeviceRecords /\ r.device = ids[n]
  /\ r.refs \in {{}, {DeviceKey(n)}}
  /\ r.refs = {} => Dead(n)
  /\ r.told \in {"revoked", "expired"} => Dead(n)
  /\ r.state = "pending-import" => r.importStartedAt \in Nat
  /\ r.state \in {"pending-activation", "active"} => r.refs \subseteq keys \/ Dead(n)
  /\ r.state = "revoked" => registered[ids[n]] = "revoked"

Fits(n, r) == IF ids[n] = "root" THEN RootFits(n, r) ELSE DeviceFits(n, r)

StoreOK == \A n \in DOMAIN records : Placed(n) /\ Fits(n, records[n])

\* What may be left of a record that is gone, or of its keys.
LeftOK ==
  /\ \A n \in Names : identities[n] # "none" => RootName(n)
  /\ \A n \in DOMAIN ids :
       IF ids[n] = "root"
         THEN /\ identities[n] = "active" => Stored(n)
              /\ identities[n] = "revoked" => (Stored(n) /\ records[n].refs # {}) \/ NoKeys(n)
         ELSE DeviceKey(n) \in keys => Stored(n) \/ Dead(n)

VaultOK ==
  /\ \A ref \in keys : ref[1] \in DOMAIN ids /\ ref \in RefsOf(ref[1])
  /\ \A ref \in cancelled : DeviceName(ref[1]) /\ ref \in RefsOf(ref[1])
  /\ keys \cap cancelled = {}

-----------------------------------------------------------------------------
(* What is true of the record of an operation, at each step of it *)

Terminal(n) == identities[n] = "revoked" /\ (Stored(n) => records[n].state = "revoked")

Claimed(n) == Stored(n) => records[n].state \in {"import-cleanup-pending", "revoked"}

\* A tab that wants to finish the import knows that its key is there.
Promotable(n) ==
  Stored(n) /\ records[n].state = "pending-import" => DeviceKey(n) \in keys \/ Dead(n)

CreationOK(o) ==
  /\ RootName(o.n)
  /\ o.old # NULL => RootName(o.old) /\ Placed(o.old)
  /\ o.step \in {"create-secret", "create-put"} =>
       ~Stored(o.n) /\ identities[o.n] = "none" /\ SigningKey(o.n) \in keys
  /\ o.step = "create-put" => Secret(o.n) \in keys
  /\ ~Reserving(o) => Placed(o.n)
  /\ o.step = "register" => (identities[o.n] = "none" => Stored(o.n))
  /\ o.step = "register-note" => identities[o.n] # "none"

RevocationOK(o) ==
  /\ RootName(o.n) /\ Placed(o.n)
  /\ o.seen.refs \in {{}, RootRefs(o.n)}
  /\ o.seen.refs = {} => NoKeys(o.n)
  /\ o.step \in {"revoke-sign", "revoke-send"} => identities[o.n] # "none"
  /\ o.step = "revoke-note" => identities[o.n] = "revoked"
  /\ o.step \in {"dispose-keys", "dispose-record"} => Terminal(o.n)
  /\ o.step = "dispose-record" => NoKeys(o.n)

RemovalOK(o) ==
  /\ Placed(o.n)
  /\ o.refs \in {{}, RefsOf(o.n)}
  /\ IF ids[o.n] = "root"
       THEN /\ Terminal(o.n)
            /\ o.refs = {} \/ o.step \in {"remove-refs", "remove-record"} => NoKeys(o.n)
       ELSE Dead(o.n)

ImportOK(o) ==
  /\ DeviceName(o.n)
  /\ IF Reserving(o) THEN ~Stored(o.n) ELSE Placed(o.n)
  /\ o.step = "import-key" => Stored(o.n) \/ DeviceKey(o.n) \in cancelled \/ Dead(o.n)
  /\ o.step = "import-finalize" => Promotable(o.n)

FoundOK(r) ==
  /\ DeviceName(r.n) /\ Placed(r.n)
  /\ r.refs \in {{}, {DeviceKey(r.n)}}
  /\ r.refs = {} => Dead(r.n)

\* A record found claimed stays claimed.
TodoOK(todo) ==
  \A r \in todo : FoundOK(r) /\ (r.state = "import-cleanup-pending" => Claimed(r.n))

CleanUpOK(o) ==
  /\ FoundOK(o) /\ TodoOK(o.todo)
  /\ o.step = "recover-promote" => Promotable(o.n)
  /\ o.step \in {"cancel", "drop"} => Claimed(o.n)
  /\ o.step = "drop" => o.refs \subseteq cancelled

ActivationOK(o) ==
  /\ DeviceName(o.n) /\ Placed(o.n)
  /\ o.device = ids[o.n]
  /\ Stored(o.n) => records[o.n].state \notin Incomplete

RetirementOK(o) ==
  /\ o.step \notin {"root-send", "root-list"} =>
       DeviceName(o.n) /\ Placed(o.n) /\ o.device = ids[o.n]
  /\ o.step \in {"root-list", "revoked-note", "revoked-key", "revoked-refs"} =>
       registered[o.device] = "revoked"
  /\ o.step = "revoked-key" => o.refs \subseteq {DeviceKey(o.n)}

RefreshOK(o) ==
  /\ DeviceName(o.n) /\ Placed(o.n)
  /\ o.told \in {"revoked", "expired"} => Dead(o.n)

OpOK(o) ==
  /\ o.step \in CreateSteps   => CreationOK(o)
  /\ o.step \in RevokeSteps   => RevocationOK(o)
  /\ o.step \in RemoveSteps   => RemovalOK(o)
  /\ o.step = "issue"         => RootName(o.n)
  /\ o.step \in ImportSteps   => ImportOK(o)
  /\ o.step = "recover"       => TodoOK(o.todo)
  /\ o.step \in CleanSteps    => CleanUpOK(o)
  /\ o.step \in ActivateSteps => ActivationOK(o)
  /\ o.step \in RetireSteps   => RetirementOK(o)
  /\ o.step = "refresh"       => RefreshOK(o)

ReservedOnce ==
  \A p, q \in Pages : Reserving(op[p]) /\ Reserving(op[q]) /\ op[p].n = op[q].n => p = q

IInv ==
  /\ TypeOK
  /\ StoreOK
  /\ LeftOK
  /\ VaultOK
  /\ ReservedOnce
  /\ \A p \in Pages : OpOK(op[p])

-----------------------------------------------------------------------------
(* What any step of any tab does at most *)

\* The registry, the transfers and the clock only go on.
Later ==
  /\ now' \in Nat /\ now' >= now
  /\ DOMAIN ids \subseteq DOMAIN ids' /\ \A n \in DOMAIN ids : ids'[n] = ids[n]
  /\ DOMAIN bundles \subseteq DOMAIN bundles'
  /\ \A d \in DOMAIN bundles : bundles'[d] = bundles[d]
  /\ \A n \in Names :
       /\ identities[n] # "none" => identities'[n] # "none"
       /\ identities[n] = "revoked" => identities'[n] = "revoked"
  /\ \A d \in Devices : registered[d] = "revoked" => registered'[d] = "revoked"

\* A record may be deleted once it is revoked, dead or cancelled.
MayGo(n) ==
  IF ids[n] = "root" THEN records[n].state = "revoked"
  ELSE \/ Dead(n)
       \/ records[n].state = "import-cleanup-pending" /\ DeviceKey(n) \in cancelled

RecordMoves(n) ==
  IF n \in DOMAIN records' THEN MayBecome(n, records'[n].state) ELSE MayGo(n)

\* No step adds a key of a root whose record was placed. None takes a key of an
\* active or of an unplaced root, or of a device that can still speak, unless
\* its import was claimed.
KeysMove(n) ==
  IF ids[n] = "root"
    THEN /\ Placed(n) => keys' \cap RootRefs(n) \subseteq keys
         /\ ~Placed(n) \/ (Stored(n) /\ records[n].state = "active") =>
              keys \cap RootRefs(n) \subseteq keys'
    ELSE \/ DeviceKey(n) \in keys => DeviceKey(n) \in keys'
         \/ Dead(n)
         \/ Stored(n) => records[n].state = "import-cleanup-pending"

\* A record is placed by the operation that reserved its name.
Places(p, n) == Reserving(op[p]) /\ op[p].n = n /\ ~Reserving(op'[p])

Moves ==
  /\ Later
  /\ \A n : Placed(n) => Placed(n)'
  /\ \A n \in DOMAIN records : RecordMoves(n)
  /\ \A n \in DOMAIN records' \ DOMAIN records : \E p \in Pages : Places(p, n)
  /\ \A n \in DOMAIN ids : KeysMove(n)
  /\ \A n \in Names : identities[n] = "none" /\ identities'[n] # "none" => Stored(n)
  /\ cancelled \subseteq cancelled'

\* The operation of tab p is o afterwards.
Turns(p, o) ==
  /\ o \in Ops /\ op' = [op EXCEPT ![p] = o]
  /\ Reserving(o) => (Reserving(op[p]) /\ o.n = op[p].n) \/ o.n \notin DOMAIN ids

Kept == TypeOK' /\ StoreOK' /\ LeftOK' /\ VaultOK' /\ ReservedOnce' /\ Moves

-----------------------------------------------------------------------------
(* Lemmas about references, records and operations *)

LEMMA NamesAreNumbers ==
  ASSUME TypeOK
  PROVE  /\ DOMAIN ids = 1 .. Len(ids) /\ Len(ids) \in Nat
         /\ \A n \in DOMAIN ids : n \in Names /\ ids[n] \in {"root"} \cup Devices
         /\ \A n : DeviceName(n) => ids[n] \in DOMAIN bundles /\ ids[n] \in Devices
  BY WalletAssumption DEF TypeOK, Names, DeviceName

\* A reference names its record and no other.
LEMMA RefNames ==
  /\ \A n : SigningKey(n)[1] = n /\ Secret(n)[1] = n /\ DeviceKey(n)[1] = n
  /\ \A n : SigningKey(n) # Secret(n) /\ SigningKey(n) # DeviceKey(n) /\ Secret(n) # DeviceKey(n)
  /\ \A n, ref : ref \in RefsOf(n) => ref[1] = n
  /\ \A n, ref : ref \in RootRefs(n) => ref[1] = n
  BY DEF SigningKey, Secret, DeviceKey, RefsOf, RootRefs

LEMMA RefTypes ==
  ASSUME NEW n \in Names
  PROVE  RootRefs(n) \subseteq AllRefs /\ DeviceKey(n) \in AllRefs /\ RefsOf(n) \subseteq AllRefs
  BY DEF RootRefs, RefsOf, SigningKey, Secret, DeviceKey, AllRefs

\* The step of an operation says what it holds.
LEMMA OpKinds ==
  ASSUME NEW o \in Ops
  PROVE  /\ o.step \in CreateSteps => o \in Creations
         /\ o.step \in RevokeSteps => o \in Revocations
         /\ o.step \in RemoveSteps => o \in Removals
         /\ o.step = "issue" => o \in Issues
         /\ o.step \in ImportSteps => o \in Imports
         /\ o.step = "recover" => o \in Recoveries
         /\ o.step \in CleanSteps => o \in CleanUps
         /\ o.step \in ActivateSteps => o \in Activations
         /\ o.step \in RetireSteps => o \in Retirements
         /\ o.step = "refresh" => o \in Refreshes
         /\ o.step = "idle" => o = Idle
  BY DEF Ops, Idle, Creations, Revocations, Removals, Issues, Imports, Recoveries, CleanUps,
         Activations, Retirements, Refreshes, CreateSteps, RevokeSteps, RemoveSteps, ImportSteps,
         CleanSteps, ActivateSteps, RetireSteps

\* Dead devices stay dead.
LEMMA DeadStays ==
  ASSUME TypeOK, TypeOK', Later, NEW n, DeviceName(n), Dead(n)
  PROVE  Dead(n)'
<1>1. PICK d \in Devices : d = ids[n] /\ d \in DOMAIN bundles /\ ids'[n] = d
  BY NamesAreNumbers DEF Later, DeviceName
<1>2. bundles'[d] = bundles[d] /\ bundles[d] \in Names
  BY <1>1 DEF Later, TypeOK
<1>3. DeviceState(d) \notin {"none", "active"}
  BY <1>1 DEF Dead, Live
<1>4. CASE registered[d] = "revoked" \/ identities[bundles[d]] = "revoked"
  BY <1>1, <1>2, <1>4 DEF Later, Dead, Live, DeviceState
<1>5. CASE now >= ExpiresAt
  <2>1. now' >= ExpiresAt
    BY <1>5, WalletAssumption DEF Later, TypeOK
  <2> QED
    BY <1>1, <2>1 DEF Dead, Live, DeviceState
<1>6. registered[d] \in {"none", "active", "revoked"}
  BY <1>1 DEF TypeOK
<1> QED
  BY <1>3, <1>4, <1>5, <1>6 DEF DeviceState

\* A revoked device is dead.
LEMMA RevokedIsDead ==
  ASSUME NEW n, registered[ids[n]] = "revoked"
  PROVE  Dead(n)
  BY DEF Dead, Live, DeviceState

\* What an operation that names its record finds of it.
LEMMA NamedOps ==
  ASSUME IInv, NEW p \in Pages
  PROVE  /\ op[p] \in Ops /\ OpOK(op[p])
         /\ Reserving(op[p]) => op[p].n \in DOMAIN ids /\ ~Stored(op[p].n)
  BY DEF IInv, TypeOK, OpOK, CreationOK, ImportOK, Reserving, CreateSteps, ImportSteps,
         RootName, DeviceName

\* An unplaced root is not registered.
LEMMA UnplacedIsNew ==
  ASSUME IInv, NEW n \in DOMAIN ids, ~Placed(n)
  PROVE  ~Stored(n) /\ (ids[n] = "root" => identities[n] = "none")
<1>1. PICK p \in Pages : Reserving(op[p]) /\ op[p].n = n
  BY DEF Placed
<1> QED
  BY <1>1, NamedOps
     DEF OpOK, CreationOK, ImportOK, Reserving, CreateSteps, ImportSteps, RootName, DeviceName

\* Names are reserved once, and stay placed.
LEMMA TurningKeepsNames ==
  ASSUME IInv, NEW p \in Pages, NEW o, Turns(p, o),
         DOMAIN ids \subseteq DOMAIN ids'
  PROVE  ReservedOnce' /\ (\A n : Placed(n) => Placed(n)')
<1>1. \A q \in Pages : op'[q] = IF q = p THEN o ELSE op[q]
  BY DEF Turns, IInv, TypeOK
<1>2. ReservedOnce'
  BY <1>1, NamedOps DEF Turns, ReservedOnce, IInv
<1>3. ASSUME NEW n, Placed(n)
      PROVE  Placed(n)'
  BY <1>1, <1>3 DEF Turns, Placed
<1> QED
  BY <1>2, <1>3

-----------------------------------------------------------------------------
(* The ways a step changes what the tabs share *)

\* A record goes on fitting as long as its keys stay.
LEMMA FitsStays ==
  ASSUME TypeOK, TypeOK', Later, NEW n \in DOMAIN ids, NEW r, Fits(n, r),
         r.state \in {"pending-activation", "active"} =>
           RefsOf(n) \cap keys \subseteq keys' \/ (ids[n] # "root" /\ Dead(n))
  PROVE  Fits(n, r)'
<1>1. ids'[n] = ids[n] /\ n \in Names
  BY NamesAreNumbers DEF Later
<1>2. CASE ids[n] = "root"
  <2>1. RootFits(n, r)
    BY <1>2 DEF Fits
  <2>2. RootFits(n, r)'
    BY <1>1, <1>2, <2>1 DEF RootFits, RefsOf, Later
  <2> QED
    BY <1>1, <1>2, <2>2 DEF Fits
<1>3. CASE ids[n] # "root"
  <2>1. DeviceFits(n, r) /\ DeviceName(n)
    BY <1>3 DEF Fits, DeviceName
  <2>2. Dead(n) => Dead(n)'
    BY <2>1, DeadStays
  <2>3. registered[ids[n]] = "revoked" => registered'[ids[n]] = "revoked"
    BY <2>1, NamesAreNumbers DEF Later
  <2>4. DeviceFits(n, r)'
    BY <1>1, <1>3, <2>1, <2>2, <2>3 DEF DeviceFits, RefsOf
  <2> QED
    BY <1>1, <1>3, <2>4 DEF Fits
<1> QED
  BY <1>2, <1>3

\* A record that the step leaves alone.
LEMMA RecordStays ==
  ASSUME IInv, TypeOK', Later, \A n : Placed(n) => Placed(n)',
         NEW n \in DOMAIN records, n \in DOMAIN records', records'[n] = records[n], KeysMove(n)
  PROVE  (Placed(n) /\ Fits(n, records[n]))'
<1>1. n \in DOMAIN ids /\ Placed(n) /\ Fits(n, records[n])
  BY DEF IInv, TypeOK, StoreOK
<1>2. PICK r : r = records[n]
  OBVIOUS
<1>3. r.state \in {"pending-activation", "active"} =>
        RefsOf(n) \cap keys \subseteq keys' \/ (ids[n] # "root" /\ Dead(n))
  BY <1>1, <1>2 DEF KeysMove, RefsOf, Stored, Fits, RootFits, RootRecords
<1>4. Fits(n, r)'
  BY <1>1, <1>2, <1>3, FitsStays DEF IInv
<1> QED
  BY <1>1, <1>2, <1>4

\* Nothing that a record or a key depends on changes.
LEMMA NothingMoves ==
  ASSUME IInv, NEW p \in Pages, NEW o, Turns(p, o),
         UNCHANGED <<now, registry, history, database>>
  PROVE  Kept
<1>1. TypeOK'
  BY DEF IInv, TypeOK, Turns, registry, history, database
<1>2. ReservedOnce' /\ (\A n : Placed(n) => Placed(n)')
  BY TurningKeepsNames DEF history
<1>3. Later
  BY DEF Later, IInv, TypeOK, registry, history
<1>4. \A n \in DOMAIN ids : KeysMove(n)
  BY DEF KeysMove, database
<1>5. StoreOK'
  BY <1>1, <1>2, <1>3, <1>4, RecordStays DEF StoreOK, IInv, TypeOK, database
<1>6. LeftOK'
  <2>1. \A n : Dead(n)' = Dead(n)
    BY DEF Dead, Live, DeviceState, registry, history
  <2> QED
    BY <2>1 DEF IInv, LeftOK, RootName, NoKeys, Stored, registry, history, database
<1>7. VaultOK'
  BY DEF IInv, VaultOK, DeviceName, RefsOf, history, database
<1>8. \A n \in DOMAIN records : RecordMoves(n)
  BY DEF RecordMoves, MayBecome, IInv, TypeOK, RootRecords, DeviceRecords, database
<1> QED
  BY <1>1, <1>2, <1>3, <1>4, <1>5, <1>6, <1>7, <1>8 DEF Kept, Moves, registry, database

\* Of a name and its record, with the registry and the keys as they are, or
\* with one transfer more.
SameWorld ==
  /\ UNCHANGED <<now, registry, ids, keys, cancelled>>
  /\ DOMAIN bundles \subseteq DOMAIN bundles' /\ DOMAIN bundles' \subseteq Devices
  /\ bundles' \in [DOMAIN bundles' -> Names]
  /\ \A d \in DOMAIN bundles : bundles'[d] = bundles[d]

LEMMA SameWorldIsLater ==
  ASSUME IInv, SameWorld
  PROVE  /\ Later /\ UNCHANGED <<now, identities, registered, ids, keys, cancelled>>
         /\ \A n \in DOMAIN ids : KeysMove(n)
         /\ VaultOK'
<1>1. UNCHANGED <<now, identities, registered, ids, keys, cancelled>>
  BY DEF SameWorld, registry
<1> QED
  BY <1>1 DEF SameWorld, Later, KeysMove, IInv, TypeOK, VaultOK, DeviceName, RefsOf

LEMMA SameMayBecome ==
  ASSUME IInv, NEW n \in DOMAIN records
  PROVE  MayBecome(n, records[n].state)
  BY DEF MayBecome, IInv, TypeOK, RootRecords, DeviceRecords

\* One record changes.
LEMMA RecordChanges ==
  ASSUME IInv, NEW p \in Pages, NEW o, Turns(p, o), SameWorld,
         NEW n \in DOMAIN records, NEW r,
         records' = [records EXCEPT ![n] = r],
         Fits(n, r), MayBecome(n, r.state),
         ids[n] = "root" /\ r.refs = {} => NoKeys(n)
  PROVE  Kept
<1>1. Later /\ UNCHANGED <<now, identities, registered, ids, keys, cancelled>>
      /\ (\A m \in DOMAIN ids : KeysMove(m)) /\ VaultOK'
  BY SameWorldIsLater
<1>2. ReservedOnce' /\ (\A m : Placed(m) => Placed(m)')
  BY <1>1, TurningKeepsNames
<1>3. r \in RootRecords \cup DeviceRecords
  BY DEF Fits, RootFits, DeviceFits
<1>4. DOMAIN records' = DOMAIN records
      /\ \A m \in DOMAIN records : records'[m] = IF m = n THEN r ELSE records[m]
  BY DEF IInv, TypeOK
<1>5. TypeOK'
  BY <1>1, <1>3, <1>4 DEF IInv, TypeOK, Turns, SameWorld
<1>6. n \in DOMAIN ids /\ Placed(n)
  BY DEF IInv, TypeOK, StoreOK
<1>7. Fits(n, r)'
  BY <1>1, <1>5, <1>6, FitsStays DEF IInv
<1>8. StoreOK'
  <2> SUFFICES ASSUME NEW m \in DOMAIN records'
               PROVE  (Placed(m) /\ Fits(m, records[m]))'
    BY DEF StoreOK
  <2>1. CASE m = n
    BY <1>2, <1>4, <1>6, <1>7, <2>1
  <2>2. CASE m # n
    <3>1. m \in DOMAIN records /\ records'[m] = records[m] /\ KeysMove(m)
      BY <1>1, <1>4, <2>2 DEF IInv, TypeOK
    <3> QED
      BY <1>1, <1>2, <1>5, <3>1, RecordStays
  <2> QED
    BY <2>1, <2>2
<1>9. LeftOK'
  <2>1. \A m \in DOMAIN ids : ids[m] # "root" => (Dead(m) => Dead(m)')
    BY <1>1, <1>5, DeadStays DEF DeviceName, IInv
  <2> QED
    BY <1>1, <1>4, <2>1 DEF IInv, LeftOK, RootName, NoKeys, Stored
<1>10. \A m \in DOMAIN records : RecordMoves(m)
  BY <1>4, SameMayBecome DEF RecordMoves
<1> QED
  BY <1>1, <1>2, <1>4, <1>5, <1>8, <1>9, <1>10 DEF Kept, Moves

\* One record goes.
LEMMA RecordGoes ==
  ASSUME IInv, NEW p \in Pages, NEW o, Turns(p, o), SameWorld,
         NEW n \in DOMAIN ids, records' = Without(n), Stored(n) => MayGo(n),
         ids[n] = "root" => NoKeys(n)
  PROVE  Kept
<1>1. Later /\ UNCHANGED <<now, identities, registered, ids, keys, cancelled>>
      /\ (\A m \in DOMAIN ids : KeysMove(m)) /\ VaultOK'
  BY SameWorldIsLater
<1>2. ReservedOnce' /\ (\A m : Placed(m) => Placed(m)')
  BY <1>1, TurningKeepsNames
<1>3. DOMAIN records' = DOMAIN records \ {n}
      /\ \A m \in DOMAIN records' : records'[m] = records[m]
  BY DEF Without, Restrict
<1>4. records' \in [DOMAIN records' -> RootRecords \cup DeviceRecords]
  BY <1>3 DEF IInv, TypeOK, Without, Restrict
<1>5. TypeOK'
  BY <1>1, <1>3, <1>4 DEF IInv, TypeOK, Turns, SameWorld
<1>6. StoreOK'
  <2> SUFFICES ASSUME NEW m \in DOMAIN records'
               PROVE  (Placed(m) /\ Fits(m, records[m]))'
    BY DEF StoreOK
  <2>1. m \in DOMAIN records /\ records'[m] = records[m] /\ KeysMove(m)
    BY <1>1, <1>3 DEF IInv, TypeOK
  <2> QED
    BY <1>1, <1>2, <1>5, <2>1, RecordStays
<1>7. LeftOK'
  <2>1. \A m \in DOMAIN ids : ids[m] # "root" => (Dead(m) => Dead(m)')
    BY <1>1, <1>5, DeadStays DEF DeviceName, IInv
  <2>2. ids[n] # "root" /\ DeviceKey(n) \in keys => Dead(n)
    BY DEF MayGo, IInv, LeftOK, VaultOK
  <2>3. ids[n] = "root" => identities[n] # "active"
    BY DEF MayGo, IInv, LeftOK, StoreOK, Fits, RootFits, Stored
  <2> QED
    BY <1>1, <1>3, <2>1, <2>2, <2>3 DEF IInv, LeftOK, RootName, NoKeys, Stored
<1>8. \A m \in DOMAIN records : RecordMoves(m)
  BY <1>3, SameMayBecome DEF RecordMoves, Stored
<1> QED
  BY <1>1, <1>2, <1>3, <1>5, <1>6, <1>7, <1>8 DEF Kept, Moves

\* A record is placed under the name reserved for it.
LEMMA RecordComes ==
  ASSUME IInv, NEW p \in Pages, NEW o, Turns(p, o), SameWorld,
         NEW n, NEW r, Reserving(op[p]), op[p].n = n, ~Reserving(o),
         records' = With(n, r), Fits(n, r)
  PROVE  Kept
<1>1. Later /\ UNCHANGED <<now, identities, registered, ids, keys, cancelled>>
      /\ (\A m \in DOMAIN ids : KeysMove(m)) /\ VaultOK'
  BY SameWorldIsLater
<1>2. ReservedOnce' /\ (\A m : Placed(m) => Placed(m)')
  BY <1>1, TurningKeepsNames
<1>3. n \in DOMAIN ids /\ n \notin DOMAIN records
  BY NamedOps DEF Stored
<1>4. r \in RootRecords \cup DeviceRecords
  BY DEF Fits, RootFits, DeviceFits
<1>5. DOMAIN records' = DOMAIN records \cup {n}
      /\ \A m \in DOMAIN records' : records'[m] = IF m = n THEN r ELSE records[m]
  BY DEF With
<1>6. records' \in [DOMAIN records' -> RootRecords \cup DeviceRecords]
  BY <1>4, <1>5 DEF IInv, TypeOK, With
<1>7. TypeOK'
  BY <1>1, <1>3, <1>5, <1>6 DEF IInv, TypeOK, Turns, SameWorld
<1>8. op'[p] = o /\ \A q \in Pages \ {p} : op'[q] = op[q]
  BY DEF Turns, IInv, TypeOK
<1>9. Placed(n)'
  BY <1>1, <1>3, <1>8 DEF Placed, IInv, ReservedOnce
<1>10. Fits(n, r)'
  BY <1>1, <1>3, <1>7, FitsStays DEF IInv
<1>11. StoreOK'
  <2> SUFFICES ASSUME NEW m \in DOMAIN records'
               PROVE  (Placed(m) /\ Fits(m, records[m]))'
    BY DEF StoreOK
  <2>1. CASE m = n
    BY <1>5, <1>9, <1>10, <2>1
  <2>2. CASE m # n
    <3>1. m \in DOMAIN records /\ records'[m] = records[m] /\ KeysMove(m)
      BY <1>1, <1>5, <2>2 DEF IInv, TypeOK
    <3> QED
      BY <1>1, <1>2, <1>7, <3>1, RecordStays
  <2> QED
    BY <2>1, <2>2
<1>12. LeftOK'
  <2>1. \A m \in DOMAIN ids : ids[m] # "root" => (Dead(m) => Dead(m)')
    BY <1>1, <1>7, DeadStays DEF DeviceName, IInv
  <2>2. ids[n] = "root" => identities[n] = "none"
    BY <1>3, UnplacedIsNew DEF Placed
  <2> QED
    BY <1>1, <1>3, <1>5, <2>1, <2>2 DEF IInv, LeftOK, RootName, NoKeys, Stored
<1>13. \A m \in DOMAIN records : RecordMoves(m)
  BY <1>3, <1>5, SameMayBecome DEF RecordMoves
<1>14. \A m \in DOMAIN records' \ DOMAIN records : \E q \in Pages : Places(q, m)
  BY <1>5, <1>8 DEF Places
<1> QED
  BY <1>1, <1>2, <1>7, <1>11, <1>12, <1>13, <1>14 DEF Kept, Moves

\* Nothing happens to the records when their keys or the registry change.
LEMMA RecordsStay ==
  ASSUME IInv, TypeOK', Later, \A n : Placed(n) => Placed(n)', records' = records,
         \A n \in DOMAIN ids : KeysMove(n)
  PROVE  StoreOK' /\ (\A n \in DOMAIN records : RecordMoves(n))
<1>1. \A n \in DOMAIN records : n \in DOMAIN ids
  BY DEF IInv, TypeOK
<1>2. StoreOK'
  BY <1>1, RecordStays DEF StoreOK
<1> QED
  BY <1>2, SameMayBecome DEF RecordMoves

\* Keys of one name go, and their references may be cancelled.
LEMMA KeysGo ==
  ASSUME IInv, NEW p \in Pages, NEW o, Turns(p, o),
         NEW n \in DOMAIN ids, Placed(n), NEW refs, refs \subseteq RefsOf(n),
         keys' = keys \ refs,
         \/ cancelled' = cancelled
         \/ cancelled' = cancelled \cup refs /\ DeviceName(n),
         UNCHANGED <<now, registry, history, records>>,
         ids[n] = "root" => ~(Stored(n) /\ records[n].state = "active"),
         ids[n] # "root" =>
           Dead(n) \/ (Stored(n) => records[n].state = "import-cleanup-pending")
  PROVE  Kept
<1>1. UNCHANGED <<now, identities, registered, ids, bundles, records>>
  BY DEF registry, history
<1>2. ReservedOnce' /\ (\A m : Placed(m) => Placed(m)')
  BY <1>1, TurningKeepsNames
<1>3. Later
  BY <1>1 DEF Later, IInv, TypeOK
<1>4. refs \subseteq AllRefs
  BY RefTypes, NamesAreNumbers DEF IInv
<1>5. TypeOK'
  BY <1>1, <1>4 DEF IInv, TypeOK, Turns
<1>6. \A m \in DOMAIN ids : KeysMove(m)
  <2>1. \A m \in DOMAIN ids \ {n} : refs \cap RefsOf(m) = {}
    BY RefNames
  <2> QED
    BY <2>1 DEF KeysMove, RefsOf
<1>7. StoreOK' /\ (\A m \in DOMAIN records : RecordMoves(m))
  BY <1>1, <1>2, <1>3, <1>5, <1>6, RecordsStay
<1>8. VaultOK'
  BY <1>1, RefNames DEF IInv, VaultOK, DeviceName, RefsOf
<1>9. LeftOK'
  <2>1. \A m : Dead(m)' = Dead(m)
    BY <1>1 DEF Dead, Live, DeviceState
  <2> QED
    BY <1>1, <2>1 DEF IInv, LeftOK, RootName, NoKeys, Stored
<1> QED
  BY <1>1, <1>2, <1>3, <1>5, <1>6, <1>7, <1>8, <1>9 DEF Kept, Moves

\* A key comes: of a root while its name is reserved, of a device when its
\* record is there.
LEMMA KeyComes ==
  ASSUME IInv, NEW p \in Pages, NEW o, Turns(p, o),
         NEW n \in DOMAIN ids, NEW ref \in RefsOf(n), ref \notin cancelled,
         keys' = keys \cup {ref},
         UNCHANGED <<now, registry, history, records, cancelled>>,
         IF ids[n] = "root" THEN ~Placed(n) ELSE Stored(n) \/ Dead(n)
  PROVE  Kept
<1>1. UNCHANGED <<now, identities, registered, ids, bundles, records, cancelled>>
  BY DEF registry, history
<1>2. ReservedOnce' /\ (\A m : Placed(m) => Placed(m)')
  BY <1>1, TurningKeepsNames
<1>3. Later
  BY <1>1 DEF Later, IInv, TypeOK
<1>4. ref \in AllRefs
  BY RefTypes, NamesAreNumbers DEF IInv
<1>5. TypeOK'
  BY <1>1, <1>4 DEF IInv, TypeOK, Turns
<1>6. \A m \in DOMAIN ids \ {n} : ref \notin RefsOf(m)
  BY RefNames
<1>7. \A m \in DOMAIN ids : KeysMove(m)
  BY <1>6 DEF KeysMove, RefsOf
<1>8. StoreOK' /\ (\A m \in DOMAIN records : RecordMoves(m))
  BY <1>1, <1>2, <1>3, <1>5, <1>7, RecordsStay
<1>9. VaultOK'
  <2>1. ref[1] = n
    BY RefNames
  <2> QED
    BY <1>1, <2>1 DEF IInv, VaultOK, DeviceName, RefsOf
<1>10. LeftOK'
  <2>1. \A m : Dead(m)' = Dead(m)
    BY <1>1 DEF Dead, Live, DeviceState
  <2>2. ids[n] = "root" => identities[n] = "none"
    BY UnplacedIsNew
  <2> QED
    BY <1>1, <1>6, <2>1, <2>2 DEF IInv, LeftOK, RootName, NoKeys, Stored, RefsOf
<1> QED
  BY <1>1, <1>2, <1>3, <1>5, <1>7, <1>8, <1>9, <1>10 DEF Kept, Moves

\* A name is taken for a record to be begun, with the first key of a root.
LEMMA NameComes ==
  ASSUME IInv, NEW p \in Pages, NEW o, Turns(p, o),
         NEW n, NEW what, Begin(n, what),
         \/ what = "root" /\ keys' = keys \cup {SigningKey(n)}
         \/ what \in DOMAIN bundles /\ keys' = keys,
         UNCHANGED <<now, registry, bundles, records, cancelled>>
  PROVE  /\ Kept
         /\ DOMAIN ids' = DOMAIN ids \cup {n} /\ ids'[n] = what
         /\ n \notin DOMAIN ids /\ n \in Names
<1>1. UNCHANGED <<now, identities, registered, bundles, records, cancelled>>
  BY DEF registry
<1>2. /\ ids \in Seq({"root"} \cup Devices) /\ what \in {"root"} \cup Devices
      /\ Len(ids) < MaxIds /\ n = Len(ids) + 1 /\ ids' = Append(ids, what)
  BY DEF Begin, IInv, TypeOK
<1>3. /\ ids' \in Seq({"root"} \cup Devices) /\ Len(ids') = Len(ids) + 1
      /\ DOMAIN ids = 1 .. Len(ids) /\ DOMAIN ids' = 1 .. (Len(ids) + 1)
      /\ ids'[n] = what /\ \A m \in DOMAIN ids : ids'[m] = ids[m]
      /\ Len(ids) \in Nat
  BY <1>2
<1>4. Len(ids') <= MaxIds /\ n \in Names /\ n \notin DOMAIN ids
      /\ DOMAIN ids' = DOMAIN ids \cup {n}
  BY <1>2, <1>3, WalletAssumption DEF Names
<1>5. ReservedOnce' /\ (\A m : Placed(m) => Placed(m)')
  BY <1>4, TurningKeepsNames
<1>6. Later
  BY <1>1, <1>3, <1>4 DEF Later, IInv, TypeOK
<1>7. what # "root" => what \in DOMAIN bundles
  OBVIOUS
<1>8. SigningKey(n) \in AllRefs
  BY <1>4 DEF SigningKey, AllRefs
<1>9. TypeOK'
  BY <1>1, <1>3, <1>4, <1>7, <1>8 DEF IInv, TypeOK, Turns
<1>10. \A m \in DOMAIN ids : SigningKey(n) \notin RefsOf(m) /\ SigningKey(n) \notin RootRefs(m)
  BY <1>4, RefNames
<1>11. \A m \in DOMAIN ids : KeysMove(m)
  BY <1>10 DEF KeysMove
<1>12. StoreOK' /\ (\A m \in DOMAIN records : RecordMoves(m))
  BY <1>1, <1>5, <1>6, <1>9, <1>11, RecordsStay
<1>13. VaultOK'
  <2>1. \A ref \in keys \cup cancelled : ref[1] \in DOMAIN ids /\ ref \in RefsOf(ref[1])
    BY DEF IInv, VaultOK, DeviceName
  <2>2. \A ref \in keys \cup cancelled : ref[1] \in DOMAIN ids' /\ RefsOf(ref[1])' = RefsOf(ref[1])
    BY <1>3, <1>4, <2>1 DEF RefsOf
  <2>3. SigningKey(n)[1] = n /\ (what = "root" => SigningKey(n) \in RefsOf(n)')
    BY <1>3, RefNames DEF RefsOf, RootRefs
  <2>4. SigningKey(n) \notin cancelled
    BY <1>4, <2>1, <2>3
  <2>5. \A ref \in keys' : ref[1] \in DOMAIN ids' /\ ref \in RefsOf(ref[1])'
    BY <1>4, <2>1, <2>2, <2>3
  <2>6. \A ref \in cancelled : DeviceName(ref[1])' /\ ref \in RefsOf(ref[1])'
    BY <1>3, <2>1, <2>2 DEF IInv, VaultOK, DeviceName
  <2> QED
    BY <1>1, <2>4, <2>5, <2>6 DEF IInv, VaultOK
<1>14. LeftOK'
  <2>1. \A m \in DOMAIN ids : Dead(m)' = Dead(m)
    BY <1>1, <1>3 DEF Dead, Live, DeviceState
  <2>2. n \notin DOMAIN records /\ identities[n] = "none"
    BY <1>4 DEF IInv, TypeOK, LeftOK, RootName
  <2>3. DeviceKey(n) \notin keys
    BY <1>4, RefNames DEF IInv, VaultOK
  <2>4. what # "root" => DeviceKey(n) \notin keys'
    BY <2>3
  <2>5. \A m \in DOMAIN ids : (DeviceKey(m) \in keys' <=> DeviceKey(m) \in keys)
                              /\ (NoKeys(m) => NoKeys(m)')
    BY <1>10, RefNames DEF NoKeys
  <2>6. \A m \in Names : identities'[m] # "none" => RootName(m)'
    BY <1>1, <1>3, <1>4 DEF IInv, LeftOK, RootName
  <2>7. \A m \in DOMAIN ids : Stored(m)' = Stored(m) /\ records' = records
    BY <1>1 DEF Stored
  <2>8. ASSUME NEW m \in DOMAIN ids
        PROVE  IF ids'[m] = "root"
                 THEN /\ identities'[m] = "active" => Stored(m)'
                      /\ identities'[m] = "revoked" =>
                           (Stored(m)' /\ records'[m].refs # {}) \/ NoKeys(m)'
                 ELSE DeviceKey(m) \in keys' => Stored(m)' \/ Dead(m)'
    BY <1>1, <1>3, <2>1, <2>5, <2>7 DEF IInv, LeftOK
  <2> QED
    BY <1>1, <1>3, <1>4, <2>2, <2>4, <2>6, <2>8 DEF LeftOK
<1> QED
  BY <1>1, <1>3, <1>4, <1>5, <1>6, <1>9, <1>11, <1>12, <1>13, <1>14 DEF Kept, Moves

\* The registry answers about the identity of a root that has a record or had
\* one, or about a device; or time passes.
LEMMA RegistryMoves ==
  ASSUME IInv, TypeOK', Later, UNCHANGED <<history, database>>,
         ReservedOnce', \A n : Placed(n) => Placed(n)',
         \A n \in Names : identities'[n] # identities[n] =>
           /\ RootName(n) /\ Placed(n)
           /\ identities[n] = "none" => identities'[n] = "active" /\ Stored(n)
           /\ identities[n] = "active" => identities'[n] = "revoked"
  PROVE  Kept
<1>1. UNCHANGED <<ids, bundles, records, keys, cancelled>>
  BY DEF history, database
<1>2. \A n \in DOMAIN ids : KeysMove(n)
  BY <1>1 DEF KeysMove
<1>3. StoreOK' /\ (\A n \in DOMAIN records : RecordMoves(n))
  BY <1>1, <1>2, RecordsStay
<1>4. VaultOK'
  BY <1>1 DEF IInv, VaultOK, DeviceName, RefsOf
<1>5. LeftOK'
  <2>1. \A n \in DOMAIN ids : ids[n] # "root" => (Dead(n) => Dead(n)')
    BY DeadStays DEF DeviceName, IInv
  <2>2. \A n \in DOMAIN ids : n \in Names
    BY NamesAreNumbers DEF IInv
  <2>3. \A n \in DOMAIN records : ids[n] = "root" /\ identities[n] = "active" =>
          records[n].refs # {}
    BY DEF IInv, StoreOK, Fits, RootFits, RootRefs, RootRecords
  <2>4. \A n \in Names : identities'[n] # "none" => RootName(n)'
    BY <1>1 DEF IInv, LeftOK, RootName
  <2>5. ASSUME NEW n \in DOMAIN ids, ids[n] = "root"
        PROVE  /\ identities'[n] = "active" => Stored(n)'
               /\ identities'[n] = "revoked" =>
                    (Stored(n)' /\ records'[n].refs # {}) \/ NoKeys(n)'
    <3>1. identities[n] \in {"none", "active", "revoked"}
      BY <2>2 DEF IInv, TypeOK
    <3>2. n \in Names /\ Stored(n)' = Stored(n) /\ NoKeys(n)' = NoKeys(n) /\ records' = records
      BY <1>1, <2>2 DEF NoKeys, Stored
    <3>3. /\ identities[n] = "active" => Stored(n) /\ records[n].refs # {}
          /\ identities[n] = "revoked" => (Stored(n) /\ records[n].refs # {}) \/ NoKeys(n)
      BY <2>3, <2>5 DEF IInv, LeftOK, Stored
    <3>4. CASE identities'[n] = identities[n]
      BY <3>2, <3>3, <3>4
    <3>5. CASE identities'[n] # identities[n]
      BY <3>1, <3>2, <3>3, <3>5 DEF Later
    <3> QED
      BY <3>4, <3>5
  <2>6. ASSUME NEW n \in DOMAIN ids, ids[n] # "root"
        PROVE  DeviceKey(n) \in keys' => Stored(n)' \/ Dead(n)'
    BY <1>1, <2>1, <2>6 DEF IInv, LeftOK, Stored
  <2> QED
    BY <1>1, <2>4, <2>5, <2>6 DEF LeftOK
<1>6. \A n \in Names : identities[n] = "none" /\ identities'[n] # "none" => Stored(n)
  OBVIOUS
<1> QED
  BY <1>1, <1>2, <1>3, <1>4, <1>5, <1>6 DEF Kept, Moves

LEMMA IdentityMoves ==
  ASSUME IInv, NEW p \in Pages, NEW o, Turns(p, o), NEW n, RootName(n), Placed(n),
         \/ AcceptRegistration(n) /\ (identities[n] = "none" => Stored(n))
         \/ AcceptRevocation(n),
         UNCHANGED <<now, registered, history, database>>
  PROVE  Kept
<1>1. n \in Names /\ identities[n] \in {"none", "active", "revoked"}
  BY NamesAreNumbers DEF IInv, RootName, TypeOK
<1>2. identities' \in [Names -> {"none", "active", "revoked"}]
  BY <1>1 DEF AcceptRegistration, AcceptRevocation, IInv, TypeOK
<1>3. \A m \in Names : identities'[m] # identities[m] =>
        /\ m = n
        /\ identities[m] = "none" => identities'[m] = "active" /\ Stored(m)
        /\ identities[m] = "active" => identities'[m] = "revoked"
        /\ identities[m] # "revoked"
  BY <1>1 DEF AcceptRegistration, AcceptRevocation, IInv, TypeOK
<1>4. TypeOK'
  BY <1>2 DEF IInv, TypeOK, Turns, history, database
<1>5. Later
  <2>1. \A m \in Names : /\ identities[m] # "none" => identities'[m] # "none"
                         /\ identities[m] = "revoked" => identities'[m] = "revoked"
    BY <1>1, <1>3
  <2> QED
    BY <2>1 DEF Later, IInv, TypeOK, history
<1>6. ReservedOnce' /\ (\A m : Placed(m) => Placed(m)')
  BY TurningKeepsNames DEF history
<1> QED
  BY <1>3, <1>4, <1>5, <1>6, RegistryMoves

LEMMA DeviceMoves ==
  ASSUME IInv, NEW p \in Pages, NEW o, Turns(p, o), NEW d \in Devices,
         NEW state \in {"active", "revoked"},
         registered' = [registered EXCEPT ![d] = state],
         registered[d] = "revoked" => state = "revoked",
         UNCHANGED <<now, identities, history, database>>
  PROVE  Kept
<1>1. TypeOK'
  BY DEF IInv, TypeOK, Turns, history, database
<1>2. Later
  BY DEF Later, IInv, TypeOK, history
<1>3. ReservedOnce' /\ (\A m : Placed(m) => Placed(m)')
  BY TurningKeepsNames DEF history
<1> QED
  BY <1>1, <1>2, <1>3, RegistryMoves

LEMMA TimeMoves ==
  ASSUME IInv, Tick
  PROVE  Kept /\ op' = op
<1>1. now' = now + 1 /\ UNCHANGED <<identities, registered, ids, bundles, records, keys, cancelled, op>>
  BY DEF Tick, registry, history, database
<1>2. TypeOK'
  BY <1>1 DEF IInv, TypeOK
<1>3. Later
  BY <1>1 DEF Later, IInv, TypeOK
<1>4. ReservedOnce' /\ (\A m : Placed(m) => Placed(m)')
  BY <1>1 DEF IInv, ReservedOnce, Placed
<1> QED
  BY <1>1, <1>2, <1>3, <1>4, RegistryMoves DEF history, database

-----------------------------------------------------------------------------
(* What holds of an operation goes on holding, whatever the others do *)

\* A name keeps what it is for.
LEMMA NamesStay ==
  ASSUME Later
  PROVE  /\ \A n : RootName(n) => RootName(n)' /\ RefsOf(n)' = RefsOf(n)
         /\ \A n : DeviceName(n) => DeviceName(n)' /\ ids'[n] = ids[n] /\ RefsOf(n)' = RefsOf(n)
  BY DEF Later, RootName, DeviceName, RefsOf

LEMMA TerminalStays ==
  ASSUME IInv, Kept, NEW n, RootName(n), Placed(n)
  PROVE  /\ Terminal(n) => Terminal(n)'
         /\ NoKeys(n) => NoKeys(n)'
         /\ Stored(n) /\ ~Stored(n)' => identities[n] = "revoked"
<1>1. n \in Names /\ n \in DOMAIN ids /\ ids[n] = "root"
  BY NamesAreNumbers DEF RootName, IInv
<1>2. n \in DOMAIN records' => n \in DOMAIN records
  BY DEF Kept, Moves, Places, Placed
<1>3. Terminal(n) => Terminal(n)'
  <2>1. n \in DOMAIN records' =>
          MayBecome(n, records'[n].state) /\ records'[n].state # "gone"
    BY <1>2 DEF Kept, Moves, RecordMoves, TypeOK, RootRecords, DeviceRecords
  <2> QED
    BY <1>1, <1>2, <2>1 DEF Terminal, Stored, Kept, Moves, Later, MayBecome
<1>4. NoKeys(n) => NoKeys(n)'
  BY <1>1 DEF Kept, Moves, KeysMove, NoKeys
<1>5. Stored(n) /\ ~Stored(n)' => identities[n] = "revoked"
  BY <1>1 DEF Stored, Kept, Moves, RecordMoves, MayGo, IInv, StoreOK, Fits, RootFits
<1> QED
  BY <1>3, <1>4, <1>5

LEMMA ClaimedStays ==
  ASSUME IInv, Kept, NEW n, DeviceName(n), Placed(n)
  PROVE  /\ Claimed(n) => Claimed(n)'
         /\ Promotable(n) => Promotable(n)'
         /\ Dead(n) => Dead(n)'
         /\ Stored(n) /\ ~Stored(n)' => Dead(n)' \/ DeviceKey(n) \in cancelled'
         /\ (Stored(n) => records[n].state \notin Incomplete) =>
              (Stored(n)' => records'[n].state \notin Incomplete)
<1>1. n \in DOMAIN ids /\ ids[n] # "root"
  BY DEF DeviceName
<1>2. n \in DOMAIN records' => n \in DOMAIN records
  BY DEF Kept, Moves, Places, Placed
<1>3. Dead(n) => Dead(n)'
  BY DeadStays DEF Kept, Moves, IInv
<1>4. n \in DOMAIN records => records[n].state \in {"pending-import", "import-cleanup-pending",
                                                    "pending-activation", "active", "revoked"}
  BY <1>1 DEF IInv, StoreOK, Fits, DeviceFits, DeviceRecords
<1>5. n \in DOMAIN records' => MayBecome(n, records'[n].state) /\ records'[n].state # "gone"
  BY <1>2 DEF Kept, Moves, RecordMoves, TypeOK, RootRecords, DeviceRecords
<1>6. Claimed(n) => Claimed(n)'
  BY <1>2, <1>5 DEF Claimed, Stored, MayBecome
<1>7. Promotable(n) => Promotable(n)'
  <2>1. n \in DOMAIN records' /\ records'[n].state = "pending-import" =>
          records[n].state = "pending-import"
    BY <1>2, <1>4, <1>5 DEF MayBecome
  <2>2. KeysMove(n)
    BY <1>1 DEF Kept, Moves
  <2> QED
    BY <1>1, <1>2, <1>3, <2>1, <2>2 DEF Promotable, Stored, KeysMove
<1>8. Stored(n) /\ ~Stored(n)' => Dead(n)' \/ DeviceKey(n) \in cancelled'
  BY <1>1, <1>3 DEF Stored, Kept, Moves, RecordMoves, MayGo
<1>9. (Stored(n) => records[n].state \notin Incomplete) =>
        (Stored(n)' => records'[n].state \notin Incomplete)
  BY <1>2, <1>4, <1>5 DEF Stored, MayBecome, Incomplete
<1> QED
  BY <1>3, <1>6, <1>7, <1>8, <1>9

LEMMA FoundStays ==
  ASSUME IInv, Kept, NEW r, FoundOK(r)
  PROVE  FoundOK(r)' /\ (Claimed(r.n) => Claimed(r.n)')
<1>1. DeviceName(r.n)' /\ Placed(r.n)'
  BY NamesStay DEF FoundOK, Kept, Moves
<1> QED
  BY <1>1, ClaimedStays DEF FoundOK

LEMMA TodoStays ==
  ASSUME IInv, Kept, NEW todo, TodoOK(todo)
  PROVE  TodoOK(todo)'
  BY FoundStays DEF TodoOK

\* A reserved name has no record but the one its operation puts.
LEMMA ReservedStays ==
  ASSUME IInv, Kept, NEW q \in Pages, NEW o, op[q] = o, op'[q] = o, Reserving(o)
  PROVE  /\ ~Stored(o.n)' /\ ~Placed(o.n)
         /\ RootName(o.n) /\ identities[o.n] = "none" => identities'[o.n] = "none"
         /\ RootName(o.n) => keys \cap RootRefs(o.n) \subseteq keys'
<1>1. o.n \in DOMAIN ids /\ ~Stored(o.n)
  BY NamedOps
<1>2. ~Placed(o.n)
  BY DEF Placed
<1>3. ~Stored(o.n)'
  BY <1>1 DEF Kept, Moves, Places, Stored, IInv, ReservedOnce
<1>4. RootName(o.n) /\ identities[o.n] = "none" => identities'[o.n] = "none"
  BY <1>1, NamesAreNumbers DEF Kept, Moves, IInv
<1>5. RootName(o.n) => keys \cap RootRefs(o.n) \subseteq keys'
  BY <1>1, <1>2 DEF Kept, Moves, KeysMove, RootName
<1> QED
  BY <1>2, <1>3, <1>4, <1>5

LEMMA CreationStays ==
  ASSUME IInv, Kept, NEW o, CreationOK(o),
         Reserving(o) => \E q \in Pages : op[q] = o /\ op'[q] = o
  PROVE  CreationOK(o)'
<1>1. RootName(o.n) /\ RootName(o.n)' /\ o.n \in Names
  BY NamesStay, NamesAreNumbers DEF CreationOK, Kept, Moves, RootName, IInv
<1>2. o.old # NULL => RootName(o.old)' /\ Placed(o.old)'
  BY NamesStay DEF CreationOK, Kept, Moves
<1>3. CASE Reserving(o)
  <2>1. /\ ~Stored(o.n)'
        /\ identities[o.n] = "none" => identities'[o.n] = "none"
        /\ keys \cap RootRefs(o.n) \subseteq keys'
    BY <1>1, <1>3, ReservedStays
  <2>2. SigningKey(o.n) \in RootRefs(o.n) /\ Secret(o.n) \in RootRefs(o.n)
    BY DEF RootRefs
  <2> QED
    BY <1>1, <1>2, <1>3, <2>1, <2>2 DEF CreationOK, Reserving
<1>4. CASE ~Reserving(o)
  <2>1. Placed(o.n) /\ Placed(o.n)'
    BY <1>4 DEF CreationOK, Kept, Moves
  <2>2. /\ identities[o.n] # "none" => identities'[o.n] # "none"
        /\ identities[o.n] = "revoked" => identities'[o.n] = "revoked"
    BY <1>1 DEF Kept, Moves, Later
  <2>3. Stored(o.n) /\ ~Stored(o.n)' => identities[o.n] = "revoked"
    BY <1>1, <2>1, TerminalStays
  <2> QED
    BY <1>1, <1>2, <1>4, <2>1, <2>2, <2>3 DEF CreationOK, Reserving
<1> QED
  BY <1>3, <1>4

LEMMA RevocationStays ==
  ASSUME IInv, Kept, NEW o, RevocationOK(o)
  PROVE  RevocationOK(o)'
<1>1. RootName(o.n) /\ RootName(o.n)' /\ o.n \in Names /\ Placed(o.n) /\ Placed(o.n)'
  BY NamesStay, NamesAreNumbers DEF RevocationOK, Kept, Moves, RootName, IInv
<1>2. /\ identities[o.n] # "none" => identities'[o.n] # "none"
      /\ identities[o.n] = "revoked" => identities'[o.n] = "revoked"
  BY <1>1 DEF Kept, Moves, Later
<1>3. (Terminal(o.n) => Terminal(o.n)') /\ (NoKeys(o.n) => NoKeys(o.n)')
  BY <1>1, TerminalStays
<1> QED
  BY <1>1, <1>2, <1>3 DEF RevocationOK

LEMMA RemovalStays ==
  ASSUME IInv, Kept, NEW o, RemovalOK(o)
  PROVE  RemovalOK(o)'
<1>1. Placed(o.n) /\ Placed(o.n)' /\ o.n \in DOMAIN ids /\ ids'[o.n] = ids[o.n]
  BY DEF RemovalOK, Kept, Moves, Placed, Later
<1>2. RefsOf(o.n)' = RefsOf(o.n)
  BY <1>1 DEF RefsOf
<1>3. CASE ids[o.n] = "root"
  <2>1. (Terminal(o.n) => Terminal(o.n)') /\ (NoKeys(o.n) => NoKeys(o.n)')
    BY <1>1, <1>3, TerminalStays DEF RootName
  <2> QED
    BY <1>1, <1>2, <1>3, <2>1 DEF RemovalOK
<1>4. CASE ids[o.n] # "root"
  <2>1. Dead(o.n) => Dead(o.n)'
    BY <1>1, <1>4, ClaimedStays DEF DeviceName
  <2> QED
    BY <1>1, <1>2, <1>4, <2>1 DEF RemovalOK
<1> QED
  BY <1>3, <1>4

LEMMA ImportStays ==
  ASSUME IInv, Kept, NEW o, ImportOK(o),
         Reserving(o) => \E q \in Pages : op[q] = o /\ op'[q] = o
  PROVE  ImportOK(o)'
<1>1. DeviceName(o.n) /\ DeviceName(o.n)'
  BY NamesStay DEF ImportOK, Kept, Moves
<1>2. CASE Reserving(o)
  <2>1. ~Stored(o.n)' /\ o.step \notin {"import-key", "import-finalize"}
    BY <1>2, ReservedStays DEF Reserving
  <2> QED
    BY <1>1, <1>2, <2>1 DEF ImportOK
<1>3. CASE ~Reserving(o)
  <2>1. Placed(o.n) /\ Placed(o.n)'
    BY <1>3 DEF ImportOK, Kept, Moves
  <2>2. DeviceKey(o.n) \in cancelled => DeviceKey(o.n) \in cancelled'
    BY DEF Kept, Moves
  <2> QED
    BY <1>1, <1>3, <2>1, <2>2, ClaimedStays DEF ImportOK
<1> QED
  BY <1>2, <1>3

LEMMA CleanUpStays ==
  ASSUME IInv, Kept, NEW o, CleanUpOK(o)
  PROVE  CleanUpOK(o)'
<1>1. FoundOK(o)' /\ (Claimed(o.n) => Claimed(o.n)') /\ TodoOK(o.todo)'
  BY FoundStays, TodoStays DEF CleanUpOK
<1>2. Promotable(o.n) => Promotable(o.n)'
  BY ClaimedStays DEF CleanUpOK, FoundOK
<1>3. cancelled \subseteq cancelled'
  BY DEF Kept, Moves
<1> QED
  BY <1>1, <1>2, <1>3 DEF CleanUpOK

LEMMA ActivationStays ==
  ASSUME IInv, Kept, NEW o, ActivationOK(o)
  PROVE  ActivationOK(o)'
<1>1. DeviceName(o.n)' /\ Placed(o.n)' /\ ids'[o.n] = ids[o.n]
  BY NamesStay DEF ActivationOK, Kept, Moves
<1>2. Stored(o.n)' => records'[o.n].state \notin Incomplete
  BY ClaimedStays DEF ActivationOK
<1> QED
  BY <1>1, <1>2 DEF ActivationOK

LEMMA RetirementStays ==
  ASSUME IInv, Kept, NEW o \in Retirements, RetirementOK(o)
  PROVE  RetirementOK(o)'
<1>1. DeviceName(o.n) => DeviceName(o.n)' /\ ids'[o.n] = ids[o.n]
  BY NamesStay DEF Kept, Moves
<1>2. Placed(o.n) => Placed(o.n)'
  BY DEF Kept, Moves
<1>3. registered[o.device] = "revoked" => registered'[o.device] = "revoked"
  BY DEF Kept, Moves, Later, Retirements
<1> QED
  BY <1>1, <1>2, <1>3 DEF RetirementOK

LEMMA RefreshStays ==
  ASSUME IInv, Kept, NEW o, RefreshOK(o)
  PROVE  RefreshOK(o)'
<1>1. DeviceName(o.n)' /\ Placed(o.n)'
  BY NamesStay DEF RefreshOK, Kept, Moves
<1>2. Dead(o.n) => Dead(o.n)'
  BY ClaimedStays DEF RefreshOK
<1> QED
  BY <1>1, <1>2 DEF RefreshOK

\* The operation of a tab that does not move, or of one that keeps its name.
LEMMA OpStays ==
  ASSUME IInv, Kept, NEW o \in Ops, OpOK(o),
         Reserving(o) => \E q \in Pages : op[q] = o /\ op'[q] = o
  PROVE  OpOK(o)'
<1>1. o.step \in CreateSteps => CreationOK(o)'
  BY CreationStays DEF OpOK
<1>2. o.step \in RevokeSteps => RevocationOK(o)'
  BY RevocationStays DEF OpOK
<1>3. o.step \in RemoveSteps => RemovalOK(o)'
  BY RemovalStays DEF OpOK
<1>4. o.step = "issue" => RootName(o.n)'
  BY NamesStay DEF OpOK, Kept, Moves
<1>5. o.step \in ImportSteps => ImportOK(o)'
  BY ImportStays DEF OpOK
<1>6. o.step = "recover" => TodoOK(o.todo)'
  BY TodoStays DEF OpOK
<1>7. o.step \in CleanSteps => CleanUpOK(o)'
  BY CleanUpStays DEF OpOK
<1>8. o.step \in ActivateSteps => ActivationOK(o)'
  BY ActivationStays DEF OpOK
<1>9. o.step \in RetireSteps => RetirementOK(o)'
  BY RetirementStays, OpKinds DEF OpOK
<1>10. o.step = "refresh" => RefreshOK(o)'
  BY RefreshStays DEF OpOK
<1> QED
  BY <1>1, <1>2, <1>3, <1>4, <1>5, <1>6, <1>7, <1>8, <1>9, <1>10 DEF OpOK

\* A step of one tab keeps the invariant, if its own operation is right
\* afterwards.
LEMMA TurningKeepsInv ==
  ASSUME IInv, Kept, NEW p \in Pages, NEW o, Turns(p, o), OpOK(o)'
  PROVE  IInv' /\ Moves
<1>1. \A q \in Pages : op'[q] = IF q = p THEN o ELSE op[q]
  BY DEF Turns, IInv, TypeOK
<1>2. ASSUME NEW q \in Pages
      PROVE  OpOK(op[q])'
  <2>1. CASE q = p
    BY <1>1, <2>1
  <2>2. CASE q # p
    <3>1. PICK w : w = op[q]
      OBVIOUS
    <3>2. w \in Ops /\ OpOK(w) /\ op'[q] = w
      BY <1>1, <2>2, <3>1 DEF IInv, TypeOK
    <3>3. OpOK(w)'
      BY <3>1, <3>2, OpStays
    <3> QED
      BY <3>2, <3>3
  <2> QED
    BY <2>1, <2>2
<1> QED
  BY <1>2 DEF Kept, IInv

\* The operation of a tab goes on, or begins, and what it needs holds already.
LEMMA QuietTurn ==
  ASSUME IInv, NEW p \in Pages, NEW o, Turns(p, o), OpOK(o),
         Reserving(o) => op[p] = o,
         UNCHANGED <<now, registry, history, database>>
  PROVE  IInv' /\ Moves
<1>1. Kept
  BY NothingMoves
<1>2. op'[p] = o /\ o \in Ops
  BY DEF Turns, IInv, TypeOK
<1>3. OpOK(o)'
  BY <1>1, <1>2, OpStays
<1> QED
  BY <1>1, <1>3, TurningKeepsInv

-----------------------------------------------------------------------------
(* An operation goes on or ends *)

Safe == IInv' /\ Moves

LEMMA IdleOK == Idle \in Ops /\ OpOK(Idle) /\ OpOK(Idle)' /\ ~Reserving(Idle)
  BY DEF Idle, Ops, OpOK, Reserving, CreateSteps, RevokeSteps, RemoveSteps, ImportSteps,
         CleanSteps, ActivateSteps, RetireSteps

LEMMA Ending ==
  ASSUME NEW p \in Pages, End(p)
  PROVE  Turns(p, Idle)
  BY IdleOK DEF Turns, End

LEMMA QuietEnd ==
  ASSUME IInv, NEW p \in Pages, End(p), UNCHANGED <<now, registry, history, database>>
  PROVE  Safe
  BY Ending, IdleOK, QuietTurn DEF Safe

\* The next step of an operation, of whatever kind, holds what this one holds.
LEMMA GoingOn ==
  ASSUME NEW w, NEW s, NEW next, next = [w EXCEPT !.step = s]
  PROVE  /\ w \in Creations /\ s \in CreateSteps =>
              /\ next \in Creations /\ next.step = s
              /\ next.n = w.n /\ next.creating = w.creating /\ next.old = w.old
         /\ w \in Revocations /\ s \in RevokeSteps =>
              /\ next \in Revocations /\ next.step = s /\ next.n = w.n /\ next.seen = w.seen
              /\ next.method = w.method /\ next.purpose = w.purpose
         /\ w \in Removals /\ s \in RemoveSteps =>
              next \in Removals /\ next.step = s /\ next.n = w.n /\ next.refs = w.refs
         /\ w \in Imports /\ s \in ImportSteps =>
              next \in Imports /\ next.step = s /\ next.n = w.n /\ next.at = w.at
         /\ w \in CleanUps /\ s \in CleanSteps =>
              /\ next \in CleanUps /\ next.step = s /\ next.n = w.n
              /\ next.refs = w.refs /\ next.todo = w.todo
         /\ w \in Activations /\ s \in ActivateSteps =>
              next \in Activations /\ next.step = s /\ next.n = w.n /\ next.device = w.device
         /\ w \in Retirements /\ s \in RetireSteps =>
              /\ next \in Retirements /\ next.step = s /\ next.n = w.n
              /\ next.device = w.device /\ next.refs = w.refs
<1>1. w \in Creations /\ s \in CreateSteps =>
        /\ next \in Creations /\ next.step = s
        /\ next.n = w.n /\ next.creating = w.creating /\ next.old = w.old
  BY DEF Creations
<1>2. w \in Revocations /\ s \in RevokeSteps =>
        /\ next \in Revocations /\ next.step = s /\ next.n = w.n /\ next.seen = w.seen
        /\ next.method = w.method /\ next.purpose = w.purpose
  BY DEF Revocations
<1>3. w \in Removals /\ s \in RemoveSteps =>
        next \in Removals /\ next.step = s /\ next.n = w.n /\ next.refs = w.refs
  BY DEF Removals
<1>4. w \in Imports /\ s \in ImportSteps =>
        next \in Imports /\ next.step = s /\ next.n = w.n /\ next.at = w.at
  BY DEF Imports
<1>5. w \in CleanUps /\ s \in CleanSteps =>
        /\ next \in CleanUps /\ next.step = s /\ next.n = w.n
        /\ next.refs = w.refs /\ next.todo = w.todo
  BY DEF CleanUps
<1>6. w \in Activations /\ s \in ActivateSteps =>
        next \in Activations /\ next.step = s /\ next.n = w.n /\ next.device = w.device
  BY DEF Activations
<1>7. w \in Retirements /\ s \in RetireSteps =>
        /\ next \in Retirements /\ next.step = s /\ next.n = w.n
        /\ next.device = w.device /\ next.refs = w.refs
  BY DEF Retirements
<1> QED
  BY <1>1, <1>2, <1>3, <1>4, <1>5, <1>6, <1>7

LEMMA GoingTurns ==
  ASSUME NEW p \in Pages, NEW s, Go(p, s), NEW next, next = [op[p] EXCEPT !.step = s],
         next \in Ops, ~Reserving(next) \/ (Reserving(op[p]) /\ next.n = op[p].n)
  PROVE  Turns(p, next)
  BY DEF Turns, Go

LEMMA StartingTurns ==
  ASSUME NEW p \in Pages, NEW o \in Ops, Start(p, o), ~Reserving(o)
  PROVE  Turns(p, o)
  BY DEF Turns, Start

\* The kinds of operations are apart.
LEMMA StepKinds ==
  ASSUME NEW o
  PROVE  /\ CreationOK(o) /\ o.step \in CreateSteps => OpOK(o)
         /\ RevocationOK(o) /\ o.step \in RevokeSteps => OpOK(o)
         /\ RemovalOK(o) /\ o.step \in RemoveSteps => OpOK(o)
         /\ RootName(o.n) /\ o.step = "issue" => OpOK(o)
         /\ ImportOK(o) /\ o.step \in ImportSteps => OpOK(o)
         /\ TodoOK(o.todo) /\ o.step = "recover" => OpOK(o)
         /\ CleanUpOK(o) /\ o.step \in CleanSteps => OpOK(o)
         /\ ActivationOK(o) /\ o.step \in ActivateSteps => OpOK(o)
         /\ RetirementOK(o) /\ o.step \in RetireSteps => OpOK(o)
         /\ RefreshOK(o) /\ o.step = "refresh" => OpOK(o)
  BY DEF OpOK, CreateSteps, RevokeSteps, RemoveSteps, ImportSteps, CleanSteps, ActivateSteps,
         RetireSteps

\* The same of the state after a step.
LEMMA StepKindsAfter ==
  ASSUME NEW o
  PROVE  /\ CreationOK(o)' /\ o.step \in CreateSteps => OpOK(o)'
         /\ RevocationOK(o)' /\ o.step \in RevokeSteps => OpOK(o)'
         /\ RemovalOK(o)' /\ o.step \in RemoveSteps => OpOK(o)'
         /\ ImportOK(o)' /\ o.step \in ImportSteps => OpOK(o)'
         /\ TodoOK(o.todo)' /\ o.step = "recover" => OpOK(o)'
         /\ CleanUpOK(o)' /\ o.step \in CleanSteps => OpOK(o)'
         /\ ActivationOK(o)' /\ o.step \in ActivateSteps => OpOK(o)'
         /\ RetirementOK(o)' /\ o.step \in RetireSteps => OpOK(o)'
  BY DEF OpOK, CreateSteps, RevokeSteps, RemoveSteps, ImportSteps, CleanSteps, ActivateSteps,
         RetireSteps

\* What a step finds of the records it may take.
LEMMA StoredRecords ==
  ASSUME IInv, NEW n \in DOMAIN records
  PROVE  /\ n \in DOMAIN ids /\ n \in Names /\ Placed(n) /\ Stored(n) /\ Fits(n, records[n])
         /\ records[n].kind = "root" <=> ids[n] = "root"
         /\ ids[n] = "root" => RootName(n) /\ RootFits(n, records[n])
         /\ ids[n] # "root" => DeviceName(n) /\ DeviceFits(n, records[n])
         /\ ids[n] # "root" => records[n].device = ids[n] /\ records[n].device \in Devices
  BY NamesAreNumbers
     DEF IInv, TypeOK, StoreOK, Stored, Fits, RootFits, DeviceFits, RootName, DeviceName,
         RootRecords, DeviceRecords

\* A root whose references were dropped is revoked, and has no keys.
LEMMA DroppedRefs ==
  ASSUME IInv, NEW n \in DOMAIN records, ids[n] = "root"
  PROVE  /\ records[n].refs = {} => NoKeys(n)
         /\ records[n].state = "revoked" => Terminal(n)
<1>1. RootFits(n, records[n]) /\ n \in Names /\ n \in DOMAIN ids
  BY StoredRecords
<1>2. records[n].state \in {"active", "revoked"}
  BY <1>1 DEF RootFits, RootRecords
<1>3. records[n].refs = {} => identities[n] = "revoked"
  BY <1>1, <1>2 DEF RootFits, RootRefs
<1> QED
  BY <1>1, <1>3 DEF IInv, LeftOK, Terminal, RootFits

-----------------------------------------------------------------------------
(* createIdentity and registerIdentity *)

LEMMA CreateSigningKeySafe ==
  ASSUME IInv, NEW p \in Pages, CreateSigningKey(p)
  PROVE  Safe
<1> PICK n : n = Len(ids) + 1
  OBVIOUS
<1>1. PICK old \in {NULL} \cup {m \in DOMAIN records : ActiveRegisteredRoot(m)} :
        /\ Begin(n, "root")
        /\ keys' = keys \cup {SigningKey(n)}
        /\ Start(p, [step |-> "create-secret", n |-> n, creating |-> TRUE, old |-> old])
  BY DEF CreateSigningKey
<1>2. PICK o : o = [step |-> "create-secret", n |-> n, creating |-> TRUE, old |-> old]
  OBVIOUS
<1>3. n \in Names /\ n \notin DOMAIN ids
  BY <1>1, NamesAreNumbers, WalletAssumption DEF Begin, Names, IInv
<1>4. old # NULL => old \in DOMAIN records /\ RootName(old) /\ Placed(old) /\ old \in Names
  BY StoredRecords DEF ActiveRegisteredRoot
<1>5. o \in Creations /\ o.step = "create-secret" /\ o.n = n /\ o.old = old
  BY <1>2, <1>3, <1>4 DEF Creations, CreateSteps
<1>6. Turns(p, o)
  BY <1>1, <1>2, <1>3, <1>5 DEF Turns, Start, Ops
<1>7. /\ Kept
      /\ DOMAIN ids' = DOMAIN ids \cup {n} /\ ids'[n] = "root"
  BY <1>1, <1>6, NameComes DEF CreateSigningKey
<1>8. old # NULL => RootName(old)' /\ Placed(old)'
  BY <1>4, <1>7, NamesStay DEF Kept, Moves
<1>9. n \notin DOMAIN records' /\ identities'[n] = "none" /\ SigningKey(n) \in keys'
  <2>1. n \notin DOMAIN records /\ identities[n] = "none"
    BY <1>3 DEF IInv, TypeOK, LeftOK, RootName
  <2> QED
    BY <1>1, <2>1 DEF CreateSigningKey, registry
<1>10. CreationOK(o)'
  BY <1>5, <1>7, <1>8, <1>9 DEF CreationOK, RootName, Stored, Reserving
<1>11. OpOK(o)'
  BY <1>5, <1>10, StepKindsAfter DEF CreateSteps
<1> QED
  BY <1>6, <1>7, <1>11, TurningKeepsInv DEF Safe

\* What holds at the steps of a creation, when it ends in a clean-up.
LEMMA CleaningUp ==
  ASSUME IInv, NEW p \in Pages, op[p].step \in CreateSteps,
         NEW o, o = [op[p] EXCEPT !.step = "create-cleanup"]
  PROVE  /\ op[p] \in Creations /\ CreationOK(op[p])
         /\ o \in Creations /\ o \in Ops /\ o.step = "create-cleanup" /\ ~Reserving(o)
         /\ o.n = op[p].n /\ o.old = op[p].old
         /\ RootName(o.n) /\ o.n \in DOMAIN ids
<1>1. op[p] \in Creations /\ CreationOK(op[p])
  BY NamedOps, OpKinds DEF OpOK
<1>2. o \in Creations /\ o.step = "create-cleanup" /\ o.n = op[p].n /\ o.old = op[p].old
  BY <1>1, GoingOn DEF CreateSteps
<1> QED
  BY <1>1, <1>2 DEF Ops, Reserving, CreationOK, RootName

\* Of an unplaced name the operation lets go, the record is placed or given up.
LEMMA LettingGo ==
  ASSUME IInv, Kept, NEW p \in Pages, Reserving(op[p]), NEW o, Turns(p, o), ~Reserving(o),
         NEW n, op[p].n = n
  PROVE  Placed(n)'
<1>1. n \in DOMAIN ids
  BY NamedOps
<1>2. op'[p] = o /\ \A q \in Pages \ {p} : op'[q] = op[q]
  BY DEF Turns, IInv, TypeOK
<1> QED
  BY <1>1, <1>2 DEF Placed, Kept, Moves, Later, IInv, ReservedOnce

LEMMA StoreRevocationSecretSafe ==
  ASSUME IInv, NEW p \in Pages, StoreRevocationSecret(p)
  PROVE  Safe
<1> PICK n : n = op[p].n
  OBVIOUS
<1>1. op[p] \in Creations /\ CreationOK(op[p]) /\ Reserving(op[p])
      /\ op[p].step = "create-secret" /\ n \in Names
  <2>1. op[p].step = "create-secret"
    BY DEF StoreRevocationSecret, At
  <2>2. op[p] \in Creations /\ CreationOK(op[p])
    BY <2>1, NamedOps, OpKinds DEF OpOK, CreateSteps
  <2> QED
    BY <2>1, <2>2 DEF Reserving, Creations
<1>2. RootName(n) /\ ~Placed(n) /\ ~Stored(n) /\ identities[n] = "none" /\ SigningKey(n) \in keys
  BY <1>1 DEF CreationOK, Placed
<1>3. CASE NoFault /\ keys' = keys \cup {Secret(n)} /\ Go(p, "create-put")
  <2>1. PICK o : o = [op[p] EXCEPT !.step = "create-put"]
    OBVIOUS
  <2>2. o \in Creations /\ o.step = "create-put" /\ o.n = n /\ o.old = op[p].old
    BY <1>1, <2>1, GoingOn DEF CreateSteps
  <2>3. Turns(p, o)
    BY <1>1, <1>3, <2>1, <2>2, GoingTurns DEF Ops
  <2>4. Secret(n) \in RefsOf(n) /\ Secret(n) \notin cancelled /\ n \in DOMAIN ids
    BY <1>2, RefNames DEF RefsOf, RootRefs, RootName, IInv, VaultOK, DeviceName
  <2>5. Kept
    BY <1>2, <1>3, <2>3, <2>4, KeyComes DEF StoreRevocationSecret, RootName
  <2>6. /\ UNCHANGED <<ids, records, identities>>
        /\ keys' = keys \cup {Secret(n)}
    BY <1>3 DEF StoreRevocationSecret, registry, history
  <2>7. o.old # NULL => RootName(o.old)' /\ Placed(o.old)'
    BY <1>1, <2>2, <2>5, NamesStay DEF CreationOK, Kept, Moves
  <2>8. CreationOK(o)'
    BY <1>2, <2>2, <2>6, <2>7 DEF CreationOK, RootName, Stored, Reserving
  <2>9. OpOK(o)'
    BY <2>2, <2>8, StepKindsAfter DEF CreateSteps
  <2> QED
    BY <2>3, <2>5, <2>9, TurningKeepsInv DEF Safe
<1>4. CASE Fault /\ Go(p, "create-cleanup") /\ UNCHANGED keys
  <2>1. PICK o : o = [op[p] EXCEPT !.step = "create-cleanup"]
    OBVIOUS
  <2>2. /\ o \in Creations /\ o \in Ops /\ o.step = "create-cleanup" /\ ~Reserving(o)
        /\ o.n = n /\ o.old = op[p].old
    BY <1>1, <2>1, CleaningUp DEF CreateSteps
  <2>3. Turns(p, o)
    BY <1>4, <2>1, <2>2, GoingTurns
  <2>4. Kept
    BY <1>4, <2>3, NothingMoves DEF StoreRevocationSecret, database
  <2>5. Placed(n)'
    BY <1>1, <2>2, <2>3, <2>4, LettingGo
  <2>6. RootName(n)' /\ (o.old # NULL => RootName(o.old)' /\ Placed(o.old)')
    BY <1>1, <1>2, <2>2, <2>4, NamesStay DEF CreationOK, Kept, Moves
  <2>7. CreationOK(o)'
    BY <2>2, <2>5, <2>6 DEF CreationOK
  <2>8. OpOK(o)'
    BY <2>2, <2>7, StepKindsAfter DEF CreateSteps
  <2> QED
    BY <2>3, <2>4, <2>8, TurningKeepsInv DEF Safe
<1> QED
  BY <1>3, <1>4 DEF StoreRevocationSecret

LEMMA PutRecordSafe ==
  ASSUME IInv, NEW p \in Pages, PutRecord(p)
  PROVE  Safe
<1> PICK n : n = op[p].n
  OBVIOUS
<1>1. op[p] \in Creations /\ CreationOK(op[p]) /\ Reserving(op[p])
      /\ op[p].step = "create-put" /\ n \in Names
  <2>1. op[p].step = "create-put"
    BY DEF PutRecord, At
  <2>2. op[p] \in Creations /\ CreationOK(op[p])
    BY <2>1, NamedOps, OpKinds DEF OpOK, CreateSteps
  <2> QED
    BY <2>1, <2>2 DEF Reserving, Creations
<1>2. /\ RootName(n) /\ ~Placed(n) /\ ~Stored(n) /\ identities[n] = "none"
      /\ SigningKey(n) \in keys /\ Secret(n) \in keys
  BY <1>1 DEF CreationOK, Placed
<1>3. CASE /\ NoFault
           /\ records' = With(n, RootRecord(n, FALSE))
           /\ Go(p, "register")
  <2>1. PICK o, r : o = [op[p] EXCEPT !.step = "register"] /\ r = RootRecord(n, FALSE)
    OBVIOUS
  <2>2. o \in Creations /\ o.step = "register" /\ o.n = n /\ o.old = op[p].old
    BY <1>1, <2>1, GoingOn DEF CreateSteps
  <2>3. Turns(p, o) /\ ~Reserving(o)
    BY <1>3, <2>1, <2>2, GoingTurns DEF Ops, Reserving
  <2>4. Fits(n, r)
    BY <1>1, <1>2, <2>1, RefTypes
       DEF Fits, RootFits, RootRecord, RootRecords, RootRefs, RootName
  <2>5. SameWorld
    BY DEF PutRecord, SameWorld, history, IInv, TypeOK
  <2>6. Kept
    BY <1>1, <1>3, <2>1, <2>3, <2>4, <2>5, RecordComes
  <2>7. Placed(n)'
    BY <1>1, <2>3, <2>6, LettingGo
  <2>8. RootName(n)' /\ (o.old # NULL => RootName(o.old)' /\ Placed(o.old)')
    BY <1>1, <1>2, <2>2, <2>6, NamesStay DEF CreationOK, Kept, Moves
  <2>9. n \in DOMAIN records'
    BY <1>3 DEF With
  <2>10. CreationOK(o)'
    BY <2>2, <2>7, <2>8, <2>9 DEF CreationOK, Stored
  <2>11. OpOK(o)'
    BY <2>2, <2>10, StepKindsAfter DEF CreateSteps
  <2> QED
    BY <2>3, <2>6, <2>11, TurningKeepsInv DEF Safe
<1>4. CASE Fault /\ Go(p, "create-cleanup") /\ UNCHANGED records
  <2>1. PICK o : o = [op[p] EXCEPT !.step = "create-cleanup"]
    OBVIOUS
  <2>2. /\ o \in Creations /\ o \in Ops /\ o.step = "create-cleanup" /\ ~Reserving(o)
        /\ o.n = n /\ o.old = op[p].old
    BY <1>1, <2>1, CleaningUp DEF CreateSteps
  <2>3. Turns(p, o)
    BY <1>4, <2>1, <2>2, GoingTurns
  <2>4. Kept
    BY <1>4, <2>3, NothingMoves DEF PutRecord, database
  <2>5. Placed(n)'
    BY <1>1, <2>2, <2>3, <2>4, LettingGo
  <2>6. RootName(n)' /\ (o.old # NULL => RootName(o.old)' /\ Placed(o.old)')
    BY <1>1, <1>2, <2>2, <2>4, NamesStay DEF CreationOK, Kept, Moves
  <2>7. CreationOK(o)'
    BY <2>2, <2>5, <2>6 DEF CreationOK
  <2>8. OpOK(o)'
    BY <2>2, <2>7, StepKindsAfter DEF CreateSteps
  <2> QED
    BY <2>3, <2>4, <2>8, TurningKeepsInv DEF Safe
<1> QED
  BY <1>3, <1>4 DEF PutRecord

\* The clean-up finds the record of an identity that may be active.
LEMMA CleanUpCreationSafe ==
  ASSUME IInv, NEW p \in Pages, CleanUpCreation(p)
  PROVE  Safe
<1> PICK n : n = op[p].n
  OBVIOUS
<1>1. CreationOK(op[p]) /\ op[p].step = "create-cleanup"
  BY NamedOps DEF CleanUpCreation, At, OpOK, CreateSteps
<1>2. RootName(n) /\ Placed(n) /\ n \in DOMAIN ids
  BY <1>1 DEF CreationOK, Reserving, RootName
<1>3. PICK listed \in BOOLEAN, kept \in SUBSET RootRefs(n) :
        keys' = IF RecordExists(n, listed) THEN keys ELSE keys \ (RootRefs(n) \ kept)
  BY DEF CleanUpCreation, RootRefs
<1>4. Turns(p, Idle) /\ OpOK(Idle)'
  BY Ending, IdleOK DEF CleanUpCreation
<1>5. CASE RecordExists(n, listed)
  BY <1>3, <1>5, QuietEnd DEF CleanUpCreation, database
<1>6. CASE ~RecordExists(n, listed)
  <2>1. PICK refs : refs = RootRefs(n) \ kept
    OBVIOUS
  <2>2. keys' = keys \ refs /\ refs \subseteq RefsOf(n)
    BY <1>2, <1>3, <1>6, <2>1 DEF RefsOf, RootName
  <2>3. ~(Stored(n) /\ records[n].state = "active")
    <3>1. Stored(n) => RootFits(n, records[n])
      BY <1>2, StoredRecords DEF Stored, RootName
    <3> QED
      BY <1>6, <3>1 DEF RecordExists, RootFits, RootRefs
  <2>4. Kept
    BY <1>2, <1>4, <2>2, <2>3, KeysGo DEF CleanUpCreation, RootName
  <2> QED
    BY <1>4, <2>4, TurningKeepsInv DEF Safe
<1> QED
  BY <1>5, <1>6

LEMMA RegisterSafe ==
  ASSUME IInv, NEW p \in Pages, NEW n \in DOMAIN records, Register(p, n)
  PROVE  Safe
<1>1. PICK o : o = [step |-> "register", n |-> n, creating |-> FALSE, old |-> NULL]
  OBVIOUS
<1>2. n \in Names /\ RootName(n) /\ Placed(n) /\ Stored(n)
  BY StoredRecords DEF Register
<1>3. o \in Creations /\ o.step = "register" /\ o.n = n /\ o.old = NULL
  BY <1>1, <1>2 DEF Creations, CreateSteps
<1>4. Turns(p, o) /\ ~Reserving(o)
  BY <1>1, <1>3, StartingTurns DEF Register, Ops, Reserving
<1>5. OpOK(o)
  BY <1>2, <1>3, StepKinds DEF CreationOK, CreateSteps
<1> QED
  BY <1>4, <1>5, QuietTurn DEF Register, Safe

\* A registration that fails cleans up, or just ends.
LEMMA RegistrationFailing ==
  ASSUME IInv, Kept, NEW p \in Pages, op[p].step \in {"register", "register-note"},
         NEW o, \/ o = [op[p] EXCEPT !.step = "create-cleanup"]
                \/ o = Idle
  PROVE  OpOK(o)'
<1>1. CASE o = Idle
  BY <1>1, IdleOK
<1>2. CASE o = [op[p] EXCEPT !.step = "create-cleanup"]
  <2>1. /\ CreationOK(op[p]) /\ o.step = "create-cleanup"
        /\ o.n = op[p].n /\ o.old = op[p].old
    BY <1>2, CleaningUp DEF CreateSteps
  <2>2. RootName(o.n)' /\ Placed(o.n)' /\ (o.old # NULL => RootName(o.old)' /\ Placed(o.old)')
    BY <2>1, NamesStay DEF CreationOK, Reserving, Kept, Moves
  <2>3. CreationOK(o)'
    BY <2>1, <2>2 DEF CreationOK
  <2> QED
    BY <2>1, <2>3, StepKindsAfter DEF CreateSteps
<1> QED
  BY <1>1, <1>2

LEMMA RegistrationFailsTurns ==
  ASSUME IInv, NEW p \in Pages, op[p].step \in {"register", "register-note"},
         RegistrationFails(p)
  PROVE  \E o : /\ Turns(p, o)
                /\ \/ o = [op[p] EXCEPT !.step = "create-cleanup"]
                   \/ o = Idle
<1>1. CASE Go(p, "create-cleanup")
  <2>1. PICK o : o = [op[p] EXCEPT !.step = "create-cleanup"]
    OBVIOUS
  <2> QED
    BY <1>1, <2>1, CleaningUp, GoingTurns DEF CreateSteps
<1>2. CASE End(p)
  BY <1>2, Ending
<1> QED
  BY <1>1, <1>2 DEF RegistrationFails

LEMMA RegistryRegistersSafe ==
  ASSUME IInv, NEW p \in Pages, RegistryRegisters(p)
  PROVE  Safe
<1> PICK n : n = op[p].n
  OBVIOUS
<1>1. op[p] \in Creations /\ CreationOK(op[p]) /\ op[p].step = "register"
  BY NamedOps, OpKinds DEF RegistryRegisters, At, OpOK, CreateSteps
<1>2. RootName(n) /\ Placed(n) /\ n \in Names /\ (identities[n] = "none" => Stored(n))
  BY <1>1 DEF CreationOK, Reserving, Creations
<1>3. ASSUME NEW o, Turns(p, o)
      PROVE  Kept
  BY <1>2, <1>3, IdentityMoves DEF RegistryRegisters
<1>4. CASE RegistrationFails(p)
  <2>1. PICK o : /\ Turns(p, o)
                 /\ \/ o = [op[p] EXCEPT !.step = "create-cleanup"]
                    \/ o = Idle
    BY <1>1, <1>4, RegistrationFailsTurns
  <2>2. Kept
    BY <1>3, <2>1
  <2> QED
    BY <1>1, <2>1, <2>2, RegistrationFailing, TurningKeepsInv DEF Safe
<1>5. CASE Go(p, "register-note")
  <2>1. PICK o : o = [op[p] EXCEPT !.step = "register-note"]
    OBVIOUS
  <2>2. o \in Creations /\ o.step = "register-note" /\ o.n = n /\ o.old = op[p].old
    BY <1>1, <2>1, GoingOn DEF CreateSteps
  <2>3. Turns(p, o)
    BY <1>5, <2>1, <2>2, GoingTurns DEF Ops, Reserving
  <2>4. Kept
    BY <1>3, <2>3
  <2>5. identities'[n] # "none"
    BY <1>2 DEF RegistryRegisters, AcceptRegistration, IInv, TypeOK
  <2>6. RootName(n)' /\ Placed(n)' /\ (o.old # NULL => RootName(o.old)' /\ Placed(o.old)')
    BY <1>1, <1>2, <2>2, <2>4, NamesStay DEF CreationOK, Kept, Moves
  <2>7. CreationOK(o)'
    BY <2>2, <2>5, <2>6 DEF CreationOK
  <2>8. OpOK(o)'
    BY <2>2, <2>7, StepKindsAfter DEF CreateSteps
  <2> QED
    BY <2>3, <2>4, <2>8, TurningKeepsInv DEF Safe
<1> QED
  BY <1>4, <1>5 DEF RegistryRegisters
\* What an operation needs holds before the step that goes on to it.
LEMMA SettledTurn ==
  ASSUME IInv, Kept, NEW p \in Pages, NEW o, Turns(p, o), OpOK(o), ~Reserving(o)
  PROVE  Safe
<1>1. o \in Ops
  BY DEF Turns
<1>2. OpOK(o)'
  BY <1>1, OpStays
<1> QED
  BY <1>2, TurningKeepsInv DEF Safe

\* A revocation begins with the record as it is.
LEMMA RevocationStarts ==
  ASSUME IInv, NEW n \in DOMAIN records, ids[n] = "root",
         NEW method \in {"signature", "secret"}, NEW purpose \in {"revoke", "dispose", "forget"},
         NEW o, o = [step |-> "revoke-status", n |-> n, seen |-> records[n],
                     method |-> method, purpose |-> purpose]
  PROVE  o \in Ops /\ ~Reserving(o) /\ OpOK(o)
<1>1. /\ n \in Names /\ RootName(n) /\ Placed(n)
      /\ records[n] \in RootRecords /\ records[n].refs \in {{}, RootRefs(n)}
  BY StoredRecords DEF RootFits
<1>2. /\ o \in Revocations /\ o.step = "revoke-status" /\ o.n = n /\ o.seen = records[n]
  BY <1>1 DEF Revocations, RevokeSteps
<1>3. RevocationOK(o)
  BY <1>1, <1>2, DroppedRefs DEF RevocationOK
<1> QED
  BY <1>2, <1>3, StepKinds DEF Ops, RevokeSteps, Reserving

LEMMA NoteRegistrationSafe ==
  ASSUME IInv, NEW p \in Pages, NoteRegistration(p)
  PROVE  Safe
<1> PICK n, old : n = op[p].n /\ old = op[p].old
  OBVIOUS
<1>1. op[p] \in Creations /\ CreationOK(op[p]) /\ op[p].step = "register-note"
  BY NamedOps, OpKinds DEF NoteRegistration, At, OpOK, CreateSteps
<1>2. RootName(n) /\ Placed(n) /\ identities[n] # "none"
  BY <1>1 DEF CreationOK, Reserving
<1>3. CASE RegistrationFails(p) /\ UNCHANGED records
  <2>1. PICK o : /\ Turns(p, o)
                 /\ \/ o = [op[p] EXCEPT !.step = "create-cleanup"]
                    \/ o = Idle
    BY <1>1, <1>3, RegistrationFailsTurns
  <2>2. Kept
    BY <1>3, <2>1, NothingMoves DEF NoteRegistration, database
  <2> QED
    BY <1>1, <2>1, <2>2, RegistrationFailing, TurningKeepsInv DEF Safe
<1>4. ASSUME NEW o, Turns(p, o), Stored(n),
             records' = [records EXCEPT ![n].receipt = TRUE]
      PROVE  Kept
  <2>1. PICK r : r = [records[n] EXCEPT !.receipt = TRUE]
    OBVIOUS
  <2>2. n \in DOMAIN records /\ ids[n] = "root" /\ RootFits(n, records[n])
    BY <1>2, <1>4, StoredRecords DEF Stored, RootName
  <2>3. RootFits(n, r) /\ r.state = records[n].state /\ r.refs = records[n].refs
    BY <2>1, <2>2 DEF RootFits, RootRecords
  <2>4. Fits(n, r) /\ MayBecome(n, r.state) /\ (r.refs = {} => NoKeys(n))
    BY <2>2, <2>3, SameMayBecome, DroppedRefs DEF Fits
  <2>5. SameWorld
    BY DEF NoteRegistration, SameWorld, history, IInv, TypeOK
  <2>6. records' = [records EXCEPT ![n] = r]
    BY <1>4, <2>1
  <2> QED
    BY <1>4, <2>2, <2>4, <2>5, <2>6, RecordChanges
<1>5. CASE /\ Stored(n) /\ records' = [records EXCEPT ![n].receipt = TRUE]
           /\ IF old # NULL /\ Stored(old)
                THEN Start(p, [step |-> "revoke-status", n |-> old, seen |-> records[old],
                               method |-> "signature", purpose |-> "revoke"])
                ELSE End(p)
  <2>1. CASE old # NULL /\ Stored(old)
    <3>1. PICK o : o = [step |-> "revoke-status", n |-> old, seen |-> records[old],
                        method |-> "signature", purpose |-> "revoke"]
      OBVIOUS
    <3>2. old \in DOMAIN records /\ ids[old] = "root"
      BY <1>1, <2>1 DEF CreationOK, RootName, Stored
    <3>3. o \in Ops /\ ~Reserving(o) /\ OpOK(o)
      BY <3>1, <3>2, RevocationStarts
    <3>4. Turns(p, o)
      BY <1>5, <2>1, <3>1, <3>3, StartingTurns
    <3> QED
      BY <1>4, <1>5, <3>3, <3>4, SettledTurn
  <2>2. CASE ~(old # NULL /\ Stored(old))
    BY <1>4, <1>5, <2>2, Ending, IdleOK, SettledTurn
  <2> QED
    BY <2>1, <2>2
<1> QED
  BY <1>3, <1>5 DEF NoteRegistration

-----------------------------------------------------------------------------
(* revoke and dispose *)

LEMMA RevokeSafe ==
  ASSUME IInv, NEW p \in Pages, NEW n \in DOMAIN records, Revoke(p, n)
  PROVE  Safe
<1>1. PICK method \in {"signature", "secret"}, purpose \in {"revoke", "dispose", "forget"} :
        Start(p, [step |-> "revoke-status", n |-> n, seen |-> records[n],
                  method |-> method, purpose |-> purpose])
  BY DEF Revoke
<1>2. PICK o : o = [step |-> "revoke-status", n |-> n, seen |-> records[n],
                    method |-> method, purpose |-> purpose]
  OBVIOUS
<1>3. ids[n] = "root"
  BY StoredRecords DEF Revoke
<1>4. o \in Ops /\ ~Reserving(o) /\ OpOK(o)
  BY <1>2, <1>3, RevocationStarts
<1>5. Turns(p, o)
  BY <1>1, <1>2, <1>4, StartingTurns
<1> QED
  BY <1>4, <1>5, QuietTurn DEF Revoke, Safe

\* A revocation goes on to another step.
LEMMA RevocationGoesOn ==
  ASSUME IInv, NEW p \in Pages, op[p].step \in RevokeSteps,
         NEW s \in RevokeSteps, Go(p, s), NEW o, o = [op[p] EXCEPT !.step = s]
  PROVE  /\ op[p] \in Revocations /\ RevocationOK(op[p])
         /\ o \in Revocations /\ o.step = s /\ ~Reserving(o) /\ Turns(p, o)
         /\ o.n = op[p].n /\ o.seen = op[p].seen /\ o.purpose = op[p].purpose
<1>1. op[p] \in Revocations /\ RevocationOK(op[p])
  BY NamedOps, OpKinds DEF OpOK
<1>2. o \in Revocations /\ o.step = s /\ o.n = op[p].n /\ o.seen = op[p].seen
      /\ o.purpose = op[p].purpose
  BY <1>1 DEF Revocations
<1>3. ~Reserving(o) /\ o \in Ops
  BY <1>2 DEF Reserving, RevokeSteps, Ops
<1> QED
  BY <1>1, <1>2, <1>3, GoingTurns

\* When nothing else changes, and what the next step needs holds.
LEMMA RevocationQuiet ==
  ASSUME IInv, NEW p \in Pages, op[p].step \in RevokeSteps,
         NEW s \in {"revoke-sign", "revoke-send", "revoke-note"}, Go(p, s),
         s = "revoke-note" => identities[op[p].n] = "revoked",
         identities[op[p].n] # "none",
         UNCHANGED <<now, registry, history, database>>
  PROVE  Safe
<1>1. PICK o : o = [op[p] EXCEPT !.step = s]
  OBVIOUS
<1>2. /\ RevocationOK(op[p])
      /\ o.step = s /\ ~Reserving(o) /\ Turns(p, o)
      /\ o.n = op[p].n /\ o.seen = op[p].seen
  BY <1>1, RevocationGoesOn DEF RevokeSteps
<1>3. RevocationOK(o)
  BY <1>2 DEF RevocationOK
<1>4. OpOK(o)
  BY <1>2, <1>3, StepKinds DEF RevokeSteps
<1> QED
  BY <1>2, <1>4, QuietTurn DEF Safe

LEMMA AskIdentityStatusSafe ==
  ASSUME IInv, NEW p \in Pages, AskIdentityStatus(p)
  PROVE  Safe
<1>1. op[p].step \in RevokeSteps /\ UNCHANGED <<now, registry, history, database>>
  BY DEF AskIdentityStatus, At, RevokeSteps
<1>2. CASE identities[op[p].n] = "none"
  BY <1>1, <1>2, QuietEnd DEF AskIdentityStatus
<1>3. CASE identities[op[p].n] = "revoked" /\ op[p].seen.state = "revoked"
  BY <1>1, <1>3, RevocationQuiet DEF AskIdentityStatus
<1>4. CASE /\ identities[op[p].n] # "none"
           /\ ~(identities[op[p].n] = "revoked" /\ op[p].seen.state = "revoked")
  BY <1>1, <1>4, RevocationQuiet DEF AskIdentityStatus
<1> QED
  BY <1>2, <1>3, <1>4

LEMMA SignRevocationSafe ==
  ASSUME IInv, NEW p \in Pages, SignRevocation(p)
  PROVE  Safe
<1>1. op[p].step = "revoke-sign" /\ UNCHANGED <<now, registry, history, database>>
  BY DEF SignRevocation, At
<1>2. identities[op[p].n] # "none"
  BY <1>1, NamedOps DEF OpOK, RevokeSteps, RevocationOK
<1>3. CASE Go(p, "revoke-send")
  BY <1>1, <1>2, <1>3, RevocationQuiet DEF RevokeSteps
<1>4. CASE End(p)
  BY <1>1, <1>4, QuietEnd
<1> QED
  BY <1>3, <1>4 DEF SignRevocation

LEMMA RegistryRevokesSafe ==
  ASSUME IInv, NEW p \in Pages, RegistryRevokes(p)
  PROVE  Safe
<1> PICK n : n = op[p].n
  OBVIOUS
<1>1. op[p].step = "revoke-send" /\ RevocationOK(op[p]) /\ op[p] \in Revocations
  BY NamedOps, OpKinds DEF RegistryRevokes, At, OpOK, RevokeSteps
<1>2. RootName(n) /\ Placed(n) /\ identities[n] # "none" /\ n \in Names
  BY <1>1 DEF RevocationOK, Revocations
<1>3. ASSUME NEW o, Turns(p, o)
      PROVE  Kept
  BY <1>2, <1>3, IdentityMoves DEF RegistryRevokes
<1>4. CASE End(p)
  BY <1>3, <1>4, Ending, IdleOK, SettledTurn
<1>5. CASE Go(p, "revoke-note")
  <2>1. PICK o : o = [op[p] EXCEPT !.step = "revoke-note"]
    OBVIOUS
  <2>2. /\ o.step = "revoke-note" /\ Turns(p, o)
        /\ o.n = n /\ o.seen = op[p].seen
    BY <1>1, <1>5, <2>1, RevocationGoesOn DEF RevokeSteps
  <2>3. Kept
    BY <1>3, <2>2
  <2>4. identities'[n] = "revoked"
    BY <1>2 DEF RegistryRevokes, AcceptRevocation, IInv, TypeOK
  <2>5. RootName(n)' /\ Placed(n)' /\ (NoKeys(n) => NoKeys(n)') /\ RootRefs(n)' = RootRefs(n)
    BY <1>2, <2>3, NamesStay, TerminalStays DEF Kept, Moves, RootRefs, SigningKey, Secret
  <2>6. RevocationOK(o)'
    BY <1>1, <2>2, <2>4, <2>5 DEF RevocationOK
  <2> QED
    BY <2>2, <2>3, <2>6, StepKindsAfter, TurningKeepsInv DEF RevokeSteps, Safe
<1> QED
  BY <1>4, <1>5 DEF RegistryRevokes

LEMMA NoteRevocationSafe ==
  ASSUME IInv, NEW p \in Pages, NoteRevocation(p)
  PROVE  Safe
<1> PICK n : n = op[p].n
  OBVIOUS
<1>1. op[p].step = "revoke-note" /\ RevocationOK(op[p]) /\ op[p] \in Revocations
  BY NamedOps, OpKinds DEF NoteRevocation, At, OpOK, RevokeSteps
<1>2. RootName(n) /\ Placed(n) /\ identities[n] = "revoked"
  BY <1>1 DEF RevocationOK
<1>3. CASE End(p) /\ UNCHANGED records
  BY <1>3, QuietEnd DEF NoteRevocation, database
<1>4. CASE /\ Stored(n) /\ records' = [records EXCEPT ![n].state = "revoked"]
           /\ IF op[p].purpose = "revoke" THEN End(p) ELSE Go(p, "dispose-keys")
  <2>1. PICK r : r = [records[n] EXCEPT !.state = "revoked"]
    OBVIOUS
  <2>2. n \in DOMAIN records /\ ids[n] = "root" /\ RootFits(n, records[n])
    BY <1>2, <1>4, StoredRecords DEF Stored, RootName
  <2>3. RootFits(n, r) /\ r.state = "revoked" /\ r.refs = records[n].refs
    BY <1>2, <2>1, <2>2 DEF RootFits, RootRecords
  <2>4. MayBecome(n, "revoked")
    BY <2>2 DEF MayBecome, RootFits, RootRecords
  <2>5. Fits(n, r) /\ (r.refs = {} => NoKeys(n))
    BY <2>2, <2>3, DroppedRefs DEF Fits
  <2>6. SameWorld
    BY DEF NoteRevocation, SameWorld, history, IInv, TypeOK
  <2>7. records' = [records EXCEPT ![n] = r]
    BY <1>4, <2>1
  <2>8. ASSUME NEW o, Turns(p, o)
        PROVE  Kept
    BY <2>2, <2>3, <2>4, <2>5, <2>6, <2>7, <2>8, RecordChanges
  <2>9. CASE End(p)
    BY <2>8, <2>9, Ending, IdleOK, SettledTurn
  <2>10. CASE Go(p, "dispose-keys")
    <3>1. PICK o : o = [op[p] EXCEPT !.step = "dispose-keys"]
      OBVIOUS
    <3>2. o.step = "dispose-keys" /\ Turns(p, o) /\ o.n = n /\ o.seen = op[p].seen
      BY <1>1, <2>10, <3>1, RevocationGoesOn DEF RevokeSteps
    <3>3. Kept
      BY <2>8, <3>2
    <3>4. Terminal(n)'
      BY <1>2, <2>2, <2>3, <2>7 DEF Terminal, Stored, NoteRevocation, registry
    <3>5. RootName(n)' /\ Placed(n)' /\ (NoKeys(n) => NoKeys(n)') /\ RootRefs(n)' = RootRefs(n)
      BY <1>2, <3>3, NamesStay, TerminalStays DEF Kept, Moves, RootRefs, SigningKey, Secret
    <3>6. RevocationOK(o)'
      BY <1>1, <3>2, <3>4, <3>5 DEF RevocationOK
    <3> QED
      BY <3>2, <3>3, <3>6, StepKindsAfter, TurningKeepsInv DEF RevokeSteps, Safe
  <2> QED
    BY <1>4, <2>9, <2>10
<1> QED
  BY <1>3, <1>4 DEF NoteRevocation

\* An identity that reached its terminal state can lose its keys.
LEMMA DisposeKeysSafe ==
  ASSUME IInv, NEW p \in Pages, DisposeKeys(p)
  PROVE  Safe
<1> PICK n : n = op[p].n
  OBVIOUS
<1>1. op[p].step = "dispose-keys" /\ RevocationOK(op[p]) /\ op[p] \in Revocations
  BY NamedOps, OpKinds DEF DisposeKeys, At, OpOK, RevokeSteps
<1>2. RootName(n) /\ Placed(n) /\ Terminal(n) /\ n \in DOMAIN ids /\ ids[n] = "root"
  BY <1>1 DEF RevocationOK, RootName
<1>3. PICK kept \in SUBSET op[p].seen.refs :
        /\ keys' = keys \ (op[p].seen.refs \ kept)
        /\ IF kept = {} THEN Go(p, "dispose-record") /\ NoFault ELSE End(p) /\ Fault
  BY DEF DisposeKeys
<1>4. PICK refs : refs = op[p].seen.refs \ kept
  OBVIOUS
<1>5. refs \subseteq RefsOf(n)
  BY <1>1, <1>2, <1>4 DEF RevocationOK, RefsOf
<1>6. ASSUME NEW o, Turns(p, o)
      PROVE  Kept
  <2>1. ~(Stored(n) /\ records[n].state = "active")
    BY <1>2 DEF Terminal
  <2> QED
    BY <1>2, <1>3, <1>4, <1>5, <1>6, <2>1, KeysGo DEF DisposeKeys
<1>7. CASE End(p)
  BY <1>6, <1>7, Ending, IdleOK, SettledTurn
<1>8. CASE kept = {} /\ Go(p, "dispose-record")
  <2>1. PICK o : o = [op[p] EXCEPT !.step = "dispose-record"]
    OBVIOUS
  <2>2. o.step = "dispose-record" /\ Turns(p, o) /\ o.n = n /\ o.seen = op[p].seen
    BY <1>1, <1>8, <2>1, RevocationGoesOn DEF RevokeSteps
  <2>3. Kept
    BY <1>6, <2>2
  <2>4. RootName(n)' /\ Placed(n)' /\ (NoKeys(n) => NoKeys(n)') /\ Terminal(n)'
    BY <1>2, <2>3, NamesStay, TerminalStays DEF Kept, Moves
  <2>5. NoKeys(n)'
    BY <1>1, <1>3, <1>8, <2>4 DEF RevocationOK, NoKeys
  <2>6. RevocationOK(o)'
    BY <1>1, <2>2, <2>4, <2>5 DEF RevocationOK
  <2> QED
    BY <2>2, <2>3, <2>6, StepKindsAfter, TurningKeepsInv DEF RevokeSteps, Safe
<1> QED
  BY <1>3, <1>7, <1>8

LEMMA DisposeRecordSafe ==
  ASSUME IInv, NEW p \in Pages, DisposeRecord(p)
  PROVE  Safe
<1> PICK n : n = op[p].n
  OBVIOUS
<1>1. op[p].step = "dispose-record" /\ RevocationOK(op[p])
  BY NamedOps DEF DisposeRecord, At, OpOK, RevokeSteps
<1>2. RootName(n) /\ Terminal(n) /\ NoKeys(n) /\ n \in DOMAIN ids /\ ids[n] = "root"
  BY <1>1 DEF RevocationOK, RootName
<1>3. Turns(p, Idle)
  BY Ending DEF DisposeRecord
<1>4. SameWorld
  BY DEF DisposeRecord, SameWorld, history, IInv, TypeOK
<1>5. CASE records' = Without(n)
  <2>1. Stored(n) => MayGo(n)
    BY <1>2 DEF MayGo, Terminal
  <2>2. Kept
    BY <1>2, <1>3, <1>4, <1>5, <2>1, RecordGoes
  <2> QED
    BY <1>3, <2>2, IdleOK, SettledTurn
<1>6. CASE Stored(n) /\ records' = [records EXCEPT ![n].refs = {}]
  <2>1. PICK r : r = [records[n] EXCEPT !.refs = {}]
    OBVIOUS
  <2>2. n \in DOMAIN records /\ RootFits(n, records[n]) /\ records[n].state = "revoked"
    BY <1>2, <1>6, StoredRecords DEF Stored, Terminal
  <2>3. r \in RootRecords /\ r.state = "revoked" /\ r.refs = {}
    BY <2>1, <2>2 DEF RootFits, RootRecords
  <2>4. Fits(n, r) /\ MayBecome(n, r.state)
    BY <1>2, <2>2, <2>3, SameMayBecome DEF Fits, RootFits
  <2>5. Kept
    BY <1>2, <1>3, <1>4, <1>6, <2>1, <2>2, <2>4, RecordChanges
  <2> QED
    BY <1>3, <2>5, IdleOK, SettledTurn
<1>7. CASE records' = records
  BY <1>7, QuietEnd DEF DisposeRecord, database
<1> QED
  BY <1>5, <1>6, <1>7 DEF DisposeRecord

-----------------------------------------------------------------------------
(* removeLocalIdentity *)

LEMMA RemoveSafe ==
  ASSUME IInv, NEW p \in Pages, NEW n \in DOMAIN records, Remove(p, n)
  PROVE  Safe
<1>1. PICK o : o = [step |-> "remove-keys", n |-> n, refs |-> records[n].refs]
  OBVIOUS
<1>2. /\ n \in DOMAIN ids /\ n \in Names /\ Placed(n)
      /\ ids[n] = "root" => records[n].refs \in {{}, RootRefs(n)} /\ RootFits(n, records[n])
      /\ ids[n] # "root" => records[n].refs \in {{}, {DeviceKey(n)}} /\ DeviceFits(n, records[n])
  BY StoredRecords DEF RootFits, DeviceFits
<1>3. RefsOf(n) \subseteq AllRefs /\ records[n].refs \in {{}, RefsOf(n)}
  BY <1>2, RefTypes DEF RefsOf
<1>4. o \in Removals /\ o.step = "remove-keys" /\ o.n = n /\ o.refs = records[n].refs
  BY <1>1, <1>2, <1>3 DEF Removals, RemoveSteps
<1>5. Turns(p, o) /\ ~Reserving(o)
  BY <1>1, <1>4, StartingTurns DEF Remove, Ops, Reserving
<1>6. CASE ids[n] = "root"
  <2>1. records[n].state = "revoked"
    BY <1>6, StoredRecords DEF Remove, Removable
  <2>2. RemovalOK(o)
    BY <1>2, <1>3, <1>4, <1>6, <2>1, DroppedRefs DEF RemovalOK
  <2> QED
    BY <1>4, <1>5, <2>2, StepKinds, QuietTurn DEF Remove, Safe, RemoveSteps
<1>7. CASE ids[n] # "root"
  <2>1. now >= ExpiresAt => Dead(n)
    BY DEF Dead, Live, DeviceState
  <2>2. Dead(n)
    BY <1>2, <1>7, <2>1, RevokedIsDead DEF Remove, Removable, DeviceFits
  <2>3. RemovalOK(o)
    BY <1>2, <1>3, <1>4, <1>7, <2>2 DEF RemovalOK
  <2> QED
    BY <1>4, <1>5, <2>3, StepKinds, QuietTurn DEF Remove, Safe, RemoveSteps
<1> QED
  BY <1>6, <1>7

\* A removal goes on to another step.
LEMMA RemovalGoesOn ==
  ASSUME IInv, NEW p \in Pages, op[p].step \in RemoveSteps,
         NEW s \in RemoveSteps, Go(p, s), NEW o, o = [op[p] EXCEPT !.step = s]
  PROVE  /\ o \in Removals /\ o.step = s /\ ~Reserving(o) /\ Turns(p, o)
         /\ o.n = op[p].n /\ o.refs = op[p].refs
<1>1. op[p] \in Removals
  BY NamedOps, OpKinds
<1>2. o \in Removals /\ o.step = s /\ o.n = op[p].n /\ o.refs = op[p].refs
  BY <1>1 DEF Removals
<1>3. ~Reserving(o) /\ o \in Ops
  BY <1>2 DEF Reserving, RemoveSteps, Ops
<1> QED
  BY <1>2, <1>3, GoingTurns

LEMMA RemoveKeysSafe ==
  ASSUME IInv, NEW p \in Pages, RemoveKeys(p)
  PROVE  Safe
<1> PICK n : n = op[p].n
  OBVIOUS
<1>1. op[p].step = "remove-keys" /\ RemovalOK(op[p])
  BY NamedOps DEF RemoveKeys, At, OpOK, RemoveSteps
<1>2. /\ Placed(n) /\ n \in DOMAIN ids
      /\ ids[n] = "root" => Terminal(n)
      /\ ids[n] # "root" => Dead(n)
  BY <1>1 DEF RemovalOK, Placed
<1>3. PICK kept \in SUBSET op[p].refs :
        /\ keys' = keys \ (op[p].refs \ kept)
        /\ IF kept = {} THEN Go(p, "remove-refs") /\ NoFault ELSE End(p) /\ Fault
  BY DEF RemoveKeys
<1>4. PICK refs : refs = op[p].refs \ kept
  OBVIOUS
<1>5. refs \subseteq RefsOf(n)
  BY <1>1, <1>4 DEF RemovalOK
<1>6. ASSUME NEW o, Turns(p, o)
      PROVE  Kept
  <2>1. ids[n] = "root" => ~(Stored(n) /\ records[n].state = "active")
    BY <1>2 DEF Terminal
  <2> QED
    BY <1>2, <1>3, <1>4, <1>5, <1>6, <2>1, KeysGo DEF RemoveKeys
<1>7. CASE End(p)
  BY <1>6, <1>7, Ending, IdleOK, SettledTurn
<1>8. CASE kept = {} /\ Go(p, "remove-refs")
  <2>1. PICK o : o = [op[p] EXCEPT !.step = "remove-refs"]
    OBVIOUS
  <2>2. /\ o.step = "remove-refs" /\ ~Reserving(o) /\ Turns(p, o)
        /\ o.n = n /\ o.refs = op[p].refs
    BY <1>1, <1>8, <2>1, RemovalGoesOn DEF RemoveSteps
  <2>3. Kept
    BY <1>6, <2>2
  <2>4. PICK w : w = op[p]
    OBVIOUS
  <2>5. RemovalOK(w)' /\ w.n = n /\ w.refs = o.refs /\ ids'[n] = ids[n]
    BY <1>1, <1>2, <2>2, <2>3, <2>4, RemovalStays DEF Kept, Moves, Later
  <2>6. ids[n] = "root" => NoKeys(n)'
    <3>1. ids[n] = "root" /\ w.refs = {} => NoKeys(n)'
      BY <2>5 DEF RemovalOK
    <3>2. ids[n] = "root" => w.refs \in {{}, RootRefs(n)}
      BY <1>1, <2>4, <2>5 DEF RemovalOK, RefsOf
    <3> QED
      BY <1>3, <1>8, <2>4, <3>1, <3>2 DEF NoKeys
  <2>7. RemovalOK(o)'
    BY <2>2, <2>5, <2>6 DEF RemovalOK
  <2> QED
    BY <2>2, <2>3, <2>7, StepKindsAfter, TurningKeepsInv DEF RemoveSteps, Safe
<1> QED
  BY <1>3, <1>7, <1>8

LEMMA RemoveRefsSafe ==
  ASSUME IInv, NEW p \in Pages, RemoveRefs(p)
  PROVE  Safe
<1> PICK n : n = op[p].n
  OBVIOUS
<1>1. op[p].step = "remove-refs" /\ RemovalOK(op[p])
  BY NamedOps DEF RemoveRefs, At, OpOK, RemoveSteps
<1>2. /\ Placed(n) /\ n \in DOMAIN ids
      /\ ids[n] = "root" => Terminal(n) /\ NoKeys(n)
      /\ ids[n] # "root" => Dead(n)
  BY <1>1 DEF RemovalOK, Placed
<1>3. CASE End(p) /\ UNCHANGED records
  BY <1>3, QuietEnd DEF RemoveRefs, database
<1>4. CASE /\ Stored(n)
           /\ records' = [records EXCEPT ![n].refs = {}]
           /\ Go(p, "remove-record")
  <2>1. PICK r : r = [records[n] EXCEPT !.refs = {}]
    OBVIOUS
  <2>2. /\ n \in DOMAIN records
        /\ ids[n] = "root" => RootFits(n, records[n]) /\ records[n].state = "revoked"
        /\ ids[n] # "root" => DeviceFits(n, records[n])
    BY <1>2, <1>4, StoredRecords DEF Stored, Terminal
  <2>3. /\ r.state = records[n].state /\ r.refs = {}
        /\ ids[n] = "root" => r \in RootRecords
        /\ ids[n] # "root" => /\ r \in DeviceRecords /\ r.device = records[n].device
                              /\ r.told = records[n].told
                              /\ r.importStartedAt = records[n].importStartedAt
    BY <2>1, <2>2 DEF RootFits, RootRecords, DeviceFits, DeviceRecords
  <2>4. Fits(n, r)
    BY <1>2, <2>2, <2>3 DEF Fits, RootFits, DeviceFits
  <2>5. MayBecome(n, r.state)
    BY <2>2, <2>3, SameMayBecome
  <2>6. SameWorld
    BY DEF RemoveRefs, SameWorld, history, IInv, TypeOK
  <2>7. records' = [records EXCEPT ![n] = r]
    BY <1>4, <2>1
  <2>8. PICK o : o = [op[p] EXCEPT !.step = "remove-record"]
    OBVIOUS
  <2>9. /\ o.step = "remove-record" /\ ~Reserving(o) /\ Turns(p, o)
        /\ o.n = n /\ o.refs = op[p].refs
    BY <1>1, <1>4, <2>8, RemovalGoesOn DEF RemoveSteps
  <2>10. Kept
    BY <1>2, <2>2, <2>4, <2>5, <2>6, <2>7, <2>9, RecordChanges
  <2>11. RemovalOK(o)
    BY <1>1, <2>9 DEF RemovalOK
  <2> QED
    BY <2>9, <2>10, <2>11, StepKinds, SettledTurn DEF RemoveSteps
<1> QED
  BY <1>3, <1>4 DEF RemoveRefs

LEMMA RemoveRecordSafe ==
  ASSUME IInv, NEW p \in Pages, RemoveRecord(p)
  PROVE  Safe
<1> PICK n : n = op[p].n
  OBVIOUS
<1>1. op[p].step = "remove-record" /\ RemovalOK(op[p])
  BY NamedOps DEF RemoveRecord, At, OpOK, RemoveSteps
<1>2. /\ n \in DOMAIN ids
      /\ ids[n] = "root" => Terminal(n) /\ NoKeys(n)
      /\ ids[n] # "root" => Dead(n)
  BY <1>1 DEF RemovalOK, Placed
<1>3. Turns(p, Idle) /\ records' = Without(n)
  BY Ending DEF RemoveRecord
<1>4. SameWorld
  BY DEF RemoveRecord, SameWorld, history, IInv, TypeOK
<1>5. Stored(n) => MayGo(n)
  BY <1>2 DEF MayGo, Terminal
<1>6. Kept
  BY <1>2, <1>3, <1>4, <1>5, RecordGoes
<1> QED
  BY <1>3, <1>6, IdleOK, SettledTurn

-----------------------------------------------------------------------------
(* issueDeviceTransfer and importDeviceTransfer *)

LEMMA IssueSafe ==
  ASSUME IInv, NEW p \in Pages, NEW n \in DOMAIN records, NEW d \in Devices, Issue(p, n, d)
  PROVE  Safe
<1>1. PICK o : o = [step |-> "issue", n |-> n, device |-> d]
  OBVIOUS
<1>2. n \in Names /\ RootName(n)
  BY StoredRecords DEF Issue, ActiveRegisteredRoot
<1>3. o \in Ops /\ ~Reserving(o) /\ OpOK(o)
  BY <1>1, <1>2, StepKinds DEF Ops, Issues, Reserving
<1>4. Turns(p, o)
  BY <1>1, <1>3, StartingTurns DEF Issue
<1> QED
  BY <1>3, <1>4, QuietTurn DEF Issue, Safe

\* The catalogue of the root grows with the transfers given out.
LEMMA AppendIssuedDeviceSafe ==
  ASSUME IInv, NEW p \in Pages, AppendIssuedDevice(p)
  PROVE  Safe
<1> PICK n, d : n = op[p].n /\ d = op[p].device
  OBVIOUS
<1>1. op[p].step = "issue" /\ RootName(n) /\ n \in Names /\ d \in Devices
  BY NamedOps, OpKinds DEF AppendIssuedDevice, At, OpOK, Issues
<1>2. Turns(p, Idle)
  BY Ending DEF AppendIssuedDevice
<1>3. CASE UNCHANGED <<records, bundles>>
  BY <1>3, QuietEnd DEF AppendIssuedDevice, database, history
<1>4. CASE /\ Stored(n) /\ d \notin DOMAIN bundles
           /\ records' = [records EXCEPT ![n].catalogue = @ \cup {d}]
           /\ bundles' = [e \in DOMAIN bundles \cup {d} |-> IF e = d THEN n ELSE bundles[e]]
  <2>1. PICK r : r = [records[n] EXCEPT !.catalogue = @ \cup {d}]
    OBVIOUS
  <2>2. n \in DOMAIN records /\ ids[n] = "root" /\ RootFits(n, records[n])
    BY <1>1, <1>4, StoredRecords DEF Stored, RootName
  <2>3. RootFits(n, r) /\ r.state = records[n].state /\ r.refs = records[n].refs
    BY <1>1, <2>1, <2>2 DEF RootFits, RootRecords
  <2>4. Fits(n, r) /\ MayBecome(n, r.state) /\ (r.refs = {} => NoKeys(n))
    BY <2>2, <2>3, SameMayBecome, DroppedRefs DEF Fits
  <2>5. SameWorld
    BY <1>1, <1>4 DEF AppendIssuedDevice, SameWorld, IInv, TypeOK
  <2>6. records' = [records EXCEPT ![n] = r]
    BY <1>4, <2>1
  <2>7. Kept
    BY <1>2, <2>2, <2>4, <2>5, <2>6, RecordChanges
  <2> QED
    BY <1>2, <2>7, IdleOK, SettledTurn
<1> QED
  BY <1>3, <1>4 DEF AppendIssuedDevice

LEMMA ImportSafe ==
  ASSUME IInv, NEW p \in Pages, NEW d \in Devices, Import(p, d)
  PROVE  Safe
<1>1. PICK n \in 1 .. MaxIds :
        Begin(n, d) /\ Start(p, [step |-> "import-reserve", n |-> n, at |-> now])
  BY DEF Import
<1>2. PICK o : o = [step |-> "import-reserve", n |-> n, at |-> now]
  OBVIOUS
<1>3. n \in Names /\ n \notin DOMAIN ids
  BY <1>1, NamesAreNumbers, WalletAssumption DEF Begin, Names, IInv
<1>4. o \in Imports /\ o.step = "import-reserve" /\ o.n = n
  BY <1>2, <1>3 DEF Imports, ImportSteps, IInv, TypeOK
<1>5. Turns(p, o)
  BY <1>1, <1>2, <1>3, <1>4 DEF Turns, Start, Ops
<1>6. UNCHANGED <<records, keys, cancelled>> /\ d \in DOMAIN bundles
  BY DEF Import, database
<1>7. Kept /\ n \in DOMAIN ids' /\ ids'[n] = d
  BY <1>1, <1>5, <1>6, NameComes DEF Import
<1>8. n \notin DOMAIN records' /\ d # "root"
  BY <1>3, <1>6, WalletAssumption DEF IInv, TypeOK
<1>9. ImportOK(o)'
  BY <1>4, <1>7, <1>8 DEF ImportOK, DeviceName, Stored, Reserving
<1>10. OpOK(o)'
  BY <1>4, <1>9, StepKindsAfter DEF ImportSteps
<1> QED
  BY <1>5, <1>7, <1>10, TurningKeepsInv DEF Safe

\* An import goes on to another step.
LEMMA ImportGoesOn ==
  ASSUME IInv, NEW p \in Pages, op[p].step \in ImportSteps,
         NEW s \in {"import-key", "import-finalize", "import-claim"}, Go(p, s),
         NEW o, o = [op[p] EXCEPT !.step = s]
  PROVE  /\ o \in Imports /\ o.step = s /\ ~Reserving(o) /\ Turns(p, o) /\ o.n = op[p].n
<1>1. op[p] \in Imports
  BY NamedOps, OpKinds
<1>2. o \in Imports /\ o.step = s /\ o.n = op[p].n
  BY <1>1 DEF Imports, ImportSteps
<1>3. ~Reserving(o) /\ o \in Ops
  BY <1>2 DEF Reserving, Ops
<1> QED
  BY <1>2, <1>3, GoingTurns

LEMMA ReserveDeviceRecordSafe ==
  ASSUME IInv, NEW p \in Pages, ReserveDeviceRecord(p)
  PROVE  Safe
<1> PICK n, d, at : n = op[p].n /\ d = ids[n] /\ at = op[p].at
  OBVIOUS
<1>1. op[p].step = "import-reserve" /\ ImportOK(op[p]) /\ op[p] \in Imports
  BY NamedOps, OpKinds DEF ReserveDeviceRecord, At, OpOK, ImportSteps
<1>2. DeviceName(n) /\ Reserving(op[p]) /\ at \in Nat /\ d \in Devices /\ n \in Names
  BY <1>1, NamesAreNumbers DEF ImportOK, Reserving, Imports, IInv
<1>3. CASE End(p) /\ UNCHANGED records
  BY <1>3, QuietEnd DEF ReserveDeviceRecord, database
<1>4. CASE records' = With(n, Reservation(n, d, at)) /\ Go(p, "import-key")
  <2>1. PICK o, r : o = [op[p] EXCEPT !.step = "import-key"] /\ r = Reservation(n, d, at)
    OBVIOUS
  <2>2. o.step = "import-key" /\ ~Reserving(o) /\ Turns(p, o) /\ o.n = n
    BY <1>1, <1>4, <2>1, ImportGoesOn DEF ImportSteps
  <2>3. r \in DeviceRecords
    BY <1>2, <2>1, RefTypes DEF Reservation, DeviceRecords
  <2>4. DeviceFits(n, r)
    BY <1>2, <2>1, <2>3, WalletAssumption DEF Reservation, DeviceFits
  <2>5. Fits(n, r)
    BY <1>2, <2>4 DEF Fits, DeviceName
  <2>6. SameWorld
    BY DEF ReserveDeviceRecord, SameWorld, history, IInv, TypeOK
  <2>7. Kept
    BY <1>2, <1>4, <2>1, <2>2, <2>5, <2>6, RecordComes
  <2>8. Placed(n)' /\ DeviceName(n)' /\ n \in DOMAIN records'
    BY <1>2, <1>4, <2>2, <2>7, LettingGo, NamesStay DEF Kept, Moves, With
  <2>9. ImportOK(o)'
    BY <2>2, <2>8 DEF ImportOK, Stored
  <2> QED
    BY <2>2, <2>7, <2>9, StepKindsAfter, TurningKeepsInv DEF ImportSteps, Safe
<1> QED
  BY <1>3, <1>4 DEF ReserveDeviceRecord

\* What an importer has, once its record is placed.
LEMMA Importing ==
  ASSUME IInv, NEW p \in Pages, op[p].step \in {"import-key", "import-finalize", "import-claim"}
  PROVE  /\ op[p] \in Imports /\ ImportOK(op[p]) /\ op[p].step \in ImportSteps
         /\ DeviceName(op[p].n) /\ Placed(op[p].n)
         /\ op[p].n \in DOMAIN ids /\ ids[op[p].n] # "root" /\ op[p].n \in Names
<1>1. op[p] \in Imports /\ ImportOK(op[p]) /\ op[p].step \in ImportSteps
  BY NamedOps, OpKinds DEF OpOK, ImportSteps
<1> QED
  BY <1>1 DEF ImportOK, Reserving, DeviceName, Imports

\* An importer whose step failed looks who cleans up.
LEMMA ImportGivesUp ==
  ASSUME IInv, NEW p \in Pages, op[p].step \in {"import-key", "import-finalize"},
         Go(p, "import-claim"), UNCHANGED <<now, registry, history, database>>
  PROVE  Safe
<1>1. PICK o : o = [op[p] EXCEPT !.step = "import-claim"]
  OBVIOUS
<1>2. ImportOK(op[p]) /\ Placed(op[p].n) /\ op[p].step \in ImportSteps
  BY Importing
<1>3. o.step = "import-claim" /\ ~Reserving(o) /\ Turns(p, o) /\ o.n = op[p].n
  BY <1>1, <1>2, ImportGoesOn
<1>4. ImportOK(o)
  BY <1>2, <1>3 DEF ImportOK
<1> QED
  BY <1>3, <1>4, StepKinds, QuietTurn DEF ImportSteps, Safe

\* A key is stored under a reference whose record is there, or cancelled: a
\* cancelled one is refused.
LEMMA ImportKeyAtRefSafe ==
  ASSUME IInv, NEW p \in Pages, ImportKeyAtRef(p)
  PROVE  Safe
<1> PICK n : n = op[p].n
  OBVIOUS
<1>1. op[p].step = "import-key"
  BY DEF ImportKeyAtRef, At
<1>2. /\ ImportOK(op[p]) /\ op[p].step \in ImportSteps
      /\ DeviceName(n) /\ Placed(n) /\ n \in DOMAIN ids /\ ids[n] # "root"
  BY <1>1, Importing
<1>3. CASE CanInsert(DeviceKey(n)) /\ keys' = keys \cup {DeviceKey(n)} /\ Go(p, "import-finalize")
  <2>1. PICK o : o = [op[p] EXCEPT !.step = "import-finalize"]
    OBVIOUS
  <2>2. o.step = "import-finalize" /\ ~Reserving(o) /\ Turns(p, o) /\ o.n = n
    BY <1>2, <1>3, <2>1, ImportGoesOn
  <2>3. DeviceKey(n) \in RefsOf(n) /\ DeviceKey(n) \notin cancelled
    BY <1>2, <1>3 DEF RefsOf, CanInsert
  <2>4. Stored(n) \/ Dead(n)
    BY <1>1, <1>2, <2>3 DEF ImportOK
  <2>5. Kept
    BY <1>2, <1>3, <2>2, <2>3, <2>4, KeyComes DEF ImportKeyAtRef
  <2>6. DeviceName(n)' /\ Placed(n)' /\ DeviceKey(n) \in keys'
    BY <1>2, <1>3, <2>5, NamesStay DEF Kept, Moves
  <2>7. ImportOK(o)'
    BY <2>2, <2>6 DEF ImportOK, Promotable
  <2> QED
    BY <2>2, <2>5, <2>7, StepKindsAfter, TurningKeepsInv DEF ImportSteps, Safe
<1>4. CASE UNCHANGED keys /\ Go(p, "import-claim")
  BY <1>1, <1>4, ImportGivesUp DEF ImportKeyAtRef, database
<1> QED
  BY <1>3, <1>4 DEF ImportKeyAtRef

\* An import is finished by its importer or by a recovery.
LEMMA FinishFits ==
  ASSUME IInv, NEW p \in Pages, NEW o, Turns(p, o), NEW n, DeviceName(n), Promotable(n),
         Stored(n), records[n].state \in {"pending-import", "pending-activation"},
         Finish(n), UNCHANGED <<now, registry, history, keys, cancelled>>
  PROVE  Kept
<1>1. PICK r : r = [records[n] EXCEPT !.state = "pending-activation", !.importStartedAt = NULL]
  OBVIOUS
<1>2. n \in DOMAIN records /\ ids[n] # "root" /\ DeviceFits(n, records[n])
  BY StoredRecords DEF Stored, DeviceName
<1>3. r \in DeviceRecords
  BY <1>1, <1>2 DEF DeviceFits, DeviceRecords
<1>4. /\ r.state = "pending-activation" /\ r.refs = records[n].refs
      /\ r.device = records[n].device /\ r.told = records[n].told
  BY <1>1, <1>2 DEF DeviceFits, DeviceRecords
<1>5. r.refs \subseteq keys \/ Dead(n)
  BY <1>2, <1>4 DEF DeviceFits, Promotable
<1>6. Fits(n, r)
  BY <1>2, <1>3, <1>4, <1>5 DEF Fits, DeviceFits
<1>7. MayBecome(n, r.state)
  BY <1>4 DEF MayBecome
<1>8. records' = [records EXCEPT ![n] = r]
  BY <1>1, <1>2 DEF Finish, IInv, TypeOK
<1>9. SameWorld
  BY DEF SameWorld, history, IInv, TypeOK
<1> QED
  BY <1>2, <1>6, <1>7, <1>8, <1>9, RecordChanges

LEMMA FinalizeImportSafe ==
  ASSUME IInv, NEW p \in Pages, FinalizeImport(p)
  PROVE  Safe
<1> PICK n : n = op[p].n
  OBVIOUS
<1>1. op[p].step = "import-finalize"
  BY DEF FinalizeImport, At
<1>2. ImportOK(op[p]) /\ DeviceName(n)
  BY <1>1, Importing
<1>3. CASE Finalizable(n) /\ Finish(n) /\ End(p)
  <2>1. Promotable(n)
    BY <1>1, <1>2 DEF ImportOK
  <2>2. Kept
    BY <1>2, <1>3, <2>1, Ending, FinishFits DEF FinalizeImport, Finalizable
  <2> QED
    BY <1>3, <2>2, Ending, IdleOK, SettledTurn
<1>4. CASE Go(p, "import-claim") /\ UNCHANGED records
  BY <1>1, <1>4, ImportGivesUp DEF FinalizeImport, database
<1> QED
  BY <1>3, <1>4 DEF FinalizeImport

\* An unfinished import is claimed for its clean-up.
LEMMA ClaimFits ==
  ASSUME IInv, NEW p \in Pages, NEW o, Turns(p, o), NEW n, DeviceName(n), NEW refs,
         Claimable(n, refs), Claim(n), UNCHANGED <<now, registry, history, keys, cancelled>>
  PROVE  /\ Kept /\ n \in DOMAIN records'
         /\ records'[n].state = "import-cleanup-pending"
<1>1. PICK r : r = [records[n] EXCEPT !.state = "import-cleanup-pending", !.importStartedAt = 0]
  OBVIOUS
<1>2. n \in DOMAIN records /\ ids[n] # "root" /\ DeviceFits(n, records[n])
  BY StoredRecords DEF Stored, DeviceName, Claimable
<1>3. r \in DeviceRecords
  BY <1>1, <1>2 DEF DeviceFits, DeviceRecords
<1>4. /\ r.state = "import-cleanup-pending" /\ r.refs = records[n].refs
      /\ r.device = records[n].device /\ r.told = records[n].told
  BY <1>1, <1>2 DEF DeviceFits, DeviceRecords
<1>5. Fits(n, r)
  BY <1>2, <1>3, <1>4 DEF Fits, DeviceFits
<1>6. MayBecome(n, r.state)
  BY DEF MayBecome, Claimable
<1>7. records' = [records EXCEPT ![n] = r]
  BY <1>1, <1>2 DEF Claim, IInv, TypeOK
<1>8. SameWorld
  BY DEF SameWorld, history, IInv, TypeOK
<1>9. Kept
  BY <1>2, <1>5, <1>6, <1>7, <1>8, RecordChanges
<1> QED
  BY <1>2, <1>4, <1>7, <1>9

LEMMA ClaimCleanupSafe ==
  ASSUME IInv, NEW p \in Pages, ClaimCleanup(p)
  PROVE  Safe
<1> PICK n, o : /\ n = op[p].n
                /\ o = [step |-> "cancel", n |-> n, refs |-> {DeviceKey(n)}, todo |-> {}]
  OBVIOUS
<1>1. op[p].step = "import-claim"
  BY DEF ClaimCleanup, At
<1>2. DeviceName(n) /\ Placed(n) /\ n \in Names
  BY <1>1, Importing
<1>3. o \in CleanUps /\ o.step = "cancel" /\ o.n = n /\ o.refs = {DeviceKey(n)} /\ o.todo = {}
  BY <1>2, RefTypes DEF CleanUps, CleanSteps
<1>4. o \in Ops /\ ~Reserving(o) /\ FoundOK(o) /\ TodoOK(o.todo)
  BY <1>2, <1>3 DEF Ops, Reserving, FoundOK, TodoOK
<1>5. CASE Claimable(n, {DeviceKey(n)}) /\ Claim(n) /\ Start(p, o)
  <2>1. Turns(p, o)
    BY <1>4, <1>5, StartingTurns
  <2>2. Kept /\ n \in DOMAIN records' /\ records'[n].state = "import-cleanup-pending"
    BY <1>2, <1>5, <2>1, ClaimFits DEF ClaimCleanup
  <2>3. FoundOK(o)' /\ TodoOK(o.todo)'
    BY <1>4, <2>2, FoundStays, TodoStays
  <2>4. CleanUpOK(o)'
    BY <1>3, <2>2, <2>3 DEF CleanUpOK, Claimed
  <2> QED
    BY <1>3, <2>1, <2>2, <2>4, StepKindsAfter, TurningKeepsInv DEF CleanSteps, Safe
<1>6. CASE Claimed(n) /\ Start(p, o) /\ UNCHANGED records
  <2>1. Turns(p, o)
    BY <1>4, <1>6, StartingTurns
  <2>2. CleanUpOK(o)
    BY <1>3, <1>4, <1>6 DEF CleanUpOK
  <2> QED
    BY <1>3, <1>4, <1>6, <2>1, <2>2, StepKinds, QuietTurn
       DEF CleanSteps, ClaimCleanup, database, Safe
<1>7. CASE End(p) /\ UNCHANGED records
  BY <1>7, QuietEnd DEF ClaimCleanup, database
<1> QED
  BY <1>5, <1>6, <1>7 DEF ClaimCleanup, Claimed

-----------------------------------------------------------------------------
(* The clean-up of imports, by an importer or by a listing *)

\* What a clean-up has of its record.
LEMMA CleaningOne ==
  ASSUME IInv, NEW p \in Pages, op[p].step \in CleanSteps
  PROVE  /\ op[p] \in CleanUps /\ CleanUpOK(op[p])
         /\ DeviceName(op[p].n) /\ Placed(op[p].n)
         /\ op[p].n \in DOMAIN ids /\ ids[op[p].n] # "root"
         /\ op[p].refs \in {{}, {DeviceKey(op[p].n)}}
         /\ op[p].refs = {} => Dead(op[p].n)
<1>1. op[p] \in CleanUps /\ CleanUpOK(op[p])
  BY NamedOps, OpKinds DEF OpOK
<1> QED
  BY <1>1 DEF CleanUpOK, FoundOK, DeviceName

LEMMA CleanUpGoesOn ==
  ASSUME IInv, NEW p \in Pages, op[p].step \in CleanSteps,
         NEW s \in {"cancel", "drop"}, Go(p, s), NEW o, o = [op[p] EXCEPT !.step = s]
  PROVE  /\ o.step = s /\ ~Reserving(o) /\ Turns(p, o)
         /\ o.n = op[p].n /\ o.refs = op[p].refs /\ o.todo = op[p].todo
<1>1. op[p] \in CleanUps
  BY CleaningOne
<1>2. o \in CleanUps /\ o.step = s /\ o.n = op[p].n /\ o.refs = op[p].refs /\ o.todo = op[p].todo
  BY <1>1 DEF CleanUps, CleanSteps
<1>3. ~Reserving(o) /\ o \in Ops
  BY <1>2 DEF Reserving, Ops
<1> QED
  BY <1>2, <1>3, GoingTurns

\* A listing proceeds to what is left of its snapshot, or ends.
LEMMA Proceeding ==
  ASSUME IInv, NEW p \in Pages, op[p].step \in CleanSteps,
         Proceed(p, op[p].todo) \/ End(p)
  PROVE  \E o : Turns(p, o) /\ OpOK(o) /\ ~Reserving(o)
<1>1. CASE End(p)
  BY <1>1, Ending, IdleOK
<1>2. CASE Start(p, [step |-> "recover", todo |-> op[p].todo])
  <2>1. PICK o : o = [step |-> "recover", todo |-> op[p].todo]
    OBVIOUS
  <2>2. op[p].todo \in SUBSET Found /\ TodoOK(op[p].todo)
    BY CleaningOne DEF CleanUps, CleanUpOK
  <2>3. o \in Ops /\ ~Reserving(o) /\ OpOK(o)
    BY <2>1, <2>2, StepKinds DEF Recoveries, Ops, Reserving
  <2> QED
    BY <1>2, <2>1, <2>3, StartingTurns
<1> QED
  BY <1>1, <1>2 DEF Proceed

LEMMA CancelKeyRefSafe ==
  ASSUME IInv, NEW p \in Pages, CancelKeyRef(p)
  PROVE  Safe
<1> PICK n, refs, o : /\ n = op[p].n /\ refs = op[p].refs
                      /\ o = [op[p] EXCEPT !.step = "drop"]
  OBVIOUS
<1>1. op[p].step = "cancel" /\ op[p].step \in CleanSteps
  BY DEF CancelKeyRef, At, CleanSteps
<1>2. /\ CleanUpOK(op[p]) /\ DeviceName(n) /\ Placed(n) /\ n \in DOMAIN ids /\ ids[n] # "root"
      /\ refs \in {{}, {DeviceKey(n)}}
  BY <1>1, CleaningOne
<1>3. /\ o.step = "drop" /\ ~Reserving(o) /\ Turns(p, o)
      /\ o.n = n /\ o.refs = refs /\ o.todo = op[p].todo
  BY <1>1, CleanUpGoesOn DEF CancelKeyRef
<1>4. Claimed(n) /\ FoundOK(o) /\ TodoOK(o.todo)
  BY <1>1, <1>2, <1>3 DEF CleanUpOK, FoundOK
<1>5. Dead(n) \/ (Stored(n) => records[n].state = "import-cleanup-pending")
  <2>1. Stored(n) /\ records[n].state = "revoked" => registered[ids[n]] = "revoked"
    BY <1>2, StoredRecords DEF Stored, DeviceFits
  <2> QED
    BY <1>4, <2>1, RevokedIsDead DEF Claimed
<1>6. keys' = keys \ refs /\ cancelled' = cancelled \cup refs /\ refs \subseteq RefsOf(n)
  BY <1>2 DEF CancelKeyRef, RefsOf
<1>7. Kept
  BY <1>2, <1>3, <1>5, <1>6, KeysGo DEF CancelKeyRef
<1>8. FoundOK(o)' /\ TodoOK(o.todo)' /\ Claimed(n)'
  BY <1>3, <1>4, <1>7, FoundStays, TodoStays
<1>9. CleanUpOK(o)'
  BY <1>3, <1>6, <1>8 DEF CleanUpOK
<1> QED
  BY <1>3, <1>7, <1>9, StepKindsAfter, TurningKeepsInv DEF CleanSteps, Safe

\* The record of a clean-up goes after its reference was cancelled.
LEMMA DropRecordSafe ==
  ASSUME IInv, NEW p \in Pages, DropRecord(p)
  PROVE  Safe
<1> PICK n : n = op[p].n
  OBVIOUS
<1>1. op[p].step = "drop" /\ op[p].step \in CleanSteps
  BY DEF DropRecord, At, CleanSteps
<1>2. /\ CleanUpOK(op[p]) /\ n \in DOMAIN ids /\ ids[n] # "root"
      /\ op[p].refs \in {{}, {DeviceKey(n)}}
      /\ op[p].refs = {} => Dead(n)
  BY <1>1, CleaningOne
<1>3. Claimed(n) /\ op[p].refs \subseteq cancelled
  BY <1>1, <1>2 DEF CleanUpOK
<1>4. Stored(n) => MayGo(n)
  <2>1. Stored(n) /\ records[n].state = "revoked" => registered[ids[n]] = "revoked"
    BY <1>2, StoredRecords DEF Stored, DeviceFits
  <2> QED
    BY <1>2, <1>3, <2>1, RevokedIsDead DEF Claimed, MayGo
<1>5. PICK o : Turns(p, o) /\ OpOK(o) /\ ~Reserving(o)
  BY <1>1, Proceeding DEF DropRecord
<1>6. SameWorld
  BY DEF DropRecord, SameWorld, history, IInv, TypeOK
<1>7. Kept
  BY <1>2, <1>4, <1>5, <1>6, RecordGoes DEF DropRecord
<1> QED
  BY <1>5, <1>7, SettledTurn

LEMMA RecoverSafe ==
  ASSUME IInv, NEW p \in Pages, Recover(p)
  PROVE  Safe
<1>1. PICK o : o = [step |-> "recover", todo |-> Unfinished]
  OBVIOUS
<1>2. ASSUME NEW r \in Unfinished
      PROVE  /\ r \in Found /\ FoundOK(r)
             /\ r.state = "import-cleanup-pending" => Claimed(r.n)
  <2>1. PICK n \in DOMAIN records :
          /\ records[n].kind = "device" /\ records[n].state \in Incomplete
          /\ r = [n |-> n, state |-> records[n].state, refs |-> records[n].refs]
    BY DEF Unfinished
  <2>2. /\ n \in Names /\ DeviceName(n) /\ Placed(n) /\ DeviceFits(n, records[n])
    BY <2>1, StoredRecords
  <2>3. /\ r.n = n /\ r.state = records[n].state /\ r.refs = records[n].refs
        /\ records[n].refs \subseteq AllRefs
    BY <2>1, <2>2 DEF DeviceFits, DeviceRecords
  <2> QED
    BY <2>1, <2>2, <2>3 DEF Found, FoundOK, DeviceFits, Claimed
<1>3. Unfinished \in SUBSET Found /\ TodoOK(Unfinished)
  BY <1>2 DEF TodoOK
<1>4. o \in Ops /\ ~Reserving(o) /\ OpOK(o)
  BY <1>1, <1>3, StepKinds DEF Recoveries, Ops, Reserving
<1>5. Turns(p, o)
  BY <1>1, <1>4, StartingTurns DEF Recover
<1> QED
  BY <1>4, <1>5, QuietTurn DEF Recover, Safe

\* What the listing looked at may be stale: a claimed record stays claimed.
LEMMA RecoverNextSafe ==
  ASSUME IInv, NEW p \in Pages, RecoverNext(p)
  PROVE  Safe
<1>1. op[p].step = "recover" /\ op[p] \in Recoveries /\ TodoOK(op[p].todo)
  BY NamedOps, OpKinds DEF RecoverNext, At, OpOK
<1>2. PICK r \in op[p].todo :
        Start(p, [step |-> IF r.state = "import-cleanup-pending" THEN "cancel"
                           ELSE IF r.refs # {} /\ r.refs \subseteq keys THEN "recover-promote"
                           ELSE "recover-claim",
                  n |-> r.n, refs |-> r.refs, todo |-> op[p].todo \ {r}])
  BY DEF RecoverNext
<1>3. r \in Found /\ FoundOK(r) /\ (r.state = "import-cleanup-pending" => Claimed(r.n))
  BY <1>1, <1>2 DEF Recoveries, TodoOK
<1>4. PICK s \in {"cancel", "recover-promote", "recover-claim"} :
        /\ Start(p, [step |-> s, n |-> r.n, refs |-> r.refs, todo |-> op[p].todo \ {r}])
        /\ s = "cancel" => Claimed(r.n)
        /\ s = "recover-promote" => r.refs # {} /\ r.refs \subseteq keys
  BY <1>2, <1>3
<1>5. PICK o : o = [step |-> s, n |-> r.n, refs |-> r.refs, todo |-> op[p].todo \ {r}]
  OBVIOUS
<1>6. o \in CleanUps /\ o.step = s /\ o.n = r.n /\ o.refs = r.refs /\ o.todo = op[p].todo \ {r}
  BY <1>1, <1>3, <1>5 DEF CleanUps, CleanSteps, Found, Recoveries
<1>7. Turns(p, o) /\ ~Reserving(o)
  BY <1>4, <1>5, <1>6, StartingTurns DEF Ops, Reserving
<1>8. FoundOK(o) /\ TodoOK(o.todo)
  BY <1>1, <1>3, <1>6 DEF FoundOK, TodoOK
<1>9. s = "recover-promote" => Promotable(r.n)
  BY <1>3, <1>4 DEF FoundOK, Promotable
<1>10. CleanUpOK(o)
  BY <1>4, <1>6, <1>8, <1>9 DEF CleanUpOK
<1>11. OpOK(o)
  BY <1>6, <1>10, StepKinds DEF CleanSteps
<1> QED
  BY <1>7, <1>11, QuietTurn DEF RecoverNext, Safe

LEMMA RecoverPromoteSafe ==
  ASSUME IInv, NEW p \in Pages, RecoverPromote(p)
  PROVE  Safe
<1> PICK n : n = op[p].n
  OBVIOUS
<1>1. op[p].step = "recover-promote" /\ op[p].step \in CleanSteps
  BY DEF RecoverPromote, At, CleanSteps
<1>2. DeviceName(n) /\ Promotable(n)
  BY <1>1, CleaningOne DEF CleanUpOK
<1>3. PICK o : Turns(p, o) /\ OpOK(o) /\ ~Reserving(o)
  BY <1>1, Proceeding DEF RecoverPromote
<1>4. CASE Claimable(n, op[p].refs) /\ Finish(n)
  <2>1. Kept
    BY <1>2, <1>3, <1>4, FinishFits DEF RecoverPromote, Claimable
  <2> QED
    BY <1>3, <2>1, SettledTurn
<1>5. CASE UNCHANGED records
  BY <1>3, <1>5, QuietTurn DEF RecoverPromote, database, Safe
<1> QED
  BY <1>4, <1>5 DEF RecoverPromote

LEMMA RecoverClaimSafe ==
  ASSUME IInv, NEW p \in Pages, RecoverClaim(p)
  PROVE  Safe
<1> PICK n, refs, o : /\ n = op[p].n /\ refs = op[p].refs
                      /\ o = [op[p] EXCEPT !.step = "cancel"]
  OBVIOUS
<1>1. op[p].step = "recover-claim" /\ op[p].step \in CleanSteps
  BY DEF RecoverClaim, At, CleanSteps
<1>2. DeviceName(n) /\ CleanUpOK(op[p])
  BY <1>1, CleaningOne
<1>3. ASSUME NEW w, Turns(p, w)
      PROVE  Kept
  <2>1. CASE Claimable(n, refs) /\ Claim(n)
    BY <1>2, <1>3, <2>1, ClaimFits DEF RecoverClaim
  <2>2. CASE UNCHANGED records
    BY <1>3, <2>2, NothingMoves DEF RecoverClaim, database
  <2> QED
    BY <2>1, <2>2 DEF RecoverClaim
<1>4. CASE Proceed(p, op[p].todo) \/ End(p)
  <2>1. PICK w : Turns(p, w) /\ OpOK(w) /\ ~Reserving(w)
    BY <1>1, <1>4, Proceeding
  <2> QED
    BY <1>3, <2>1, SettledTurn
<1>5. CASE records'[n].state = "import-cleanup-pending" /\ Go(p, "cancel")
  <2>1. /\ o.step = "cancel" /\ ~Reserving(o) /\ Turns(p, o)
        /\ o.n = n /\ o.refs = refs /\ o.todo = op[p].todo
    BY <1>1, <1>5, CleanUpGoesOn
  <2>2. Kept
    BY <1>3, <2>1
  <2>3. FoundOK(o) /\ TodoOK(o.todo)
    BY <1>2, <2>1 DEF CleanUpOK, FoundOK
  <2>4. FoundOK(o)' /\ TodoOK(o.todo)'
    BY <2>2, <2>3, FoundStays, TodoStays
  <2>5. CleanUpOK(o)'
    BY <1>5, <2>1, <2>4 DEF CleanUpOK, Claimed
  <2> QED
    BY <2>1, <2>2, <2>5, StepKindsAfter, TurningKeepsInv DEF CleanSteps, Safe
<1> QED
  BY <1>4, <1>5 DEF RecoverClaim

-----------------------------------------------------------------------------
(* activateDevice *)

LEMMA ActivateSafe ==
  ASSUME IInv, NEW p \in Pages, NEW n \in DOMAIN records, Activate(p, n)
  PROVE  Safe
<1>1. PICK o : o = [step |-> "activate-sign", n |-> n, device |-> records[n].device]
  OBVIOUS
<1>2. /\ n \in Names /\ Placed(n) /\ DeviceName(n)
      /\ records[n].device = ids[n] /\ records[n].device \in Devices
      /\ records[n].state \notin Incomplete
  BY StoredRecords DEF Activate, SigningDevice
<1>3. o \in Activations /\ o.step = "activate-sign" /\ o.n = n /\ o.device = ids[n]
  BY <1>1, <1>2 DEF Activations, ActivateSteps
<1>4. Turns(p, o) /\ ~Reserving(o)
  BY <1>1, <1>3, StartingTurns DEF Activate, Ops, Reserving
<1>5. ActivationOK(o)
  BY <1>2, <1>3 DEF ActivationOK
<1> QED
  BY <1>3, <1>4, <1>5, StepKinds, QuietTurn DEF ActivateSteps, Activate, Safe

\* An activation needs the same at each of its steps.
LEMMA ActivationGoesOn ==
  ASSUME IInv, NEW p \in Pages, op[p].step \in ActivateSteps,
         NEW s \in ActivateSteps, Go(p, s)
  PROVE  \E o : Turns(p, o) /\ OpOK(o) /\ ~Reserving(o)
<1>1. PICK o : o = [op[p] EXCEPT !.step = s]
  OBVIOUS
<1>2. op[p] \in Activations /\ ActivationOK(op[p])
  BY NamedOps, OpKinds DEF OpOK
<1>3. o \in Activations /\ o.step = s /\ o.n = op[p].n /\ o.device = op[p].device
  BY <1>1, <1>2 DEF Activations
<1>4. o \in Ops /\ ~Reserving(o)
  BY <1>3 DEF Ops, Reserving, ActivateSteps
<1>5. ActivationOK(o)
  BY <1>2, <1>3 DEF ActivationOK
<1> QED
  BY <1>1, <1>3, <1>4, <1>5, GoingTurns, StepKinds

LEMMA SignActivationSafe ==
  ASSUME IInv, NEW p \in Pages, SignActivation(p)
  PROVE  Safe
<1>1. CASE Go(p, "activate-send")
  <2>1. PICK o : Turns(p, o) /\ OpOK(o) /\ ~Reserving(o)
    BY <1>1, ActivationGoesOn DEF SignActivation, At, ActivateSteps
  <2> QED
    BY <2>1, QuietTurn DEF SignActivation, Safe
<1>2. CASE End(p)
  BY <1>2, QuietEnd DEF SignActivation
<1> QED
  BY <1>1, <1>2 DEF SignActivation

\* A device that was revoked is not activated again.
LEMMA RegistryActivatesSafe ==
  ASSUME IInv, NEW p \in Pages, RegistryActivates(p)
  PROVE  Safe
<1> PICK d : d = op[p].device
  OBVIOUS
<1>1. op[p].step = "activate-send" /\ op[p].step \in ActivateSteps /\ d \in Devices
  BY NamedOps, OpKinds DEF RegistryActivates, At, ActivateSteps, Activations
<1>2. PICK o : Turns(p, o) /\ OpOK(o) /\ ~Reserving(o)
  <2>1. CASE Go(p, "activate-note")
    BY <1>1, <2>1, ActivationGoesOn DEF ActivateSteps
  <2>2. CASE End(p)
    BY <2>2, Ending, IdleOK
  <2> QED
    BY <2>1, <2>2 DEF RegistryActivates
<1>3. CASE Activatable(d) /\ registered' = [registered EXCEPT ![d] = "active"]
  <2>1. registered[d] # "revoked"
    BY <1>3 DEF Activatable, DeviceState
  <2>2. Kept
    BY <1>1, <1>2, <1>3, <2>1, DeviceMoves DEF RegistryActivates
  <2> QED
    BY <1>2, <2>2, SettledTurn
<1>4. CASE UNCHANGED registered
  BY <1>2, <1>4, QuietTurn DEF RegistryActivates, registry, Safe
<1> QED
  BY <1>3, <1>4 DEF RegistryActivates

LEMMA NoteActivationSafe ==
  ASSUME IInv, NEW p \in Pages, NoteActivation(p)
  PROVE  Safe
<1> PICK n : n = op[p].n
  OBVIOUS
<1>1. DeviceName(n) /\ (Stored(n) => records[n].state \notin Incomplete)
  BY NamedOps DEF NoteActivation, At, OpOK, ActivateSteps, ActivationOK
<1>2. CASE UNCHANGED records
  BY <1>2, QuietEnd DEF NoteActivation, database
<1>3. CASE Stored(n) /\ records' = [records EXCEPT ![n] = Noted(@)]
  <2>1. PICK r : r = Noted(records[n])
    OBVIOUS
  <2>2. n \in DOMAIN records /\ ids[n] # "root" /\ DeviceFits(n, records[n])
    BY <1>1, <1>3, StoredRecords DEF Stored, DeviceName
  <2>3. records[n].state \in {"pending-activation", "active", "revoked"}
    BY <1>1, <1>3, <2>2 DEF DeviceFits, DeviceRecords, Incomplete
  <2>4. DeviceFits(n, r) /\ MayBecome(n, r.state)
    <3>1. CASE records[n].state = "revoked"
      BY <2>1, <2>2, <3>1, SameMayBecome DEF Noted
    <3>2. CASE records[n].state # "revoked"
      <4>1. r = [records[n] EXCEPT !.state = "active"]
        BY <2>1, <3>2 DEF Noted
      <4>2. /\ r \in DeviceRecords /\ r.state = "active" /\ r.refs = records[n].refs
            /\ r.device = records[n].device /\ r.told = records[n].told
        BY <2>2, <4>1 DEF DeviceFits, DeviceRecords
      <4> QED
        BY <2>2, <2>3, <3>2, <4>2 DEF DeviceFits, MayBecome
    <3> QED
      BY <3>1, <3>2
  <2>5. Fits(n, r) /\ records' = [records EXCEPT ![n] = r]
    BY <1>3, <2>1, <2>2, <2>4 DEF Fits
  <2>6. SameWorld
    BY DEF NoteActivation, SameWorld, history, IInv, TypeOK
  <2>7. Kept
    BY <2>2, <2>4, <2>5, <2>6, Ending, RecordChanges DEF NoteActivation
  <2> QED
    BY <2>7, Ending, IdleOK, SettledTurn DEF NoteActivation
<1> QED
  BY <1>2, <1>3 DEF NoteActivation

-----------------------------------------------------------------------------
(* revokeDeviceSelf and revokeDeviceRoot *)

LEMMA RevokeSelfSafe ==
  ASSUME IInv, NEW p \in Pages, NEW n \in DOMAIN records, RevokeSelf(p, n)
  PROVE  Safe
<1>1. PICK s \in {"revoked-key", "self-sign"} :
        /\ Start(p, [step |-> s, n |-> n, device |-> records[n].device, refs |-> records[n].refs])
        /\ s = "revoked-key" => records[n].state = "revoked"
  BY DEF RevokeSelf
<1>2. PICK o : o = [step |-> s, n |-> n, device |-> records[n].device, refs |-> records[n].refs]
  OBVIOUS
<1>3. /\ n \in Names /\ Placed(n) /\ DeviceName(n) /\ DeviceFits(n, records[n])
      /\ records[n].device = ids[n] /\ records[n].device \in Devices
  BY StoredRecords DEF RevokeSelf, SigningDevice
<1>4. records[n].refs \subseteq {DeviceKey(n)} /\ records[n].refs \subseteq AllRefs
  BY <1>3 DEF DeviceFits, DeviceRecords
<1>5. /\ o \in Retirements /\ o.step = s /\ o.n = n /\ o.device = ids[n]
      /\ o.refs = records[n].refs
  BY <1>2, <1>3, <1>4 DEF Retirements, RetireSteps
<1>6. Turns(p, o) /\ ~Reserving(o)
  BY <1>1, <1>2, <1>5, StartingTurns DEF Ops, Reserving
<1>7. RetirementOK(o)
  BY <1>1, <1>3, <1>4, <1>5 DEF RetirementOK, DeviceFits
<1> QED
  BY <1>5, <1>6, <1>7, StepKinds, QuietTurn DEF RetireSteps, RevokeSelf, Safe

LEMMA RevokeRootSafe ==
  ASSUME IInv, NEW p \in Pages, NEW n \in DOMAIN records, NEW d \in Devices,
         RevokeRoot(p, n, d)
  PROVE  Safe
<1>1. PICK o : o = [step |-> "root-send", n |-> n, device |-> d, refs |-> {}]
  OBVIOUS
<1>2. n \in Names
  BY StoredRecords
<1>3. o \in Retirements /\ o.step = "root-send"
  BY <1>1, <1>2 DEF Retirements, RetireSteps
<1>4. Turns(p, o) /\ ~Reserving(o)
  BY <1>1, <1>3, StartingTurns DEF RevokeRoot, Ops, Reserving
<1>5. RetirementOK(o)
  BY <1>3 DEF RetirementOK
<1> QED
  BY <1>3, <1>4, <1>5, StepKinds, QuietTurn DEF RetireSteps, RevokeRoot, Safe

\* What a retirement has of its record, once it is about one.
LEMMA Retiring ==
  ASSUME IInv, NEW p \in Pages, op[p].step \in RetireSteps
  PROVE  /\ op[p] \in Retirements /\ RetirementOK(op[p]) /\ op[p].device \in Devices
         /\ op[p].step \notin {"root-send", "root-list"} =>
              /\ DeviceName(op[p].n) /\ Placed(op[p].n) /\ op[p].n \in DOMAIN ids
              /\ ids[op[p].n] # "root" /\ op[p].device = ids[op[p].n]
<1>1. op[p] \in Retirements /\ RetirementOK(op[p])
  BY NamedOps, OpKinds DEF OpOK
<1> QED
  BY <1>1 DEF Retirements, RetirementOK, DeviceName

LEMMA RetirementGoesOn ==
  ASSUME IInv, NEW p \in Pages, op[p].step \in RetireSteps,
         NEW s \in RetireSteps, Go(p, s), NEW o, o = [op[p] EXCEPT !.step = s]
  PROVE  /\ o.step = s /\ ~Reserving(o) /\ Turns(p, o)
         /\ o.n = op[p].n /\ o.device = op[p].device /\ o.refs = op[p].refs
<1>1. op[p] \in Retirements
  BY Retiring
<1>2. /\ o \in Retirements /\ o.step = s /\ o.n = op[p].n
      /\ o.device = op[p].device /\ o.refs = op[p].refs
  BY <1>1 DEF Retirements
<1>3. ~Reserving(o) /\ o \in Ops
  BY <1>2 DEF Reserving, RetireSteps, Ops
<1> QED
  BY <1>2, <1>3, GoingTurns

LEMMA SignSelfRevocationSafe ==
  ASSUME IInv, NEW p \in Pages, SignSelfRevocation(p)
  PROVE  Safe
<1>1. op[p].step = "self-sign" /\ op[p].step \in RetireSteps
  BY DEF SignSelfRevocation, At, RetireSteps
<1>2. CASE Go(p, "self-send")
  <2>1. PICK o : o = [op[p] EXCEPT !.step = "self-send"]
    OBVIOUS
  <2>2. /\ o.step = "self-send" /\ ~Reserving(o) /\ Turns(p, o)
        /\ o.n = op[p].n /\ o.device = op[p].device
    BY <1>1, <1>2, <2>1, RetirementGoesOn DEF RetireSteps
  <2>3. RetirementOK(o)
    BY <1>1, <2>2, Retiring DEF RetirementOK
  <2> QED
    BY <2>2, <2>3, StepKinds, QuietTurn DEF RetireSteps, SignSelfRevocation, Safe
<1>3. CASE End(p)
  BY <1>3, QuietEnd DEF SignSelfRevocation
<1> QED
  BY <1>2, <1>3 DEF SignSelfRevocation

LEMMA RegistryRevokesDeviceSafe ==
  ASSUME IInv, NEW p \in Pages, RegistryRevokesDevice(p)
  PROVE  Safe
<1> PICK d : d = op[p].device
  OBVIOUS
<1>1. op[p].step \in {"self-send", "root-send"} /\ op[p].step \in RetireSteps
  BY DEF RegistryRevokesDevice, RetireSteps
<1>2. d \in Devices /\ RetirementOK(op[p])
  BY <1>1, Retiring
<1>3. CASE End(p) /\ UNCHANGED registered
  BY <1>3, QuietEnd DEF RegistryRevokesDevice, registry
<1>4. CASE registered' = [registered EXCEPT ![d] = "revoked"]
  <2>1. ASSUME NEW o, Turns(p, o)
        PROVE  Kept
    BY <1>2, <1>4, <2>1, DeviceMoves DEF RegistryRevokesDevice
  <2>2. registered'[d] = "revoked"
    BY <1>2, <1>4 DEF IInv, TypeOK
  <2>3. CASE End(p)
    BY <2>1, <2>3, Ending, IdleOK, SettledTurn
  <2>4. CASE Go(p, IF At(p, "self-send") THEN "revoked-note" ELSE "root-list")
    <3>1. PICK s \in {"revoked-note", "root-list"} :
            /\ Go(p, s)
            /\ s = "revoked-note" => op[p].step = "self-send"
      BY <2>4 DEF At
    <3>2. PICK o : o = [op[p] EXCEPT !.step = s]
      OBVIOUS
    <3>3. /\ o.step = s /\ ~Reserving(o) /\ Turns(p, o)
          /\ o.n = op[p].n /\ o.device = d
      BY <1>1, <3>1, <3>2, RetirementGoesOn DEF RetireSteps
    <3>4. Kept
      BY <2>1, <3>3
    <3>5. s = "revoked-note" =>
            DeviceName(o.n)' /\ Placed(o.n)' /\ o.device = ids'[o.n]
      BY <1>1, <3>1, <3>3, <3>4, Retiring, NamesStay DEF Kept, Moves
    <3>6. RetirementOK(o)'
      BY <2>2, <3>3, <3>5 DEF RetirementOK
    <3> QED
      BY <3>3, <3>4, <3>6, StepKindsAfter, TurningKeepsInv DEF RetireSteps, Safe
  <2> QED
    BY <1>4, <2>3, <2>4 DEF RegistryRevokesDevice
<1> QED
  BY <1>3, <1>4 DEF RegistryRevokesDevice

LEMMA ListDeviceRecordsSafe ==
  ASSUME IInv, NEW p \in Pages, ListDeviceRecords(p)
  PROVE  Safe
<1>1. op[p].step = "root-list" /\ op[p].step \in RetireSteps
  BY DEF ListDeviceRecords, At, RetireSteps
<1>2. op[p] \in Retirements /\ registered[op[p].device] = "revoked"
  BY <1>1, Retiring DEF RetirementOK
<1>3. CASE \E m \in {k \in DOMAIN records :
                       records[k].kind = "device" /\ records[k].device = op[p].device} :
             Start(p, [op[p] EXCEPT !.step = "revoked-note", !.n = m])
  <2>1. PICK m \in DOMAIN records :
          /\ records[m].kind = "device" /\ records[m].device = op[p].device
          /\ Start(p, [op[p] EXCEPT !.step = "revoked-note", !.n = m])
    BY <1>3
  <2>2. PICK o : o = [op[p] EXCEPT !.step = "revoked-note", !.n = m]
    OBVIOUS
  <2>3. m \in Names /\ Placed(m) /\ DeviceName(m) /\ op[p].device = ids[m]
    BY <2>1, StoredRecords
  <2>4. o \in Retirements /\ o.step = "revoked-note" /\ o.n = m /\ o.device = op[p].device
    BY <1>2, <2>2, <2>3 DEF Retirements, RetireSteps
  <2>5. Turns(p, o) /\ ~Reserving(o)
    BY <2>1, <2>2, <2>4, StartingTurns DEF Ops, Reserving
  <2>6. RetirementOK(o)
    BY <1>2, <2>3, <2>4 DEF RetirementOK
  <2> QED
    BY <2>4, <2>5, <2>6, StepKinds, QuietTurn DEF RetireSteps, ListDeviceRecords, Safe
<1>4. CASE End(p)
  BY <1>4, QuietEnd DEF ListDeviceRecords
<1> QED
  BY <1>3, <1>4 DEF ListDeviceRecords

\* The registry confirmed the revocation before the record says so.
LEMMA NoteDeviceRevocationSafe ==
  ASSUME IInv, NEW p \in Pages, NoteDeviceRevocation(p)
  PROVE  Safe
<1> PICK n : n = op[p].n
  OBVIOUS
<1>1. op[p].step = "revoked-note" /\ op[p].step \in RetireSteps
  BY DEF NoteDeviceRevocation, At, RetireSteps
<1>2. /\ op[p] \in Retirements /\ DeviceName(n) /\ Placed(n) /\ n \in DOMAIN ids
      /\ ids[n] # "root" /\ op[p].device = ids[n] /\ registered[ids[n]] = "revoked"
  BY <1>1, Retiring DEF RetirementOK
<1>3. CASE End(p) /\ UNCHANGED records
  BY <1>3, QuietEnd DEF NoteDeviceRevocation, database
<1>4. CASE /\ Stored(n)
           /\ records' = [records EXCEPT ![n].state = "revoked"]
           /\ IF records[n].refs = {} THEN End(p)
              ELSE Start(p, [op[p] EXCEPT !.step = "revoked-key", !.refs = records[n].refs])
  <2>1. PICK r : r = [records[n] EXCEPT !.state = "revoked"]
    OBVIOUS
  <2>2. n \in DOMAIN records /\ DeviceFits(n, records[n])
    BY <1>2, <1>4, StoredRecords DEF Stored
  <2>3. /\ r \in DeviceRecords /\ r.state = "revoked" /\ r.refs = records[n].refs
        /\ r.device = records[n].device /\ r.told = records[n].told
    BY <2>1, <2>2 DEF DeviceFits, DeviceRecords
  <2>4. Fits(n, r)
    BY <1>2, <2>2, <2>3 DEF Fits, DeviceFits
  <2>5. MayBecome(n, r.state)
    BY <2>2, <2>3 DEF MayBecome, DeviceFits, DeviceRecords
  <2>6. records' = [records EXCEPT ![n] = r]
    BY <1>4, <2>1
  <2>7. SameWorld
    BY DEF NoteDeviceRevocation, SameWorld, history, IInv, TypeOK
  <2>8. ASSUME NEW o, Turns(p, o)
        PROVE  Kept
    BY <1>2, <2>2, <2>4, <2>5, <2>6, <2>7, <2>8, RecordChanges
  <2>9. CASE End(p)
    BY <2>8, <2>9, Ending, IdleOK, SettledTurn
  <2>10. CASE Start(p, [op[p] EXCEPT !.step = "revoked-key", !.refs = records[n].refs])
    <3>1. PICK o : o = [op[p] EXCEPT !.step = "revoked-key", !.refs = records[n].refs]
      OBVIOUS
    <3>2. records[n].refs \subseteq {DeviceKey(n)} /\ records[n].refs \subseteq AllRefs
      BY <2>2 DEF DeviceFits, DeviceRecords
    <3>3. /\ o \in Retirements /\ o.step = "revoked-key" /\ o.n = n
          /\ o.device = op[p].device /\ o.refs = records[n].refs
      BY <1>2, <3>1, <3>2 DEF Retirements, RetireSteps
    <3>4. Turns(p, o) /\ ~Reserving(o)
      BY <2>10, <3>1, <3>3, StartingTurns DEF Ops, Reserving
    <3>5. RetirementOK(o)
      BY <1>2, <3>2, <3>3 DEF RetirementOK
    <3>6. Kept
      BY <2>8, <3>4
    <3> QED
      BY <3>3, <3>4, <3>5, <3>6, StepKinds, SettledTurn DEF RetireSteps
  <2> QED
    BY <1>4, <2>9, <2>10
<1> QED
  BY <1>3, <1>4 DEF NoteDeviceRevocation

LEMMA DeleteRevokedKeySafe ==
  ASSUME IInv, NEW p \in Pages, DeleteRevokedKey(p)
  PROVE  Safe
<1> PICK n, refs, o : /\ n = op[p].n /\ refs = op[p].refs
                      /\ o = [op[p] EXCEPT !.step = "revoked-refs"]
  OBVIOUS
<1>1. op[p].step = "revoked-key" /\ op[p].step \in RetireSteps
  BY DEF DeleteRevokedKey, At, RetireSteps
<1>2. /\ DeviceName(n) /\ Placed(n) /\ n \in DOMAIN ids /\ ids[n] # "root"
      /\ op[p].device = ids[n] /\ registered[ids[n]] = "revoked"
      /\ refs \subseteq {DeviceKey(n)}
  BY <1>1, Retiring DEF RetirementOK
<1>3. /\ o.step = "revoked-refs" /\ ~Reserving(o) /\ Turns(p, o)
      /\ o.n = n /\ o.device = op[p].device
  BY <1>1, RetirementGoesOn DEF DeleteRevokedKey, RetireSteps
<1>4. Dead(n) /\ refs \subseteq RefsOf(n) /\ keys' = keys \ refs /\ cancelled' = cancelled
  BY <1>2, RevokedIsDead DEF RefsOf, DeleteRevokedKey
<1>5. Kept
  BY <1>2, <1>3, <1>4, KeysGo DEF DeleteRevokedKey
<1>6. RetirementOK(o)
  BY <1>2, <1>3 DEF RetirementOK
<1> QED
  BY <1>3, <1>5, <1>6, StepKinds, SettledTurn DEF RetireSteps

LEMMA DropRevokedRefSafe ==
  ASSUME IInv, NEW p \in Pages, DropRevokedRef(p)
  PROVE  Safe
<1> PICK n : n = op[p].n
  OBVIOUS
<1>1. op[p].step = "revoked-refs" /\ op[p].step \in RetireSteps
  BY DEF DropRevokedRef, At, RetireSteps
<1>2. ids[n] # "root" /\ Dead(n)
  BY <1>1, Retiring, RevokedIsDead DEF RetirementOK
<1>3. CASE UNCHANGED records
  BY <1>3, QuietEnd DEF DropRevokedRef, database
<1>4. CASE Stored(n) /\ records' = [records EXCEPT ![n].refs = {}]
  <2>1. PICK r : r = [records[n] EXCEPT !.refs = {}]
    OBVIOUS
  <2>2. n \in DOMAIN records /\ DeviceFits(n, records[n])
    BY <1>2, <1>4, StoredRecords DEF Stored
  <2>3. /\ r \in DeviceRecords /\ r.state = records[n].state /\ r.refs = {}
        /\ r.device = records[n].device /\ r.told = records[n].told
        /\ r.importStartedAt = records[n].importStartedAt
    BY <2>1, <2>2 DEF DeviceFits, DeviceRecords
  <2>4. Fits(n, r)
    BY <1>2, <2>2, <2>3 DEF Fits, DeviceFits
  <2>5. MayBecome(n, r.state)
    BY <2>2, <2>3, SameMayBecome
  <2>6. records' = [records EXCEPT ![n] = r]
    BY <1>4, <2>1
  <2>7. SameWorld
    BY DEF DropRevokedRef, SameWorld, history, IInv, TypeOK
  <2>8. Kept
    BY <1>2, <2>2, <2>4, <2>5, <2>6, <2>7, Ending, RecordChanges DEF DropRevokedRef
  <2> QED
    BY <2>8, Ending, IdleOK, SettledTurn DEF DropRevokedRef
<1> QED
  BY <1>3, <1>4 DEF DropRevokedRef

-----------------------------------------------------------------------------
(* refreshDeviceStatus, and tabs that are closed *)

LEMMA RefreshSafe ==
  ASSUME IInv, NEW p \in Pages, NEW n \in DOMAIN records, Refresh(p, n)
  PROVE  Safe
<1>1. PICK o : o = [step |-> "refresh", n |-> n, told |-> DeviceState(records[n].device)]
  OBVIOUS
<1>2. /\ n \in Names /\ Placed(n) /\ DeviceName(n)
      /\ records[n].device = ids[n] /\ records[n].device \in Devices
  BY StoredRecords DEF Refresh
<1>3. registered[ids[n]] \in {"none", "active", "revoked"}
  BY <1>2 DEF IInv, TypeOK
<1>4. DeviceState(ids[n]) \in {"none", "active", "revoked", "expired"}
  BY <1>3 DEF DeviceState
<1>5. o \in Refreshes /\ o.step = "refresh" /\ o.n = n /\ o.told = DeviceState(ids[n])
  BY <1>1, <1>2, <1>4 DEF Refreshes
<1>6. Turns(p, o) /\ ~Reserving(o)
  BY <1>1, <1>5, StartingTurns DEF Refresh, Ops, Reserving
<1>7. RefreshOK(o)
  BY <1>2, <1>5 DEF RefreshOK, Dead, Live
<1> QED
  BY <1>5, <1>6, <1>7, StepKinds, QuietTurn DEF Refresh, Safe

\* What was told may be old, but a dead device stays dead.
LEMMA NoteStatusSafe ==
  ASSUME IInv, NEW p \in Pages, NoteStatus(p)
  PROVE  Safe
<1> PICK n, told : n = op[p].n /\ told = op[p].told
  OBVIOUS
<1>1. /\ op[p] \in Refreshes /\ DeviceName(n) /\ ids[n] # "root"
      /\ told \in {"revoked", "expired"} => Dead(n)
  BY NamedOps, OpKinds DEF NoteStatus, At, OpOK, RefreshOK, DeviceName
<1>2. CASE UNCHANGED records
  BY <1>2, QuietEnd DEF NoteStatus, database
<1>3. CASE Stored(n) /\ records' = [records EXCEPT ![n].told = told]
  <2>1. PICK r : r = [records[n] EXCEPT !.told = told]
    OBVIOUS
  <2>2. n \in DOMAIN records /\ DeviceFits(n, records[n])
    BY <1>1, <1>3, StoredRecords DEF Stored
  <2>3. told \in {"none", "active", "revoked", "expired"}
    BY <1>1 DEF Refreshes
  <2>4. /\ r \in DeviceRecords /\ r.state = records[n].state /\ r.refs = records[n].refs
        /\ r.device = records[n].device /\ r.told = told
        /\ r.importStartedAt = records[n].importStartedAt
    BY <2>1, <2>2, <2>3 DEF DeviceFits, DeviceRecords
  <2>5. Fits(n, r)
    BY <1>1, <2>2, <2>4 DEF Fits, DeviceFits
  <2>6. MayBecome(n, r.state)
    BY <2>2, <2>4, SameMayBecome
  <2>7. records' = [records EXCEPT ![n] = r]
    BY <1>3, <2>1
  <2>8. SameWorld
    BY DEF NoteStatus, SameWorld, history, IInv, TypeOK
  <2>9. Kept
    BY <1>1, <2>2, <2>5, <2>6, <2>7, <2>8, Ending, RecordChanges DEF NoteStatus
  <2> QED
    BY <2>9, Ending, IdleOK, SettledTurn DEF NoteStatus
<1> QED
  BY <1>2, <1>3 DEF NoteStatus

\* A closed tab leaves its operation where it was; the others only need what
\* the invariant says of the records.
LEMMA ClosePageSafe ==
  ASSUME IInv, NEW p \in Pages, ClosePage(p)
  PROVE  Safe
  BY QuietEnd DEF ClosePage

LEMMA TickSafe ==
  ASSUME IInv, Tick
  PROVE  Safe
<1>1. Kept /\ op' = op
  BY TimeMoves
<1>2. ASSUME NEW q \in Pages
      PROVE  OpOK(op[q])'
  <2>1. PICK w : w = op[q]
    OBVIOUS
  <2>2. w \in Ops /\ OpOK(w) /\ op'[q] = w
    BY <1>1, <2>1 DEF IInv, TypeOK
  <2>3. OpOK(w)'
    BY <1>1, <2>1, <2>2, OpStays
  <2> QED
    BY <2>2, <2>3
<1> QED
  BY <1>1, <1>2 DEF Kept, IInv, Safe

-----------------------------------------------------------------------------
(* Every step *)

LEMMA IdentityNextSafe ==
  ASSUME IInv, NEW p \in Pages, IdentityNext(p)
  PROVE  Safe
<1>1. CASE CreateSigningKey(p)
  BY <1>1, CreateSigningKeySafe
<1>2. CASE \E n \in DOMAIN records : Register(p, n) \/ Revoke(p, n) \/ Remove(p, n)
  BY <1>2, RegisterSafe, RevokeSafe, RemoveSafe
<1>3. CASE IdentityStep(p)
  BY <1>3, StoreRevocationSecretSafe, PutRecordSafe, CleanUpCreationSafe,
     RegistryRegistersSafe, NoteRegistrationSafe, AskIdentityStatusSafe, SignRevocationSafe,
     RegistryRevokesSafe, NoteRevocationSafe, DisposeKeysSafe, DisposeRecordSafe,
     RemoveKeysSafe, RemoveRefsSafe, RemoveRecordSafe
     DEF IdentityStep
<1> QED
  BY <1>1, <1>2, <1>3 DEF IdentityNext

LEMMA DeviceNextSafe ==
  ASSUME IInv, NEW p \in Pages, DeviceNext(p)
  PROVE  Safe
<1>1. CASE Recover(p)
  BY <1>1, RecoverSafe
<1>2. CASE \E d \in Devices :
             \/ Import(p, d)
             \/ \E n \in DOMAIN records : Issue(p, n, d) \/ RevokeRoot(p, n, d)
  BY <1>2, ImportSafe, IssueSafe, RevokeRootSafe
<1>3. CASE \E n \in DOMAIN records : Activate(p, n) \/ RevokeSelf(p, n) \/ Refresh(p, n)
  BY <1>3, ActivateSafe, RevokeSelfSafe, RefreshSafe
<1>4. CASE DeviceStep(p)
  BY <1>4, AppendIssuedDeviceSafe, ReserveDeviceRecordSafe, ImportKeyAtRefSafe,
     FinalizeImportSafe, ClaimCleanupSafe, CancelKeyRefSafe, DropRecordSafe, RecoverNextSafe,
     RecoverPromoteSafe, RecoverClaimSafe, SignActivationSafe, RegistryActivatesSafe,
     NoteActivationSafe, SignSelfRevocationSafe, RegistryRevokesDeviceSafe,
     ListDeviceRecordsSafe, NoteDeviceRevocationSafe, DeleteRevokedKeySafe,
     DropRevokedRefSafe, NoteStatusSafe
     DEF DeviceStep
<1> QED
  BY <1>1, <1>2, <1>3, <1>4 DEF DeviceNext

LEMMA NextSafe ==
  ASSUME IInv, Next
  PROVE  Safe
  BY IdentityNextSafe, DeviceNextSafe, ClosePageSafe, TickSafe DEF Next

LEMMA InitInv == Init => IInv
<1> SUFFICES ASSUME Init
             PROVE  IInv
  OBVIOUS
<1>1. /\ op = [p \in Pages |-> Idle] /\ bundles = << >> /\ cancelled = {} /\ now = 0
      /\ registered = [d \in Devices |-> "none"]
  BY DEF Init
<1>2. \A p \in Pages : op[p] = Idle /\ op[p] \in Ops /\ OpOK(op[p]) /\ ~Reserving(op[p])
  BY <1>1, IdleOK
<1>3. ReservedOnce /\ op \in [Pages -> Ops]
  BY <1>1, <1>2 DEF ReservedOnce
<1>4. bundles \in [DOMAIN bundles -> Names] /\ DOMAIN bundles = {}
  BY <1>1
<1>5. CASE /\ ids = << >> /\ records = << >> /\ keys = {}
           /\ identities = [n \in 1 .. MaxIds |-> "none"]
  <2>1. DOMAIN ids = {} /\ DOMAIN records = {} /\ Len(ids) = 0
    BY <1>5
  <2>2. ids \in Seq({"root"} \cup Devices) /\ Len(ids) <= MaxIds
    BY <1>5, <2>1, WalletAssumption
  <2>3. records \in [DOMAIN records -> RootRecords \cup DeviceRecords]
    BY <1>5, <2>1
  <2>4. TypeOK
    BY <1>1, <1>3, <1>4, <1>5, <2>1, <2>2, <2>3 DEF TypeOK, Names
  <2>5. StoreOK /\ LeftOK /\ VaultOK
    BY <1>1, <1>5, <2>1 DEF StoreOK, LeftOK, VaultOK, Names
  <2> QED
    BY <1>2, <1>3, <2>4, <2>5 DEF IInv
<1>6. CASE /\ ids = <<"root">>
           /\ records = [n \in {1} |-> RootRecord(1, TRUE)]
           /\ keys = {SigningKey(1), Secret(1)}
           /\ identities = [n \in 1 .. MaxIds |-> IF n = 1 THEN "active" ELSE "none"]
  <2>1. DOMAIN ids = {1} /\ DOMAIN records = {1} /\ Len(ids) = 1 /\ ids[1] = "root"
        /\ records[1] = RootRecord(1, TRUE)
    BY <1>6
  <2>2. 1 \in Names /\ Len(ids) <= MaxIds
    BY <2>1, WalletAssumption DEF Names
  <2>3. ids \in Seq({"root"} \cup Devices)
    BY <1>6
  <2>4. RootRefs(1) \subseteq AllRefs /\ keys = RootRefs(1)
    BY <1>6, <2>2, RefTypes DEF RootRefs
  <2>5. records[1] \in RootRecords /\ records[1].refs = RootRefs(1) /\ records[1].state = "active"
    BY <2>1, <2>4 DEF RootRecord, RootRecords, RootRefs
  <2>6. records \in [DOMAIN records -> RootRecords \cup DeviceRecords]
    BY <1>6, <2>1, <2>5
  <2>7. TypeOK
    BY <1>1, <1>3, <1>4, <1>6, <2>1, <2>2, <2>3, <2>4, <2>6 DEF TypeOK, Names
  <2>8. Placed(1)
    BY <1>2, <2>1 DEF Placed
  <2>9. RootFits(1, records[1])
    BY <2>4, <2>5, RefTypes DEF RootFits, RootRefs
  <2>10. StoreOK
    BY <2>1, <2>8, <2>9 DEF StoreOK, Fits
  <2>11. LeftOK
    BY <1>6, <2>1, <2>2 DEF LeftOK, RootName, Stored, Names
  <2>12. VaultOK
    BY <1>1, <2>1, <2>4, RefNames DEF VaultOK, RefsOf
  <2> QED
    BY <1>2, <1>3, <2>7, <2>10, <2>11, <2>12 DEF IInv
<1> QED
  BY <1>5, <1>6 DEF Init

LEMMA NextInv == IInv /\ [Next]_vars => IInv'
<1>1. ASSUME IInv, Next
      PROVE  IInv'
  BY <1>1, NextSafe DEF Safe
<1>2. ASSUME IInv, UNCHANGED vars
      PROVE  IInv'
  <2>1. UNCHANGED <<now, identities, registered, ids, bundles, records, keys, cancelled, op>>
    BY <1>2 DEF vars, registry, history, database
  <2>2. TypeOK' /\ VaultOK' /\ ReservedOnce'
    BY <1>2, <2>1 DEF IInv, TypeOK, VaultOK, ReservedOnce, DeviceName, RefsOf
  <2>3. \A n : Dead(n)' = Dead(n) /\ Placed(n)' = Placed(n) /\ (\A r : Fits(n, r)' = Fits(n, r))
    BY <2>1 DEF Dead, Live, DeviceState, Placed, Fits, RootFits, DeviceFits
  <2>4. StoreOK' /\ LeftOK'
    BY <1>2, <2>1, <2>3 DEF IInv, StoreOK, LeftOK, RootName, NoKeys, Stored
  <2>5. ASSUME NEW q \in Pages
        PROVE  OpOK(op[q])'
    <3>1. DOMAIN ids = DOMAIN ids'
      BY <2>1
    <3>2. Kept
      <4>1. Later
        BY <1>2, <2>1 DEF Later, IInv, TypeOK
      <4>2. \A n \in DOMAIN records : RecordMoves(n)
        BY <1>2, <2>1, SameMayBecome DEF RecordMoves
      <4> QED
        BY <2>1, <2>2, <2>3, <2>4, <4>1, <4>2 DEF Kept, Moves, KeysMove
    <3>3. PICK w : w = op[q]
      OBVIOUS
    <3>4. w \in Ops /\ OpOK(w) /\ op'[q] = w
      BY <1>2, <2>1, <3>3 DEF IInv, TypeOK
    <3>5. OpOK(w)'
      BY <1>2, <3>2, <3>3, <3>4, OpStays
    <3> QED
      BY <3>4, <3>5
  <2> QED
    BY <2>2, <2>4, <2>5 DEF IInv
<1> QED
  BY <1>1, <1>2

-----------------------------------------------------------------------------
(* The theorems *)

\* Whatever the tabs do and wherever they are closed, what each step of an
\* operation needs of its record still holds when the step is taken.
THEOREM InvHolds == Spec => []IInv
  BY InitInv, NextInv, PTL DEF Spec

LEMMA InvImpliesKeys == IInv => KeysFollowRecords
<1> SUFFICES ASSUME IInv
             PROVE  KeysFollowRecords
  OBVIOUS
<1>1. UsableRecordsHaveTheirKeys
  <2> SUFFICES ASSUME NEW n \in DOMAIN records
               PROVE  IF records[n].kind = "root"
                        THEN records[n].state = "active" =>
                               /\ records[n].refs = {SigningKey(n), Secret(n)}
                               /\ records[n].refs \subseteq keys
                        ELSE records[n].state \in {"pending-activation", "active"}
                               /\ Live(records[n].device) =>
                                  records[n].refs = {DeviceKey(n)} /\ records[n].refs \subseteq keys
    BY DEF UsableRecordsHaveTheirKeys
  <2>1. CASE ids[n] = "root"
    BY <2>1, StoredRecords DEF RootFits, RootRefs
  <2>2. CASE ids[n] # "root"
    BY <2>2, StoredRecords DEF DeviceFits, Dead
  <2> QED
    BY <2>1, <2>2
<1>2. StrayKeysAreDead
  <2> SUFFICES ASSUME NEW ref \in keys, NEW n, n = ref[1],
                      ~(Stored(n) /\ ref \in records[n].refs)
               PROVE  IF ids[n] = "root" THEN identities[n] = "none" ELSE ~Live(ids[n])
    BY DEF StrayKeysAreDead
  <2>1. n \in DOMAIN ids /\ ref \in RefsOf(n) /\ n \in Names
    BY NamesAreNumbers DEF IInv, VaultOK
  <2>2. CASE ids[n] = "root"
    <3>1. ref \in RootRefs(n) /\ ~NoKeys(n)
      BY <2>1, <2>2 DEF RefsOf, NoKeys
    <3>2. Stored(n) => RootFits(n, records[n]) /\ records[n].refs = {}
      BY <2>2, <3>1, StoredRecords DEF Stored, RootFits
    <3>3. Stored(n) => identities[n] = "revoked"
      BY <3>1, <3>2 DEF RootFits, RootRecords
    <3>4. identities[n] \in {"none", "active", "revoked"}
      BY <2>1 DEF IInv, TypeOK
    <3> QED
      BY <2>1, <2>2, <3>1, <3>2, <3>3, <3>4 DEF IInv, LeftOK
  <2>3. CASE ids[n] # "root"
    <3>1. ref = DeviceKey(n)
      BY <2>1, <2>3 DEF RefsOf
    <3>2. Stored(n) => Dead(n)
      BY <2>3, <3>1, StoredRecords DEF Stored, DeviceFits
    <3> QED
      BY <2>1, <2>3, <3>1, <3>2 DEF IInv, LeftOK, Dead
  <2> QED
    BY <2>2, <2>3
<1> QED
  BY <1>1, <1>2 DEF KeysFollowRecords

\* A record that can still be used has its keys, and a key without a record
\* can speak for nobody: no clean-up, disposal, removal or recovery of one tab
\* takes or leaves the key that another tab still needs.
THEOREM KeysAreWhereTheyBelong == Spec => []KeysFollowRecords
  BY InvHolds, InvImpliesKeys, PTL

\* No record says revoked before the registry does, whichever answers are lost.
THEOREM RevocationsAreConfirmed == Spec => []LocalRevocationIsConfirmed
<1>1. IInv => LocalRevocationIsConfirmed
  <2> SUFFICES ASSUME IInv, NEW n \in DOMAIN records, records[n].state = "revoked"
               PROVE  IF records[n].kind = "root" THEN identities[n] = "revoked"
                      ELSE registered[records[n].device] = "revoked"
    BY DEF LocalRevocationIsConfirmed
  <2>1. CASE ids[n] = "root"
    BY <2>1, StoredRecords DEF RootFits
  <2>2. CASE ids[n] # "root"
    BY <2>2, StoredRecords DEF DeviceFits
  <2> QED
    BY <2>1, <2>2
<1> QED
  BY <1>1, InvHolds, PTL

\* In whatever order the tabs note their results, a finished import is not
\* undone, a revoked record is not used again, and no usable record goes.
THEOREM RecordsOnlyMoveForward == Spec => RecordsMoveForward
<1> DEFINE Forward ==
      \A n \in DOMAIN records :
        MayBecome(n, IF n \in DOMAIN records' THEN records'[n].state ELSE "gone")
<1>1. ASSUME IInv, Next
      PROVE  Forward
  <2> SUFFICES ASSUME NEW n \in DOMAIN records
               PROVE  MayBecome(n, IF n \in DOMAIN records' THEN records'[n].state ELSE "gone")
    OBVIOUS
  <2>1. RecordMoves(n)
    BY <1>1, NextSafe DEF Safe, Moves
  <2>2. CASE n \in DOMAIN records'
    BY <2>1, <2>2 DEF RecordMoves
  <2>3. CASE n \notin DOMAIN records'
    <3>1. MayGo(n)
      BY <2>1, <2>3 DEF RecordMoves
    <3>2. CASE ids[n] = "root"
      BY <2>3, <3>1, <3>2 DEF MayGo, MayBecome
    <3>3. CASE ids[n] # "root"
      <4>1. /\ records[n].kind = "device" /\ records[n].device = ids[n]
            /\ records[n].state \in {"pending-import", "import-cleanup-pending",
                                     "pending-activation", "active", "revoked"}
        BY <1>1, <3>3, StoredRecords DEF DeviceFits, DeviceRecords
      <4> QED
        BY <2>3, <3>1, <3>3, <4>1 DEF MayGo, MayBecome, Dead
    <3> QED
      BY <3>2, <3>3
  <2> QED
    BY <2>2, <2>3
<1>2. IInv /\ [Next]_vars => [Forward]_vars
  BY <1>1
<1> QED
  BY <1>2, InvHolds, PTL DEF Spec, RecordsMoveForward
=============================================================================
