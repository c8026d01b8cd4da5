--------------------------- MODULE WalletDevices ---------------------------
(***************************************************************************)
(* Device identities in the wallet: a root issues a transfer, a wallet     *)
(* imports the key, the device is activated, used, revoked and removed.    *)
(*                                                                         *)
(* An import reserves its record first and stores the key second, so that  *)
(* a listing of the identities, in any tab, can finish or undo the import  *)
(* of a tab that was closed. A reference is cancelled before its record    *)
(* goes: a late importer cannot store a key under it any more.             *)
(*                                                                         *)
(* Imports begin from any transfer that was given out. The nickname, the   *)
(* catalogue's limit and its copies of the registry's state are left out.  *)
(***************************************************************************)
EXTENDS WalletStore

-----------------------------------------------------------------------------
(* issueDeviceTransfer *)

Issue(p, n, d) ==
  /\ Free(p)
  /\ ActiveRegisteredRoot(n) /\ SigningKey(n) \in keys
  /\ d \notin DOMAIN bundles
  /\ Start(p, [step |-> "issue", n |-> n, device |-> d])
  /\ NoFault
  /\ UNCHANGED <<now, registry, history, database>>

\* appendIssuedDevice reads the record again; only then is the transfer out.
AppendIssuedDevice(p) ==
  LET n == op[p].n
      d == op[p].device IN
  /\ At(p, "issue")
  /\ \/ /\ Stored(n) /\ records[n].state = "active" /\ d \notin DOMAIN bundles
        /\ records' = [records EXCEPT ![n].catalogue = @ \cup {d}]
        /\ bundles' = [e \in DOMAIN bundles \cup {d} |-> IF e = d THEN n ELSE bundles[e]]
     \/ /\ ~(Stored(n) /\ records[n].state = "active" /\ d \notin DOMAIN bundles)
        /\ UNCHANGED <<records, bundles>>
  /\ End(p)
  /\ NoFault
  /\ UNCHANGED <<now, registry, ids, keys, cancelled>>

-----------------------------------------------------------------------------
(* importDeviceTransfer *)

Import(p, d) ==
  /\ Free(p)
  /\ d \in DOMAIN bundles
  /\ now <= ActivationDeadline /\ now < ExpiresAt
  /\ \E n \in 1 .. MaxIds :
       /\ Begin(n, d)
       /\ Start(p, [step |-> "import-reserve", n |-> n, at |-> now])
  /\ NoFault
  /\ UNCHANGED <<now, registry, bundles, database>>

ReserveDeviceRecord(p) ==
  LET n == op[p].n
      d == ids[n] IN
  /\ At(p, "import-reserve")
  /\ IF \E m \in DOMAIN records : records[m].kind = "device" /\ records[m].device = d
       THEN End(p) /\ UNCHANGED records
       ELSE /\ records' = With(n, Reservation(n, d, op[p].at))
            /\ Go(p, "import-key")
  /\ NoFault
  /\ UNCHANGED <<now, registry, history, keys, cancelled>>

\* (mutant) A key can be stored under a cancelled reference.
Insertable(ref) == ref \notin keys

CanInsert(ref) == ref \notin keys \cup cancelled

ImportKeyAtRef(p) ==
  LET ref == DeviceKey(op[p].n) IN
  /\ At(p, "import-key")
  /\ \/ /\ CanInsert(ref)
        /\ keys' = keys \cup {ref}
        /\ Go(p, "import-finalize")
        /\ NoFault
     \/ /\ UNCHANGED keys
        /\ Go(p, "import-claim")
        /\ IF CanInsert(ref) THEN Fault ELSE NoFault
  /\ UNCHANGED <<now, registry, history, records, cancelled>>

\* A recovery may have finished the import before its own tab does.
Finalizable(n) ==
  /\ Stored(n)
  /\ records[n].state \in {"pending-import", "pending-activation"}
  /\ DeviceKey(n) \in records[n].refs

Finish(n) ==
  records' = [records EXCEPT ![n].state = "pending-activation", ![n].importStartedAt = NULL]

FinalizeImport(p) ==
  LET n == op[p].n IN
  /\ At(p, "import-finalize")
  /\ \/ /\ Finalizable(n)
        /\ Finish(n)
        /\ End(p)
        /\ NoFault
     \/ /\ Go(p, "import-claim")
        /\ IF Finalizable(n) THEN Fault ELSE NoFault
        /\ UNCHANGED records
  /\ UNCHANGED <<now, registry, history, keys, cancelled>>

Claimable(n, refs) ==
  Stored(n) /\ records[n].state = "pending-import" /\ records[n].refs = refs

Claim(n) ==
  records' = [records EXCEPT ![n].state = "import-cleanup-pending", ![n].importStartedAt = 0]

\* Who cleans up: the importer whose record is gone, or that can claim it.
ClaimCleanup(p) ==
  LET n == op[p].n
      mine == {DeviceKey(n)} IN
  /\ At(p, "import-claim")
  /\ IF Claimable(n, mine) THEN Claim(n) ELSE UNCHANGED records
  /\ IF \/ ~Stored(n)
        \/ Claimable(n, mine)
        \/ records[n].state = "import-cleanup-pending" /\ records[n].refs = mine
       THEN Start(p, [step |-> "cancel", n |-> n, refs |-> mine, todo |-> {}])
       ELSE End(p)
  /\ NoFault
  /\ UNCHANGED <<now, registry, history, keys, cancelled>>

\* (mutant) The key is deleted and its reference stays usable.
DeleteRef(p) ==
  /\ At(p, "cancel")
  /\ keys' = keys \ op[p].refs
  /\ Go(p, "drop")
  /\ NoFault
  /\ UNCHANGED <<now, registry, history, records, cancelled>>

CancelKeyRef(p) ==
  /\ At(p, "cancel")
  /\ keys' = keys \ op[p].refs
  /\ cancelled' = cancelled \cup op[p].refs
  /\ Go(p, "drop")
  /\ NoFault
  /\ UNCHANGED <<now, registry, history, records>>

\* A listing goes on with the next record of its snapshot.
Proceed(p, todo) ==
  IF todo = {} THEN End(p) ELSE Start(p, [step |-> "recover", todo |-> todo])

DropRecord(p) ==
  /\ At(p, "drop")
  /\ records' = Without(op[p].n)
  /\ Proceed(p, op[p].todo)
  /\ NoFault
  /\ UNCHANGED <<now, registry, history, keys, cancelled>>
-----------------------------------------------------------------------------
(* #recoverPendingDeviceImports: what every listing of the identities does *)

\* (mutant) A claimed record is left to the tab that claimed it.
UnfinishedUnclaimed ==
  {[n |-> n, state |-> records[n].state, refs |-> records[n].refs]
    : n \in {m \in DOMAIN records :
              /\ records[m].kind = "device" /\ records[m].state = "pending-import"
              /\ now >= records[m].importStartedAt + Lease}}

\* The records a listing has to see to, as it finds them.
Unfinished ==
  {[n |-> n, state |-> records[n].state, refs |-> records[n].refs]
    : n \in {m \in DOMAIN records :
              /\ records[m].kind = "device" /\ records[m].state \in Incomplete
              /\ records[m].state = "pending-import" => now >= records[m].importStartedAt + Lease}}

Recover(p) ==
  /\ Free(p)
  /\ Unfinished # {}
  /\ Start(p, [step |-> "recover", todo |-> Unfinished])
  /\ NoFault
  /\ UNCHANGED <<now, registry, history, database>>

\* The next record: whether the vault holds its key is read before the record
\* is read again.
RecoverNext(p) ==
  /\ At(p, "recover")
  /\ \E r \in op[p].todo :
       Start(p, [step |-> IF r.state = "import-cleanup-pending" THEN "cancel"
                          ELSE IF r.refs # {} /\ r.refs \subseteq keys THEN "recover-promote"
                          ELSE "recover-claim",
                 n |-> r.n, refs |-> r.refs, todo |-> op[p].todo \ {r}])
  /\ NoFault
  /\ UNCHANGED <<now, registry, history, database>>

\* A record that is gone ends the listing with an error.
RecoverPromote(p) ==
  LET r == op[p] IN
  /\ At(p, "recover-promote")
  /\ IF Claimable(r.n, r.refs) THEN Finish(r.n) ELSE UNCHANGED records
  /\ IF Stored(r.n) THEN Proceed(p, r.todo) ELSE End(p)
  /\ NoFault
  /\ UNCHANGED <<now, registry, history, keys, cancelled>>

\* Only the claim decides: the importer may have finished since the look.
RecoverClaim(p) ==
  LET r == op[p] IN
  /\ At(p, "recover-claim")
  /\ IF Claimable(r.n, r.refs) THEN Claim(r.n) ELSE UNCHANGED records
  /\ IF ~Stored(r.n) THEN End(p)
     ELSE IF records'[r.n].state = "import-cleanup-pending" /\ records'[r.n].refs = r.refs
       THEN Go(p, "cancel")
       ELSE Proceed(p, r.todo)
  /\ NoFault
  /\ UNCHANGED <<now, registry, history, keys, cancelled>>

-----------------------------------------------------------------------------
(* activateDevice *)

Activate(p, n) ==
  /\ Free(p)
  /\ SigningDevice(n) /\ records[n].state # "revoked"
  /\ now < ActivationDeadline
  /\ Start(p, [step |-> "activate-sign", n |-> n, device |-> records[n].device])
  /\ NoFault
  /\ UNCHANGED <<now, registry, history, database>>

SignActivation(p) ==
  /\ At(p, "activate-sign")
  /\ IF DeviceKey(op[p].n) \in keys THEN Go(p, "activate-send") ELSE End(p)
  /\ NoFault
  /\ UNCHANGED <<now, registry, history, database>>

\* What the registry accepts, once or again.
Activatable(d) ==
  /\ DeviceState(d) \in {"none", "active"}
  /\ registered[d] = "active" \/ now <= ActivationDeadline

RegistryActivates(p) ==
  LET d == op[p].device IN
  /\ At(p, "activate-send")
  /\ IF Activatable(d)
       THEN /\ registered' = [registered EXCEPT ![d] = "active"]
            /\ \/ NoFault /\ Go(p, "activate-note")
               \/ Fault /\ End(p)
       ELSE End(p) /\ NoFault /\ UNCHANGED registered
  /\ UNCHANGED <<now, identities, history, database>>

\* (mutant) The note does not look at what became of the record.
ActivationNoted(record) == [record EXCEPT !.state = "active"]

\* A record revoked in the meantime stays revoked.
Noted(record) ==
  IF record.state = "revoked" THEN record ELSE [record EXCEPT !.state = "active"]

NoteActivation(p) ==
  LET n == op[p].n IN
  /\ At(p, "activate-note")
  /\ records' = IF Stored(n) THEN [records EXCEPT ![n] = Noted(@)] ELSE records
  /\ End(p)
  /\ NoFault
  /\ UNCHANGED <<now, registry, history, keys, cancelled>>

-----------------------------------------------------------------------------
(* revokeDeviceSelf and revokeDeviceRoot *)

\* A repeated revocation only cleans up what the first left behind.
RevokeSelf(p, n) ==
  /\ Free(p)
  /\ SigningDevice(n)
  /\ Start(p, [step |-> IF records[n].state = "revoked" THEN "revoked-key" ELSE "self-sign",
               n |-> n, device |-> records[n].device, refs |-> records[n].refs])
  /\ NoFault
  /\ UNCHANGED <<now, registry, history, database>>

SignSelfRevocation(p) ==
  /\ At(p, "self-sign")
  /\ IF DeviceKey(op[p].n) \in keys THEN Go(p, "self-send") ELSE End(p)
  /\ NoFault
  /\ UNCHANGED <<now, registry, history, database>>

\* The key of a root goes only after its revocation: the request is signed in
\* the step that finds the record.
RevokeRoot(p, n, d) ==
  /\ Free(p)
  /\ ActiveRegisteredRoot(n) /\ SigningKey(n) \in keys
  /\ d \in records[n].catalogue
  /\ Start(p, [step |-> "root-send", n |-> n, device |-> d, refs |-> {}])
  /\ NoFault
  /\ UNCHANGED <<now, registry, history, database>>

\* The registry converges on the first revocation, by whom it ever was; with
\* the identity itself revoked, it accepts nothing more for its devices.
RegistryRevokesDevice(p) ==
  LET d == op[p].device IN
  /\ op[p].step \in {"self-send", "root-send"}
  /\ IF identities[bundles[d]] = "active"
       THEN /\ registered' = [registered EXCEPT ![d] = "revoked"]
            /\ \/ /\ NoFault
                  /\ Go(p, IF At(p, "self-send") THEN "revoked-note" ELSE "root-list")
               \/ Fault /\ End(p)
       ELSE End(p) /\ NoFault /\ UNCHANGED registered
  /\ UNCHANGED <<now, identities, history, database>>

\* The record of the device in this wallet, in whatever state: its reservation
\* made sure there is only one.
ListDeviceRecords(p) ==
  LET r == op[p]
      theirs == {m \in DOMAIN records : records[m].kind = "device" /\ records[m].device = r.device} IN
  /\ At(p, "root-list")
  /\ IF Stored(r.n) /\ theirs # {}
       THEN \E m \in theirs : Start(p, [r EXCEPT !.step = "revoked-note", !.n = m])
       ELSE End(p)
  /\ NoFault
  /\ UNCHANGED <<now, registry, history, database>>

NoteDeviceRevocation(p) ==
  LET n == op[p].n IN
  /\ At(p, "revoked-note")
  /\ \/ ~Stored(n) /\ End(p) /\ UNCHANGED records
     \/ /\ Stored(n)
        /\ records' = [records EXCEPT ![n].state = "revoked"]
        /\ IF records[n].refs = {} THEN End(p)
           ELSE Start(p, [op[p] EXCEPT !.step = "revoked-key", !.refs = records[n].refs])
  /\ NoFault
  /\ UNCHANGED <<now, registry, history, keys, cancelled>>

DeleteRevokedKey(p) ==
  /\ At(p, "revoked-key")
  /\ keys' = keys \ op[p].refs
  /\ Go(p, "revoked-refs")
  /\ NoFault
  /\ UNCHANGED <<now, registry, history, records, cancelled>>

DropRevokedRef(p) ==
  LET n == op[p].n IN
  /\ At(p, "revoked-refs")
  /\ records' = IF Stored(n) THEN [records EXCEPT ![n].refs = {}] ELSE records
  /\ End(p)
  /\ NoFault
  /\ UNCHANGED <<now, registry, history, keys, cancelled>>

-----------------------------------------------------------------------------
(* refreshDeviceStatus: the state at the time of the answer is noted later *)

Refresh(p, n) ==
  /\ Free(p)
  /\ Stored(n) /\ records[n].kind = "device"
  /\ Start(p, [step |-> "refresh", n |-> n, told |-> DeviceState(records[n].device)])
  /\ NoFault
  /\ UNCHANGED <<now, registry, history, database>>

NoteStatus(p) ==
  LET n == op[p].n IN
  /\ At(p, "refresh")
  /\ records' = IF Stored(n) THEN [records EXCEPT ![n].told = op[p].told] ELSE records
  /\ End(p)
  /\ NoFault
  /\ UNCHANGED <<now, registry, history, keys, cancelled>>

DeviceStep(p) ==
  \/ AppendIssuedDevice(p)
  \/ ReserveDeviceRecord(p) \/ ImportKeyAtRef(p) \/ FinalizeImport(p) \/ ClaimCleanup(p)
  \/ CancelKeyRef(p) \/ DropRecord(p)
  \/ RecoverNext(p) \/ RecoverPromote(p) \/ RecoverClaim(p)
  \/ SignActivation(p) \/ RegistryActivates(p) \/ NoteActivation(p)
  \/ SignSelfRevocation(p) \/ RegistryRevokesDevice(p) \/ ListDeviceRecords(p)
  \/ NoteDeviceRevocation(p) \/ DeleteRevokedKey(p) \/ DropRevokedRef(p)
  \/ NoteStatus(p)

DeviceNext(p) ==
  \/ Recover(p)
  \/ \E d \in Devices :
       \/ Import(p, d)
       \/ \E n \in DOMAIN records : Issue(p, n, d) \/ RevokeRoot(p, n, d)
  \/ \E n \in DOMAIN records : Activate(p, n) \/ RevokeSelf(p, n) \/ Refresh(p, n)
  \/ DeviceStep(p)
=============================================================================
