--------------------------- MODULE WalletIdentity ---------------------------
(***************************************************************************)
(* Root identities in the wallet: creation, registration, revocation,      *)
(* disposal, removal and rotation.                                         *)
(*                                                                         *)
(* Labels, scopes, the authorization history, agreement keys and           *)
(* continuity links decide nothing here and are left out.                  *)
(***************************************************************************)
EXTENDS WalletStore

-----------------------------------------------------------------------------
(* createIdentity, alone or for a rotation of the identity old *)

CreateSigningKey(p) ==
  /\ Free(p)
  /\ \E old \in {NULL} \cup {n \in DOMAIN records : ActiveRegisteredRoot(n)} :
       LET n == Len(ids) + 1 IN
       /\ Begin(n, "root")
       /\ keys' = keys \cup {SigningKey(n)}
       /\ Start(p, [step |-> "create-secret", n |-> n, creating |-> TRUE, old |-> old])
  /\ NoFault
  /\ UNCHANGED <<now, registry, bundles, records, cancelled>>

StoreRevocationSecret(p) ==
  /\ At(p, "create-secret")
  /\ \/ /\ NoFault
        /\ keys' = keys \cup {Secret(op[p].n)}
        /\ Go(p, "create-put")
     \/ /\ Fault
        /\ Go(p, "create-cleanup")
        /\ UNCHANGED keys
  /\ UNCHANGED <<now, registry, history, records, cancelled>>

PutRecord(p) ==
  /\ At(p, "create-put")
  /\ \/ /\ NoFault
        /\ records' = With(op[p].n, RootRecord(op[p].n, FALSE))
        /\ Go(p, "register")
     \/ /\ Fault
        /\ Go(p, "create-cleanup")
        /\ UNCHANGED records
  /\ UNCHANGED <<now, registry, history, keys, cancelled>>

\* When the records cannot be listed, the new one is assumed to be there.
RecordExists(n, listed) == ~listed \/ (Stored(n) /\ SigningKey(n) \in records[n].refs)

\* The failed creation deletes what it stored, unless the record is there. A
\* deletion that fails is not reported.
CleanUpCreation(p) ==
  LET n == op[p].n
      made == {SigningKey(n), Secret(n)} IN
  /\ At(p, "create-cleanup")
  /\ \E listed \in BOOLEAN, kept \in SUBSET made :
       /\ keys' = IF RecordExists(n, listed) THEN keys ELSE keys \ (made \ kept)
       /\ IF listed /\ kept = {} THEN NoFault ELSE Fault
  /\ End(p)
  /\ UNCHANGED <<now, registry, history, records, cancelled>>

-----------------------------------------------------------------------------
(* registerIdentity, by itself or as the end of a creation *)

Register(p, n) ==
  /\ Free(p)
  /\ Stored(n) /\ records[n].kind = "root" /\ records[n].state = "active"
  /\ ~records[n].receipt
  /\ Start(p, [step |-> "register", n |-> n, creating |-> FALSE, old |-> NULL])
  /\ NoFault
  /\ UNCHANGED <<now, registry, history, database>>

RegistrationFails(p) == IF op[p].creating THEN Go(p, "create-cleanup") ELSE End(p)

\* The registry answers; a receipt that does not say "registered" is refused.
RegistryRegisters(p) ==
  /\ At(p, "register")
  /\ AcceptRegistration(op[p].n)
  /\ \/ /\ NoFault
        /\ IF identities[op[p].n] = "revoked" THEN RegistrationFails(p)
                                              ELSE Go(p, "register-note")
     \/ /\ Fault
        /\ RegistrationFails(p)
  /\ UNCHANGED <<now, registered, history, database>>

\* A rotation goes on to revoke the old identity.
NoteRegistration(p) ==
  LET n == op[p].n
      old == op[p].old IN
  /\ At(p, "register-note")
  /\ \/ /\ ~Stored(n)
        /\ RegistrationFails(p)
        /\ UNCHANGED records
     \/ /\ Stored(n)
        /\ records' = [records EXCEPT ![n].receipt = TRUE]
        /\ IF old # NULL /\ Stored(old)
             THEN Start(p, [step |-> "revoke-status", n |-> old, seen |-> records[old],
                            method |-> "signature", purpose |-> "revoke"])
             ELSE End(p)
  /\ NoFault
  /\ UNCHANGED <<now, registry, history, keys, cancelled>>

-----------------------------------------------------------------------------
(* revoke and dispose: the terminal state is reached first *)

Revoke(p, n) ==
  /\ Free(p)
  /\ Stored(n) /\ records[n].kind = "root"
  /\ \E method \in {"signature", "secret"}, purpose \in {"revoke", "dispose", "forget"} :
       Start(p, [step |-> "revoke-status", n |-> n, seen |-> records[n],
                 method |-> method, purpose |-> purpose])
  /\ NoFault
  /\ UNCHANGED <<now, registry, history, database>>

\* A revoked identity needs no new request when its receipt is stored. One
\* whose answer was lost sends its request again.
AskIdentityStatus(p) ==
  LET r == op[p] IN
  /\ At(p, "revoke-status")
  /\ CASE identities[r.n] = "none"                                   -> End(p)
       [] identities[r.n] = "revoked" /\ r.seen.state = "revoked" -> Go(p, "revoke-note")
       [] OTHER                                                      -> Go(p, "revoke-sign")
  /\ NoFault
  /\ UNCHANGED <<now, registry, history, database>>

SignRevocation(p) ==
  LET r == op[p]
      ref == IF r.method = "secret" THEN Secret(r.n) ELSE SigningKey(r.n) IN
  /\ At(p, "revoke-sign")
  /\ IF ref \in r.seen.refs \cap keys THEN Go(p, "revoke-send") ELSE End(p)
  /\ NoFault
  /\ UNCHANGED <<now, registry, history, database>>

\* (mutant) An answer that does not come is taken for an acceptance.
RegistryRevokesOrNot(p) ==
  /\ At(p, "revoke-send")
  /\ \/ NoFault /\ AcceptRevocation(op[p].n) /\ Go(p, "revoke-note")
     \/ Fault /\ UNCHANGED identities /\ Go(p, "revoke-note")
  /\ UNCHANGED <<now, registered, history, database>>

RegistryRevokes(p) ==
  /\ At(p, "revoke-send")
  /\ AcceptRevocation(op[p].n)
  /\ \/ NoFault /\ Go(p, "revoke-note")
     \/ Fault /\ End(p)
  /\ UNCHANGED <<now, registered, history, database>>

NoteRevocation(p) ==
  LET r == op[p] IN
  /\ At(p, "revoke-note")
  /\ \/ /\ ~Stored(r.n)
        /\ End(p)
        /\ UNCHANGED records
     \/ /\ Stored(r.n)
        /\ records' = [records EXCEPT ![r.n].state = "revoked"]
        /\ IF r.purpose = "revoke" THEN End(p) ELSE Go(p, "dispose-keys")
  /\ NoFault
  /\ UNCHANGED <<now, registry, history, keys, cancelled>>

\* The deletions are tried together; one that fails keeps the references.
DisposeKeys(p) ==
  /\ At(p, "dispose-keys")
  /\ \E kept \in SUBSET op[p].seen.refs :
       /\ keys' = keys \ (op[p].seen.refs \ kept)
       /\ IF kept = {} THEN Go(p, "dispose-record") /\ NoFault ELSE End(p) /\ Fault
  /\ UNCHANGED <<now, registry, history, records, cancelled>>

DisposeRecord(p) ==
  LET r == op[p] IN
  /\ At(p, "dispose-record")
  /\ records' = IF r.purpose = "forget" THEN Without(r.n)
                ELSE IF Stored(r.n) THEN [records EXCEPT ![r.n].refs = {}]
                ELSE records
  /\ End(p)
  /\ NoFault
  /\ UNCHANGED <<now, registry, history, keys, cancelled>>

-----------------------------------------------------------------------------
(* removeLocalIdentity, of roots and of devices *)

Removable(record) ==
  \/ record.state = "revoked"
  \/ record.kind = "device" /\ (record.told \in {"revoked", "expired"} \/ now >= ExpiresAt)

Remove(p, n) ==
  /\ Free(p)
  /\ Stored(n) /\ Removable(records[n])
  /\ Start(p, [step |-> "remove-keys", n |-> n, refs |-> records[n].refs])
  /\ NoFault
  /\ UNCHANGED <<now, registry, history, database>>

RemoveKeys(p) ==
  /\ At(p, "remove-keys")
  /\ \E kept \in SUBSET op[p].refs :
       /\ keys' = keys \ (op[p].refs \ kept)
       /\ IF kept = {} THEN Go(p, "remove-refs") /\ NoFault ELSE End(p) /\ Fault
  /\ UNCHANGED <<now, registry, history, records, cancelled>>

RemoveRefs(p) ==
  LET n == op[p].n IN
  /\ At(p, "remove-refs")
  /\ \/ ~Stored(n) /\ End(p) /\ UNCHANGED records
     \/ /\ Stored(n)
        /\ records' = [records EXCEPT ![n].refs = {}]
        /\ Go(p, "remove-record")
  /\ NoFault
  /\ UNCHANGED <<now, registry, history, keys, cancelled>>

RemoveRecord(p) ==
  /\ At(p, "remove-record")
  /\ records' = Without(op[p].n)
  /\ End(p)
  /\ NoFault
  /\ UNCHANGED <<now, registry, history, keys, cancelled>>

IdentityStep(p) ==
  \/ StoreRevocationSecret(p) \/ PutRecord(p) \/ CleanUpCreation(p)
  \/ RegistryRegisters(p) \/ NoteRegistration(p)
  \/ AskIdentityStatus(p) \/ SignRevocation(p) \/ RegistryRevokes(p) \/ NoteRevocation(p)
  \/ DisposeKeys(p) \/ DisposeRecord(p)
  \/ RemoveKeys(p) \/ RemoveRefs(p) \/ RemoveRecord(p)

IdentityNext(p) ==
  \/ CreateSigningKey(p)
  \/ \E n \in DOMAIN records : Register(p, n) \/ Revoke(p, n) \/ Remove(p, n)
  \/ IdentityStep(p)
=============================================================================
