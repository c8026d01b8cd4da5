----------------------------- MODULE WalletCore -----------------------------
(***************************************************************************)
(* The wallet: the operations on root identities and on devices, in        *)
(* several tabs over one store, one vault and one registry.                *)
(***************************************************************************)
EXTENDS WalletIdentity, WalletDevices

Next ==
  \/ Tick
  \/ \E p \in Pages : IdentityNext(p) \/ DeviceNext(p) \/ ClosePage(p)

\* A tab that is open finishes what it does, time passes, and every now and
\* then the wallet lists its identities.
Fairness ==
  /\ WF_vars(Tick)
  /\ \A p \in Pages : WF_vars(IdentityStep(p) \/ DeviceStep(p))
  /\ SF_vars(\E p \in Pages : Recover(p))

Spec == Init /\ [][Next]_vars /\ Fairness

-----------------------------------------------------------------------------
(* Correctness *)

\* A device key can still speak: neither it nor its identity is revoked, and
\* its authorization has not expired.
Live(d) == DeviceState(d) \in {"none", "active"}

\* An identity or a device that can still sign has its keys: no clean-up of a
\* failed creation or import, and no disposal or removal that did not come to
\* its end, takes the keys of a record the user can still use.
UsableRecordsHaveTheirKeys ==
  \A n \in DOMAIN records :
    LET r == records[n] IN
    IF r.kind = "root"
      THEN r.state = "active" => r.refs = {SigningKey(n), Secret(n)} /\ r.refs \subseteq keys
      ELSE r.state \in {"pending-activation", "active"} /\ Live(r.device)
             => r.refs = {DeviceKey(n)} /\ r.refs \subseteq keys

\* A key that no record leads to any more cannot speak for anybody: its
\* identity was never registered, or its device is revoked or expired.
StrayKeysAreDead ==
  \A ref \in keys :
    LET n == ref[1] IN
    \/ Stored(n) /\ ref \in records[n].refs
    \/ IF ids[n] = "root" THEN identities[n] = "none" ELSE ~Live(ids[n])

\* What becomes of keys follows what becomes of their records, step by step.
KeysFollowRecords == UsableRecordsHaveTheirKeys /\ StrayKeysAreDead

\* A record says revoked only when the registry does.
LocalRevocationIsConfirmed ==
  \A n \in DOMAIN records :
    records[n].state = "revoked" =>
      IF records[n].kind = "root" THEN identities[n] = "revoked"
                                  ELSE registered[records[n].device] = "revoked"

\* What may become of a record. A finished import is not undone, a revoked
\* record does not become usable, and no usable record is deleted.
MayBecome(n, state) ==
  LET r == records[n] IN
  CASE r.state = "pending-import"         -> TRUE
    [] r.state = "import-cleanup-pending" -> state \in {r.state, "revoked", "gone"}
    [] r.state = "pending-activation"     ->
         state \in {r.state, "active", "revoked"} \/ (state = "gone" /\ ~Live(r.device))
    [] r.state = "active"                 ->
         state \in {r.state, "revoked"}
           \/ (state = "gone" /\ r.kind = "device" /\ ~Live(r.device))
    [] r.state = "revoked"                -> state \in {r.state, "gone"}

\* Two tabs, a recovery and an importer, an activation and a revocation: in
\* whatever order they note their results, records only move forward.
RecordsMoveForward ==
  [][\A n \in DOMAIN records :
       MayBecome(n, IF n \in DOMAIN records' THEN records'[n].state ELSE "gone")]_vars

\* Whatever tab was closed at whatever step: an import that was begun is
\* finished, undone or revoked in the end.
ImportsAreResolved ==
  \A n \in 1 .. MaxIds :
    (Stored(n) /\ records[n].state \in Incomplete) ~> ~(Stored(n) /\ records[n].state \in Incomplete)
=============================================================================
