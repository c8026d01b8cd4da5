----------------------------- MODULE MCEdgeApi -----------------------------
(***************************************************************************)
(* Small instances of EdgeApi: one or two devices, two authorizations, and *)
(* two clients that share the signed operations and may repeat them. A     *)
(* behaviour of MCSpec has one of five scenarios. In two of them clients   *)
(* are just clients: in "receipts" two devices of one ledger are activated *)
(* and revoked, in "statements" status is asked of one device while time   *)
(* passes. In the others they are pages of the wallet, which judge what    *)
(* they get while keys are rotated: answers about the identity, receipts   *)
(* of one device, and its status while time passes.                        *)
(***************************************************************************)
EXTENDS RegistryClient, Functions, TLC

VARIABLE scenario

CONSTANTS c1, c2, d1, d2, a1, a2, g1, o1, o2, o3, o4, o5

MCCallers == {c1, c2}
MCGeneses == {g1}
MCDevices == {d1, d2}
MCAuths == {a1, a2}
MCOperationIds == {o1, o2, o3, o4, o5}
MCValidFrom == [a \in MCAuths |-> 0]
MCDeadline == [a \in MCAuths |-> 2]
MCExpiresAt == [a \in MCAuths |-> 2]
MCIssuedAuth == (d1 :> a1) @@ (d2 :> a2)

Operation(type, o, d, a) ==
  [type |-> type, operationId |-> o, device |-> d, auth |-> a,
   iat |-> 0, exp |-> 1, genuine |-> TRUE]

Register == [type |-> "register", genesis |-> g1]
Revoke == [type |-> "revokeBySecret", expectedSequence |-> 0, issuedAt |-> 0, genuine |-> TRUE]

\* The receipts: a device's activation and both ways to revoke it, and the
\* activation of a second device on the same ledger.
MCReceiptRequests ==
  {Register, Operation("activate", o1, d1, a1), Operation("revokeSelf", o2, d1, a2),
   Operation("revokeRoot", o3, d1, NULL), Operation("activate", o4, d2, a2)}

\* The statements: the device, its identity, and what may end either.
MCStatusRequests ==
  {Register, Revoke, Operation("activate", o1, d1, a1),
   [type |-> "deviceStatus", device |-> d1, auth |-> a1]}

MCWalletIdentityRequests == {Register, Revoke, [type |-> "status"]}

MCWalletDeviceRequests ==
  {Register, Operation("activate", o1, d1, a1), Operation("revokeSelf", o5, d1, a1),
   Operation("revokeRoot", o3, d1, NULL)}

MCWalletStatusRequests ==
  {Register, Operation("activate", o1, d1, a1),
   [type |-> "deviceStatus", device |-> d1, auth |-> a1]}

RequestsOf ==
  [receipts |-> MCReceiptRequests, statements |-> MCStatusRequests,
   walletIdentity |-> MCWalletIdentityRequests, walletDevices |-> MCWalletDeviceRequests,
   walletStatus |-> MCWalletStatusRequests]

MCRequests == UNION Range(RequestsOf)

LastTime == [receipts |-> 0, statements |-> 2,
             walletIdentity |-> 0, walletDevices |-> 0, walletStatus |-> 2]

\* The key that each scenario may rotate.
Rotates == [receipts |-> {}, statements |-> {}, walletIdentity |-> Purposes,
            walletDevices |-> {"receipt"}, walletStatus |-> {"status"}]

\* One rotation; failures and reloads are left to the short scenarios.
FewMishaps ==
  /\ kids'["receipt"] + kids'["status"] <= 1
  /\ \A purpose \in Purposes \ Rotates[scenario] : kids'[purpose] = kids[purpose]
  /\ scenario \notin {"receipts", "walletIdentity"} =>
       \A c \in Callers : response'[c].code \notin {"RATE_LIMITED", "SERVICE_UNAVAILABLE"}
  /\ scenario \in {"walletDevices", "walletStatus"} =>
       \A c \in Callers :
         /\ verdict'[c] # "failed"
         /\ pageKeys[c] # NULL => pageKeys'[c] # NULL

MCInit == ClientInit /\ scenario \in DOMAIN RequestsOf

MCNext ==
  /\ IF scenario \in {"receipts", "statements"} THEN EdgeNext /\ UNCHANGED pageVars ELSE ClientNext
  /\ now' <= LastTime[scenario]
  /\ \A c \in Callers : call'[c].req \in RequestsOf[scenario] \cup {NULL}
  /\ FewMishaps
  /\ UNCHANGED scenario

MCSpec == MCInit /\ [][MCNext]_<<clientVars, scenario>>

Symmetry == Permutations(Callers)
=============================================================================
