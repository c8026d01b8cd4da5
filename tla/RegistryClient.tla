--------------------------- MODULE RegistryClient ---------------------------
(***************************************************************************)
(* The wallet's side of the exchanges: HttpRegistryClient and its key set  *)
(* (apps/wallet/src/lib/wallet-adapter.ts), and what WalletCore demands of *)
(* an answer before it believes it (packages/wallet-core).                 *)
(*                                                                         *)
(* Every client of EdgeApi is one page of a wallet. A page loads the       *)
(* service's key set with the first answer it has to verify and keeps it   *)
(* until it is loaded again; meanwhile the operator may rotate either of   *)
(* the two signing keys. As the deployment demands, the keys of the past   *)
(* stay in the published set. A private key and its identifier change      *)
(* together, so a signature is the identifier of its key.                  *)
(***************************************************************************)
EXTENDS EdgeApi, ServiceStatements

CONSTANTS
  IssuedAuth,     \* the authorization the wallet's catalogue has of each device
  WalletSkew,     \* DEVICE_STATUS_MAX_CLOCK_SKEW_SECONDS
  MaxRotations    \* bound on the rotations of each key

ASSUME ClientAssumption ==
  /\ IssuedAuth \in [Devices -> Auths]
  /\ {WalletSkew, MaxRotations} \subseteq Nat

VARIABLES
  kids,       \* RECEIPT_SIGNING_KID and STATUS_SIGNING_KID, as generations
  pageKeys,   \* keysetPromise of each page
  signedBy,   \* the key of the answer that each page has yet to judge
  verdict     \* what the page made of that answer

pageVars == <<kids, pageKeys, signedBy, verdict>>

clientVars == <<edgeVars, pageVars>>

-----------------------------------------------------------------------------
(* Keys *)

Purposes == {"receipt", "status"}

SigningPurpose(r) == IF r.type = "deviceStatus" THEN "status" ELSE "receipt"

\* SERVICE_JWKS_JSON: the current keys and those before them.
Published == {key \in Purposes \X (0 .. MaxRotations) : key[2] <= kids[key[1]]}

RotateServiceKey(purpose) ==
  /\ kids[purpose] < MaxRotations
  /\ kids' = [kids EXCEPT ![purpose] = @ + 1]
  /\ UNCHANGED <<edgeVars, pageKeys, signedBy, verdict>>

-----------------------------------------------------------------------------
(* What the wallet demands of an answer *)

IdentityReceipt(c) ==
  LET event == actions[response[c].event] IN
  [kid |-> signedBy[c], type |-> event.type, sequence |-> event.sequence]

DeviceReceiptOf(c) ==
  LET event == deviceLog[response[c].event] IN
  [kid |-> signedBy[c], operationId |-> event.operationId, type |-> event.type,
   sequence |-> event.sequence, device |-> event.device, auth |-> event.auth,
   expires |-> event.expires, acceptedAt |-> event.acceptedAt, revokedBy |-> event.revokedBy]

StatementOf(c) ==
  LET r == response[c].req IN
  [kid |-> signedBy[c], device |-> r.device, auth |-> r.auth, state |-> response[c].state,
   expires |-> ExpiresAt[r.auth], iat |-> response[c].iat, exp |-> response[c].exp]

\* The transition a receipt has to confirm.
IdentityTransition(r) ==
  IF r.type = "register" THEN [type |-> "registered", sequence |-> 0]
                         ELSE [type |-> "revoked", sequence |-> r.expectedSequence + 1]

Confirmed(expected, receipt) == \A field \in DOMAIN expected : receipt[field] = expected[field]

ActivationTransition(r) ==
  [device |-> r.device, auth |-> r.auth, expires |-> ExpiresAt[r.auth],
   type |-> "activated", revokedBy |-> NULL]

\* (mutant) Only the revocation that was asked for is a revocation.
RevocationIsOnesOwn(r, receipt) ==
  /\ receipt.device = r.device /\ receipt.type = "revoked"
  /\ receipt.revokedBy = RevokedBy(r)

\* A revocation may have converged on an earlier one, by whom it ever was, as
\* long as no other authorization is named.
RevocationConfirmed(r, receipt) ==
  LET expected == IF r.type = "revokeSelf" THEN r.auth ELSE IssuedAuth[r.device] IN
  /\ receipt.device = r.device /\ receipt.type = "revoked"
  /\ receipt.revokedBy = "root" \/ (receipt.revokedBy = "device" /\ receipt.auth # NULL)
  /\ receipt.auth \in {NULL, expected}

ConfirmedBy(r, receipt) ==
  IF r.type = "activate" THEN Confirmed(ActivationTransition(r), receipt)
                         ELSE RevocationConfirmed(r, receipt)

Unless(verdictOfVerifier, confirmed) ==
  IF verdictOfVerifier = "OK" /\ ~confirmed THEN "INVALID_REGISTRY_RECEIPT" ELSE verdictOfVerifier

\* The statement behind an identity's status is not looked at.
WalletVerdict(c) ==
  LET r == response[c].req IN
  CASE r.type = "status" -> "OK"
    [] r.type = "deviceStatus" ->
         DeviceStatusStatement(StatementOf(c), pageKeys[c], [now |-> now, skew |-> WalletSkew],
                               [device |-> r.device, auth |-> r.auth])
    [] r.type \in DeviceMutationTypes ->
         Unless(DeviceRegistryReceipt(DeviceReceiptOf(c), pageKeys[c], << >>),
                ConfirmedBy(r, DeviceReceiptOf(c)))
    [] OTHER ->
         Unless(RegistryReceipt(IdentityReceipt(c), pageKeys[c], << >>),
                Confirmed(IdentityTransition(r), IdentityReceipt(c)))

-----------------------------------------------------------------------------
(* The exchanges of a page *)

Waiting(c) == verdict[c] = "received"

Resolve(c, made) ==
  /\ verdict' = [verdict EXCEPT ![c] = made]
  /\ signedBy' = [signedBy EXCEPT ![c] = NULL]

\* The page sends its next request when it is done with the last answer.
Send(c, r) == ~Waiting(c) /\ Forward(c, r) /\ Resolve(c, "none") /\ UNCHANGED <<kids, pageKeys>>

Refuse(c) == ~Waiting(c) /\ TurnAway(c) /\ Resolve(c, "none") /\ UNCHANGED <<kids, pageKeys>>

Receive(c) ==
  /\ Respond(c)
  /\ IF response'[c].code = "OK"
       THEN /\ verdict' = [verdict EXCEPT ![c] = "received"]
            /\ LET purpose == SigningPurpose(response'[c].req) IN
               signedBy' = [signedBy EXCEPT ![c] = <<purpose, kids[purpose]>>]
       ELSE UNCHANGED <<verdict, signedBy>>
  /\ UNCHANGED <<kids, pageKeys>>

\* A load that fails is not kept, and neither is the answer it was for.
LoadServiceKeyset(c) ==
  /\ Waiting(c) /\ response[c].req.type # "status" /\ pageKeys[c] = NULL
  /\ \/ pageKeys' = [pageKeys EXCEPT ![c] = Published] /\ UNCHANGED <<verdict, signedBy>>
     \/ Resolve(c, "failed") /\ UNCHANGED pageKeys
  /\ UNCHANGED <<edgeVars, kids>>

Judge(c) ==
  /\ Waiting(c)
  /\ response[c].req.type = "status" \/ pageKeys[c] # NULL
  /\ Resolve(c, WalletVerdict(c))
  /\ UNCHANGED <<edgeVars, kids, pageKeys>>

ReloadPage(c) ==
  /\ c \notin open /\ pageKeys[c] # NULL
  /\ pageKeys' = [pageKeys EXCEPT ![c] = NULL]
  /\ Resolve(c, "none")
  /\ UNCHANGED <<edgeVars, kids>>

ClientInit ==
  /\ EdgeInit
  /\ kids = [purpose \in Purposes |-> 0]
  /\ pageKeys = [c \in Callers |-> NULL]
  /\ signedBy = [c \in Callers |-> NULL]
  /\ verdict = [c \in Callers |-> "none"]

ClientNext ==
  \/ \E c \in Callers, r \in Requests : Send(c, r)
  \/ \E c \in Callers :
       \/ Refuse(c) \/ Receive(c)
       \/ LoadServiceKeyset(c) \/ Judge(c) \/ ReloadPage(c)
       \/ (LoseReply(c) \/ (Proceed(c) /\ UNCHANGED <<open, response>>)) /\ UNCHANGED pageVars
  \/ (EdgeRestart \/ (Tick /\ UNCHANGED <<open, response>>)) /\ UNCHANGED pageVars
  \/ \E purpose \in Purposes : RotateServiceKey(purpose)

ClientSpec == ClientInit /\ [][ClientNext]_clientVars

-----------------------------------------------------------------------------
(* Correctness *)

\* Why a wallet may refuse what the edge signed: its page has the key set of
\* before a rotation; the statement came too late; or the identity it wants
\* registered is revoked.
RefusalIsJust(c) ==
  LET r == response[c].req IN
  IF verdict[c] = "KEY_NOT_FOUND" THEN pageKeys[c] # Published
  ELSE CASE r.type = "deviceStatus" -> response[c].exp <= now
         [] r.type = "register"     -> identity.state = "revoked"
         [] OTHER                   -> FALSE

\* What a wallet notes once it believes the answer is so, then and from then on.
BeliefIsTrue(c) ==
  LET r == response[c].req IN
  CASE r.type = "register" -> identity.state # "none"
    [] r.type \in {"revokeBySecret", "revokeBySignature"} -> identity.state = "revoked"
    [] r.type = "activate" -> device[r.device].auth = r.auth
    [] r.type \in {"revokeSelf", "revokeRoot"} -> device[r.device].state = "revoked"
    [] r.type = "deviceStatus" /\ response[c].state = "revoked" ->
         EffectiveState(r.device, r.auth) = "revoked"
    [] OTHER -> TRUE

\* The registry's acceptance reaches the wallet: two validations, of the edge
\* and of the wallet, refuse no answer without a reason, whatever was repeated,
\* lost, overtaken or signed with a new key, and let nothing pass that the
\* registry did not do.
WalletBelievesTheEdge ==
  \A c \in Callers :
    CASE verdict[c] \in {"none", "received", "failed"} -> TRUE
      [] verdict[c] = "OK"                             -> BeliefIsTrue(c)
      [] OTHER                                         -> RefusalIsJust(c)

AuthorityReachesTheWallet == EdgeServesAuthority /\ WalletBelievesTheEdge
=============================================================================
