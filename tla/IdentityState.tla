--------------------------- MODULE IdentityState ---------------------------
(***************************************************************************)
(* The registry authority of one subject: the Durable Object IdentityState *)
(* (workers/registry/src/identity-state-do.ts).                            *)
(*                                                                         *)
(* The object is single threaded, but its methods are asynchronous: every  *)
(* "await" between reading the rows and the synchronous SQL transaction    *)
(* lets another method run.  A method is therefore several actions here:   *)
(*                                                                         *)
(*   idle --arrive--> "arrived" or "verifying" --> "committing" --> "replied" *)
(*                                                                         *)
(* register and the two identity revocations interleave freely; the three  *)
(* device mutations run inside blockConcurrencyWhile, which delivers no    *)
(* new request to the object until the callback is done but does not stop  *)
(* the methods already in flight.                                          *)
(*                                                                         *)
(* Signatures, hashes and canonical encodings are abstracted: a request    *)
(* says whether it is genuine, and an operation id is the hash of its      *)
(* payload, so equal ids mean equal payloads.                              *)
(***************************************************************************)
EXTENDS Integers, Sequences

CONSTANTS
  Callers,        \* the request slots: how many methods may be in flight
  Geneses,        \* the genesis documents whose hash is this subject
  Devices,        \* device identifiers bound to the subject
  Auths,          \* device authorizations signed by the identity's root key
  ValidFrom, Deadline, ExpiresAt,   \* the time window of each authorization
  OperationIds,   \* identifiers of signed device operations
  Requests,       \* the requests the environment may send
  ClockSkew,      \* MAX_CLOCK_SKEW_SECONDS
  RevocationAge,  \* MAX_REVOCATION_AGE_SECONDS
  RequestLifetime,        \* MAX_DEVICE_REQUEST_LIFETIME_SECONDS
  ActivationWindow,       \* MAX_DEVICE_ACTIVATION_WINDOW_SECONDS
  AuthorizationLifetime,  \* MAX_DEVICE_AUTHORIZATION_LIFETIME_SECONDS
  MaxTime,        \* bound on the clock
  NULL            \* SQL NULL, and "no value" elsewhere

RegisterRequests == [type : {"register"}, genesis : Geneses]

IdentityRevocations ==
  [type : {"revokeBySignature", "revokeBySecret"},
   expectedSequence : Nat, issuedAt : Nat, genuine : BOOLEAN]

DeviceRequests ==
  [type : {"activate", "revokeSelf", "revokeRoot"}, operationId : OperationIds,
   device : Devices, auth : Auths \cup {NULL},
   iat : Nat, exp : Nat, genuine : BOOLEAN]

StatusRequests == [type : {"status"}]

DeviceStatusRequests == [type : {"deviceStatus"}, device : Devices, auth : Auths]

ASSUME WindowsAssumption ==
  /\ ValidFrom \in [Auths -> Nat]
  /\ Deadline \in [Auths -> Nat]
  /\ ExpiresAt \in [Auths -> Nat]

ASSUME BoundsAssumption ==
  /\ ClockSkew \in Nat
  /\ RevocationAge \in Nat
  /\ RequestLifetime \in Nat
  /\ ActivationWindow \in Nat
  /\ AuthorizationLifetime \in Nat
  /\ MaxTime \in Nat

ASSUME RequestsAssumption ==
  /\ Requests \subseteq RegisterRequests \cup IdentityRevocations \cup DeviceRequests
                          \cup StatusRequests \cup DeviceStatusRequests
  \* The operation id is a collision-resistant hash of the signed payload.
  /\ \A r, s \in Requests \cap DeviceRequests :
        r.operationId = s.operationId =>
          r.type = s.type /\ r.device = s.device /\ r.auth = s.auth
  \* Only a root revocation names no authorization.
  /\ \A r \in Requests \cap DeviceRequests : (r.auth = NULL) <=> (r.type = "revokeRoot")

ASSUME NullAssumption ==
  NULL \notin Nat \cup Auths \cup Callers \cup Requests \cup {"root", "device"}

VARIABLES
  identity,    \* the row of identity_state ("none" when there is no row)
  actions,     \* the identity events, in order of the actions table's sequence
  device,      \* the rows of device_state ("absent" when there is no row)
  ledger,      \* device_ledger.sequence
  deviceLog,   \* the device events, in order of commit (device_operations)
  call,        \* what each method in flight has read and prepared
  gate,        \* the method that holds blockConcurrencyWhile, or NULL
  now,         \* the registry clock, in seconds
  kicked       \* whether the last step called #kickOutbox (see IdentityOutbox)

vars == <<identity, actions, device, ledger, deviceLog, call, gate, now, kicked>>

stored == <<identity, actions, device, ledger, deviceLog>>

-----------------------------------------------------------------------------
(* Rows, events, replies *)

NoIdentity == [state |-> "none", genesis |-> NULL, sequence |-> 0,
               registeredAt |-> NULL, revokedAt |-> NULL]

NoDevice == [state |-> "absent", auth |-> NULL, expires |-> NULL,
             activatedAt |-> NULL, revokedAt |-> NULL, revokedBy |-> NULL,
             activation |-> NULL, revocation |-> NULL]

IdleCall == [pc |-> "idle", req |-> NULL, seen |-> NULL, at |-> NULL,
             next |-> NULL, reply |-> NULL]

Failed(code) == [code |-> code, body |-> NULL]
Succeeded(body) == [code |-> "OK", body |-> body]

\* Receipt and status of an identity: the row, and the position in actions of
\* the event recorded for the row's sequence.
IdentityReply(row) ==
  Succeeded([state |-> row.state, sequence |-> row.sequence,
             registeredAt |-> row.registeredAt, revokedAt |-> row.revokedAt,
             event |-> row.sequence + 1])

\* (mutant) A replay is answered with the latest device event.
DeviceReceiptOfLatest(row, log, n) ==
  Succeeded([event |-> Len(log), activatedAt |-> row.activatedAt])

\* Receipt of a device mutation: the position in the device log of the event
\* it reports, and when the device was activated.  An event id is the hash of
\* the event, so a position in the log stands for it.
DeviceReceipt(row, log, n) ==
  IF row.state = "absent" \/ n = NULL
    THEN Failed("INTERNAL_ERROR")
    ELSE Succeeded([event |-> n,
                    activatedAt |-> IF log[n].type = "activated" THEN log[n].acceptedAt
                                    ELSE row.activatedAt])

\* The log entry that committed an operation id, if any.
CommitsOf(o) == {n \in DOMAIN deviceLog : deviceLog[n].operationId = o}

-----------------------------------------------------------------------------
(* Replying, and moving a method to its next await *)

\* A method returns: its locals are gone and the gate it held is released.
Answer(c, reply, kicks) ==
  /\ call' = [call EXCEPT ![c] = [IdleCall EXCEPT !.pc = "replied",
                                                  !.req = call[c].req,
                                                  !.reply = reply]]
  /\ gate' = IF gate = c THEN NULL ELSE gate
  /\ kicked' = kicks

\* A method that answers before its first await.
AnswerAtOnce(c, r, reply, kicks) ==
  /\ call' = [call EXCEPT ![c] = [IdleCall EXCEPT !.pc = "replied", !.req = r,
                                                  !.reply = reply]]
  /\ kicked' = kicks
  /\ UNCHANGED gate

\* Everything a method read or checked is in hand; the event is being hashed.
Prepare(c, next) ==
  /\ call' = [call EXCEPT ![c] = [@ EXCEPT !.pc = "committing", !.at = now,
                                           !.next = next]]
  /\ kicked' = FALSE
  /\ UNCHANGED gate

\* (mutant) Device mutations without blockConcurrencyWhile.
DeliverableUngated(c, r) ==
  /\ call[c].pc \in {"idle", "replied"}
  /\ r \in Requests

\* A new request is delivered: never while a device mutation holds the gate.
Deliverable(c, r) ==
  /\ gate = NULL
  /\ call[c].pc \in {"idle", "replied"}
  /\ r \in Requests

-----------------------------------------------------------------------------
(* Registration of the identity *)

RegisterArrives(c, r) ==
  /\ Deliverable(c, r)
  /\ r.type = "register"
  /\ call' = [call EXCEPT ![c] = [IdleCall EXCEPT !.pc = "arrived", !.req = r]]
  /\ kicked' = FALSE
  /\ UNCHANGED <<stored, gate, now>>

\* The subject is already registered: the same genesis is an idempotent retry.
RegistrationReplay(c) ==
  IF identity.genesis # call[c].req.genesis
    THEN Failed("SUBJECT_GENESIS_CONFLICT")
    ELSE IdentityReply(identity)

CheckRegistration(c) ==
  /\ call[c].pc = "arrived"
  /\ \/ /\ identity.state # "none"
        /\ Answer(c, RegistrationReplay(c), TRUE)
     \/ /\ identity.state = "none"
        /\ Prepare(c, 0)
  /\ UNCHANGED <<stored, now>>

CommitRegistration(c) ==
  /\ call[c].pc = "committing"
  /\ call[c].req.type = "register"
  /\ \/ /\ identity.state # "none"
        /\ Answer(c, RegistrationReplay(c), TRUE)
        /\ UNCHANGED stored
     \/ /\ identity.state = "none"
        /\ identity' = [state |-> "active", genesis |-> call[c].req.genesis,
                        sequence |-> 0, registeredAt |-> call[c].at,
                        revokedAt |-> NULL]
        /\ actions' = Append(actions, [type |-> "registered", sequence |-> 0,
                                       acceptedAt |-> call[c].at])
        /\ Answer(c, IdentityReply(identity'), TRUE)
        /\ UNCHANGED <<device, ledger, deviceLog>>
  /\ UNCHANGED now

-----------------------------------------------------------------------------
(* Terminal revocation of the identity, by signature or by secret *)

RevokeArrives(c, r) ==
  /\ Deliverable(c, r)
  /\ r.type \in {"revokeBySignature", "revokeBySecret"}
  /\ \/ /\ identity.state = "none"
        /\ AnswerAtOnce(c, r, Failed("IDENTITY_NOT_FOUND"), FALSE)
     \/ /\ identity.state = "revoked"
        /\ AnswerAtOnce(c, r, IdentityReply(identity), TRUE)
     \/ /\ identity.state = "active"
        /\ r.expectedSequence # identity.sequence
        /\ AnswerAtOnce(c, r, Failed("SEQUENCE_CONFLICT"), FALSE)
     \/ /\ identity.state = "active"
        /\ r.expectedSequence = identity.sequence
        /\ call' = [call EXCEPT ![c] = [IdleCall EXCEPT !.pc = "verifying", !.req = r,
                                                        !.seen = identity, !.at = now]]
        /\ kicked' = FALSE
        /\ UNCHANGED gate
  /\ UNCHANGED <<stored, now>>

\* The verification time is the one read when the request arrived.
SignatureIsTimely(r, at) ==
  /\ r.issuedAt <= at + ClockSkew
  /\ at <= r.issuedAt + RevocationAge + ClockSkew

RevocationDefect(r, at) ==
  IF r.type = "revokeBySignature"
    THEN IF ~SignatureIsTimely(r, at) THEN {"BAD_REQUEST"}
         ELSE IF ~r.genuine THEN {"INVALID_SIGNATURE"} ELSE {}
    ELSE IF ~r.genuine THEN {"INVALID_REVOCATION_SECRET"} ELSE {}

VerifyRevocation(c) ==
  LET defect == RevocationDefect(call[c].req, call[c].at) IN
  /\ call[c].pc = "verifying"
  /\ call[c].req.type \in {"revokeBySignature", "revokeBySecret"}
  /\ \/ \E code \in defect : Answer(c, Failed(code), FALSE)
     \/ /\ defect = {}
        /\ Prepare(c, call[c].seen.sequence + 1)
  /\ UNCHANGED <<stored, now>>

\* The transaction reads the row again: somebody else's revocation is this
\* method's answer, any other change refuses the request.
RevocationRace ==
  IF identity.state = "revoked" THEN IdentityReply(identity)
  ELSE IF identity.state = "none" THEN Failed("IDENTITY_NOT_FOUND")
  ELSE Failed("SEQUENCE_CONFLICT")

\* (mutant) The transaction trusts the row read before the await.
RevocationStandsUnread(c) == call[c].seen.state = "active"

RevocationStands(c) ==
  identity.state = "active" /\ identity.sequence = call[c].seen.sequence

CommitRevocation(c) ==
  /\ call[c].pc = "committing"
  /\ call[c].req.type \in {"revokeBySignature", "revokeBySecret"}
  /\ \/ /\ ~RevocationStands(c)
        /\ Answer(c, RevocationRace, TRUE)
        /\ UNCHANGED stored
     \/ /\ RevocationStands(c)
        /\ identity' = [identity EXCEPT !.state = "revoked", !.sequence = call[c].next,
                                        !.revokedAt = call[c].at]
        /\ actions' = Append(actions, [type |-> "revoked", sequence |-> call[c].next,
                                       acceptedAt |-> call[c].at])
        /\ Answer(c, IdentityReply(identity'), TRUE)
        /\ UNCHANGED <<device, ledger, deviceLog>>
  /\ UNCHANGED now

-----------------------------------------------------------------------------
(* Device mutations, inside blockConcurrencyWhile *)

\* The identity row is read once, before the signatures are verified.
DeviceRequestArrives(c, r) ==
  /\ Deliverable(c, r)
  /\ r.type \in {"activate", "revokeSelf", "revokeRoot"}
  /\ \/ /\ identity.state = "none"
        /\ AnswerAtOnce(c, r, Failed("IDENTITY_NOT_FOUND"), FALSE)
     \/ /\ identity.state # "none"
        /\ call' = [call EXCEPT ![c] = [IdleCall EXCEPT !.pc = "verifying", !.req = r,
                                                        !.seen = identity]]
        /\ gate' = c
        /\ kicked' = FALSE
  /\ UNCHANGED <<stored, now>>

ActivationIsTimely(r) ==
  LET a == r.auth IN
  /\ ValidFrom[a] <= Deadline[a]
  /\ Deadline[a] <= ExpiresAt[a]
  /\ Deadline[a] - ValidFrom[a] <= ActivationWindow
  /\ ExpiresAt[a] - ValidFrom[a] <= AuthorizationLifetime
  /\ ValidFrom[a] <= now + ClockSkew
  /\ now - ClockSkew <= Deadline[a]
  /\ now < ExpiresAt[a]
  /\ r.iat <= r.exp
  /\ r.exp - r.iat <= RequestLifetime
  /\ r.iat <= now + ClockSkew
  /\ now - ClockSkew <= r.exp

DeviceRevocationIsTimely(r) ==
  /\ r.iat <= now + ClockSkew
  /\ now - r.iat <= RevocationAge

\* The checks of an activation in the order the code makes them: the codes of
\* the first that fails.  The replay lookup stands between them.
ActivationDefect(c) ==
  LET r == call[c].req
      row == device[r.device] IN
  IF ~r.genuine THEN {"INVALID_SIGNATURE"}
  ELSE IF call[c].seen.state = "revoked" THEN {"IDENTITY_REVOKED"}
  ELSE IF row.state = "revoked" THEN {"DEVICE_REVOKED"}
  ELSE IF row.state = "active" /\ row.auth # r.auth THEN {"DEVICE_AUTHORIZATION_CONFLICT"}
  ELSE IF CommitsOf(r.operationId) = {} /\ ~ActivationIsTimely(r) THEN {"BAD_REQUEST"}
  ELSE {}

DecideActivation(c) ==
  LET r == call[c].req
      row == device[r.device]
      replay == CommitsOf(r.operationId) IN
  /\ call[c].pc = "verifying"
  /\ r.type = "activate"
  /\ \/ \E code \in ActivationDefect(c) : Answer(c, Failed(code), FALSE)
     \/ /\ ActivationDefect(c) = {}
        /\ \E n \in replay : Answer(c, DeviceReceipt(row, deviceLog, n), TRUE)
     \/ /\ ActivationDefect(c) = {} /\ replay = {}
        /\ row.state = "active"
        /\ Answer(c, DeviceReceipt(row, deviceLog, row.activation), TRUE)
     \/ /\ ActivationDefect(c) = {} /\ replay = {}
        /\ row.state = "absent"
        /\ Prepare(c, ledger + 1)
  /\ UNCHANGED <<stored, now>>

\* What a transaction of a device mutation finds in the rows it reads again.
DeviceRace(c) ==
  LET r == call[c].req
      row == device[r.device] IN
  IF identity.state = "none" THEN Failed("IDENTITY_NOT_FOUND")
  ELSE IF identity.state = "revoked" THEN Failed("IDENTITY_REVOKED")
  ELSE IF r.type = "activate" /\ row.state = "revoked" THEN Failed("DEVICE_REVOKED")
  ELSE IF row.state = "revoked" THEN DeviceReceipt(row, deviceLog, row.revocation)
  ELSE IF row.state = "active" /\ r.type # "revokeRoot" /\ row.auth # r.auth
         THEN Failed("DEVICE_AUTHORIZATION_CONFLICT")
  ELSE IF row.state = "active" /\ r.type = "activate"
         THEN DeviceReceipt(row, deviceLog, row.activation)
  ELSE Failed("SEQUENCE_CONFLICT")

\* (mutant) The transaction does not read the identity again.
DeviceMutationStandsAlone(c) ==
  LET r == call[c].req
      row == device[r.device] IN
  /\ \/ row.state = "absent"
     \/ row.state = "active" /\ r.type = "revokeRoot"
     \/ row.state = "active" /\ r.type = "revokeSelf" /\ row.auth = r.auth
  /\ ledger + 1 = call[c].next

\* Whether the transaction finds everything as the method left it.
DeviceMutationStands(c) ==
  LET r == call[c].req
      row == device[r.device] IN
  /\ identity.state = "active"
  /\ \/ row.state = "absent"
     \/ row.state = "active" /\ r.type = "revokeRoot"
     \/ row.state = "active" /\ r.type = "revokeSelf" /\ row.auth = r.auth
  /\ ledger + 1 = call[c].next

\* The row, the ledger, the operation and its event are one transaction; the
\* event's position in the log is the id the row keeps.
RecordDeviceEvent(c, row, event) ==
  /\ device' = [device EXCEPT ![event.device] = row]
  /\ ledger' = call[c].next
  /\ deviceLog' = Append(deviceLog, event)
  /\ Answer(c, DeviceReceipt(row, deviceLog', Len(deviceLog')), TRUE)
  /\ UNCHANGED <<identity, actions>>

\* (mutant) The event takes the current ledger sequence.
DeviceEventOffByOne(c, type, auth, expires, revokedBy) ==
  [sequence |-> ledger, operationId |-> call[c].req.operationId, type |-> type,
   device |-> call[c].req.device, auth |-> auth, expires |-> expires,
   identitySequence |-> call[c].seen.sequence, acceptedAt |-> call[c].at,
   revokedBy |-> revokedBy]

DeviceEvent(c, type, auth, expires, revokedBy) ==
  [sequence |-> call[c].next, operationId |-> call[c].req.operationId, type |-> type,
   device |-> call[c].req.device, auth |-> auth, expires |-> expires,
   identitySequence |-> call[c].seen.sequence, acceptedAt |-> call[c].at,
   revokedBy |-> revokedBy]

CommitActivation(c) ==
  LET r == call[c].req IN
  /\ call[c].pc = "committing"
  /\ r.type = "activate"
  /\ \/ /\ ~DeviceMutationStands(c)
        /\ Answer(c, DeviceRace(c), TRUE)
        /\ UNCHANGED stored
     \/ /\ DeviceMutationStands(c)
        /\ RecordDeviceEvent(c,
             [NoDevice EXCEPT !.state = "active", !.auth = r.auth,
                              !.expires = ExpiresAt[r.auth], !.activatedAt = call[c].at,
                              !.activation = Len(deviceLog) + 1],
             DeviceEvent(c, "activated", r.auth, ExpiresAt[r.auth], NULL))
  /\ UNCHANGED now

\* Revocation by the device itself or by the root key.  Neither looks at the
\* authorization's window: the operation only removes authority.
DeviceRevocationDefect(c) ==
  LET r == call[c].req
      row == device[r.device] IN
  IF ~r.genuine THEN {"INVALID_SIGNATURE"}
  ELSE IF call[c].seen.state = "revoked" THEN {"IDENTITY_REVOKED"}
  ELSE IF CommitsOf(r.operationId) # {} THEN {}
  ELSE IF ~DeviceRevocationIsTimely(r) THEN {"BAD_REQUEST"}
  ELSE IF r.type = "revokeSelf" /\ row.state = "active" /\ row.auth # r.auth
         THEN {"DEVICE_AUTHORIZATION_CONFLICT"}
  ELSE {}

DecideDeviceRevocation(c) ==
  LET r == call[c].req
      row == device[r.device]
      replay == CommitsOf(r.operationId) IN
  /\ call[c].pc = "verifying"
  /\ r.type \in {"revokeSelf", "revokeRoot"}
  /\ \/ \E code \in DeviceRevocationDefect(c) : Answer(c, Failed(code), FALSE)
     \/ /\ DeviceRevocationDefect(c) = {}
        /\ \E n \in replay : Answer(c, DeviceReceipt(row, deviceLog, n), TRUE)
     \/ /\ DeviceRevocationDefect(c) = {} /\ replay = {}
        /\ row.state = "revoked"
        /\ Answer(c, DeviceReceipt(row, deviceLog, row.revocation), TRUE)
     \/ /\ DeviceRevocationDefect(c) = {} /\ replay = {}
        /\ row.state # "revoked"
        /\ Prepare(c, ledger + 1)
  /\ UNCHANGED <<stored, now>>

RevokedBy(r) == IF r.type = "revokeRoot" THEN "root" ELSE "device"

\* A device never seen gets a tombstone row; an active row keeps everything it
\* had.  The event names the authorization on record before the request's own.
RevokedRow(c) ==
  LET r == call[c].req
      row == device[r.device]
      base == IF row.state = "active" THEN row
              ELSE [NoDevice EXCEPT !.auth = r.auth,
                                    !.expires = IF r.auth = NULL THEN NULL
                                                ELSE ExpiresAt[r.auth]] IN
  [base EXCEPT !.state = "revoked", !.revokedAt = call[c].at,
               !.revokedBy = RevokedBy(r), !.revocation = Len(deviceLog) + 1]

CommitDeviceRevocation(c) ==
  LET r == call[c].req
      row == RevokedRow(c) IN
  /\ call[c].pc = "committing"
  /\ r.type \in {"revokeSelf", "revokeRoot"}
  /\ \/ /\ ~DeviceMutationStands(c)
        /\ Answer(c, DeviceRace(c), TRUE)
        /\ UNCHANGED stored
     \/ /\ DeviceMutationStands(c)
        /\ RecordDeviceEvent(c, row,
             DeviceEvent(c, "revoked", row.auth, row.expires, RevokedBy(r)))
  /\ UNCHANGED now

-----------------------------------------------------------------------------
(* Status, restart, time *)

ReadStatus(c, r) ==
  /\ Deliverable(c, r)
  /\ r.type = "status"
  /\ \/ /\ identity.state = "none"
        /\ AnswerAtOnce(c, r, Failed("IDENTITY_NOT_FOUND"), FALSE)
     \/ /\ identity.state # "none"
        /\ AnswerAtOnce(c, r, IdentityReply(identity), TRUE)
  /\ UNCHANGED <<stored, now>>

\* (mutant) Expiry is looked at before the revocation of the device.
EffectiveStateExpiryFirst(d, a) ==
  IF identity.state = "revoked" THEN "revoked"
  ELSE IF device[d].auth = a /\ device[d].expires # NULL /\ now >= device[d].expires
         THEN "expired"
  ELSE IF device[d].state = "revoked" THEN "revoked"
  ELSE IF device[d].state = "absent" \/ device[d].auth # a THEN "unknown"
  ELSE "active"

\* The state reported for the exact pair of a device and an authorization.
EffectiveState(d, a) ==
  IF identity.state = "revoked" \/ device[d].state = "revoked" THEN "revoked"
  ELSE IF device[d].state = "absent" \/ device[d].auth # a THEN "unknown"
  ELSE IF now >= device[d].expires THEN "expired"
  ELSE "active"

DeviceStatusReply(d, a) ==
  LET row == device[d]
      matches == row.auth = a IN
  Succeeded([identityState |-> identity.state, identitySequence |-> identity.sequence,
             ledgerSequence |-> ledger, deviceState |-> EffectiveState(d, a),
             activatedAt |-> IF matches THEN row.activatedAt ELSE NULL,
             revokedAt |-> IF identity.state = "revoked" THEN identity.revokedAt
                           ELSE IF row.state = "revoked" THEN row.revokedAt ELSE NULL,
             expires |-> IF matches THEN row.expires ELSE NULL])

ReadDeviceStatus(c, r) ==
  /\ Deliverable(c, r)
  /\ r.type = "deviceStatus"
  /\ \/ /\ identity.state = "none"
        /\ AnswerAtOnce(c, r, Failed("IDENTITY_NOT_FOUND"), FALSE)
     \/ /\ identity.state # "none"
        /\ AnswerAtOnce(c, r, DeviceStatusReply(r.device, r.auth), TRUE)
  /\ UNCHANGED <<stored, now>>

\* The object is evicted or crashes: the methods in flight are lost, the SQL
\* rows are not.
Restart ==
  /\ \E c \in Callers : call[c].pc \notin {"idle", "replied"}
  /\ call' = [c \in Callers |-> IF call[c].pc = "replied" THEN call[c] ELSE IdleCall]
  /\ gate' = NULL
  /\ kicked' = FALSE
  /\ UNCHANGED <<stored, now>>

Tick ==
  /\ now < MaxTime
  /\ now' = now + 1
  /\ kicked' = FALSE
  /\ UNCHANGED <<stored, call, gate>>

-----------------------------------------------------------------------------

Init ==
  /\ identity = NoIdentity
  /\ actions = <<>>
  /\ device = [d \in Devices |-> NoDevice]
  /\ ledger = 0
  /\ deviceLog = <<>>
  /\ call = [c \in Callers |-> IdleCall]
  /\ gate = NULL
  /\ now = 0
  /\ kicked = FALSE

Arrive(c, r) ==
  \/ RegisterArrives(c, r)
  \/ RevokeArrives(c, r)
  \/ DeviceRequestArrives(c, r)
  \/ ReadStatus(c, r)
  \/ ReadDeviceStatus(c, r)

\* The next step of a method in flight: its pending await is resolved.
Proceed(c) ==
  \/ CheckRegistration(c)
  \/ CommitRegistration(c)
  \/ VerifyRevocation(c)
  \/ CommitRevocation(c)
  \/ DecideActivation(c)
  \/ CommitActivation(c)
  \/ DecideDeviceRevocation(c)
  \/ CommitDeviceRevocation(c)

Next ==
  \/ \E c \in Callers, r \in Requests : Arrive(c, r)
  \/ \E c \in Callers : Proceed(c)
  \/ Restart
  \/ Tick

Spec == Init /\ [][Next]_vars

-----------------------------------------------------------------------------
(* Correctness *)

Times == Nat
Rows == [state : {"none", "active", "revoked"}, genesis : Geneses \cup {NULL},
         sequence : {0, 1}, registeredAt : Times \cup {NULL},
         revokedAt : Times \cup {NULL}]

IdentityEvents == [type : {"registered", "revoked"}, sequence : {0, 1},
                   acceptedAt : Times]

DeviceRows == [state : {"absent", "active", "revoked"}, auth : Auths \cup {NULL},
               expires : Times \cup {NULL}, activatedAt : Times \cup {NULL},
               revokedAt : Times \cup {NULL}, revokedBy : {"root", "device", NULL},
               activation : Nat \cup {NULL}, revocation : Nat \cup {NULL}]

DeviceEvents == [sequence : Nat, operationId : OperationIds,
                 type : {"activated", "revoked"}, device : Devices,
                 auth : Auths \cup {NULL}, expires : Times \cup {NULL},
                 identitySequence : {0, 1}, acceptedAt : Times,
                 revokedBy : {"root", "device", NULL}]

Codes == {"OK", "SUBJECT_GENESIS_CONFLICT", "IDENTITY_NOT_FOUND", "SEQUENCE_CONFLICT",
          "BAD_REQUEST", "INVALID_SIGNATURE", "INVALID_REVOCATION_SECRET",
          "IDENTITY_REVOKED", "DEVICE_REVOKED", "DEVICE_AUTHORIZATION_CONFLICT",
          "INTERNAL_ERROR"}

IdentityBodies == [state : {"none", "active", "revoked"}, sequence : {0, 1},
                   registeredAt : Times \cup {NULL}, revokedAt : Times \cup {NULL},
                   event : Nat]

ReceiptBodies == [event : Nat, activatedAt : Times \cup {NULL}]

DeviceStatusBodies ==
  [identityState : {"none", "active", "revoked"}, identitySequence : {0, 1},
   ledgerSequence : Nat, deviceState : {"unknown", "active", "expired", "revoked"},
   activatedAt : Times \cup {NULL}, revokedAt : Times \cup {NULL},
   expires : Times \cup {NULL}]

Replies == [code : Codes,
            body : {NULL} \cup IdentityBodies \cup ReceiptBodies \cup DeviceStatusBodies]

Calls == [pc : {"idle", "arrived", "verifying", "committing", "replied"},
          req : Requests \cup {NULL}, seen : Rows \cup {NULL},
          at : Times \cup {NULL}, next : Nat \cup {NULL},
          reply : Replies \cup {NULL}]

\* Every variable holds a value of its kind, and a method in flight holds what
\* its program point needs.
TypeOK ==
  /\ identity \in Rows
  /\ actions \in Seq(IdentityEvents)
  /\ device \in [Devices -> DeviceRows]
  /\ ledger \in Nat
  /\ deviceLog \in Seq(DeviceEvents)
  /\ call \in [Callers -> Calls]
  /\ gate \in Callers \cup {NULL}
  /\ now \in 0..MaxTime
  /\ kicked \in BOOLEAN

InFlight(c) == call[c].pc \in {"arrived", "verifying", "committing"}
IsDeviceRequest(r) == r.type \in {"activate", "revokeSelf", "revokeRoot"}
EventsOf(d, type) == {n \in DOMAIN deviceLog : deviceLog[n].device = d /\ deviceLog[n].type = type}

\* The identity row is what the actions table and its events say: one event per
\* sequence, registration first and revocation last, never timed before it.
LifecycleMatchesActions ==
  /\ Len(actions) = CASE identity.state = "none" -> 0
                       [] identity.state = "active" -> 1
                       [] identity.state = "revoked" -> 2
  /\ \A n \in DOMAIN actions : actions[n].sequence = n - 1
  /\ identity.state # "none" =>
       /\ identity.sequence = Len(actions) - 1
       /\ actions[1].type = "registered"
       /\ actions[1].acceptedAt = identity.registeredAt
  /\ identity.state = "revoked" =>
       /\ actions[2].type = "revoked"
       /\ actions[2].acceptedAt = identity.revokedAt
       /\ identity.registeredAt <= identity.revokedAt

\* Each device row is the outcome of its events in the log: at most one
\* activation and at most one revocation, in that order, whatever the requests
\* raced with (the table, the operations and the ledger are three statements).
RowsMatchLog ==
  \A d \in Devices :
    LET row == device[d] IN
    /\ EventsOf(d, "activated") = {row.activation} \ {NULL}
    /\ EventsOf(d, "revoked") = {row.revocation} \ {NULL}
    /\ row.state = IF row.revocation # NULL THEN "revoked"
                   ELSE IF row.activation # NULL THEN "active" ELSE "absent"
    /\ row.activation # NULL =>
         /\ deviceLog[row.activation].auth = row.auth
         /\ deviceLog[row.activation].acceptedAt = row.activatedAt
    /\ row.revocation # NULL => deviceLog[row.revocation].acceptedAt = row.revokedAt
    /\ row.activation # NULL /\ row.revocation # NULL => row.activation < row.revocation

\* Both together: identity and device rows are what the recorded events say.
RowsMatchEvents == LifecycleMatchesActions /\ RowsMatchLog

\* The device ledger is gapless and counts exactly the effective mutations.
LedgerIsGapless ==
  /\ ledger = Len(deviceLog)
  /\ \A n \in DOMAIN deviceLog : deviceLog[n].sequence = n

\* A signed operation takes effect once, however often it is sent or retried.
OperationsCommitOnce ==
  \A m, n \in DOMAIN deviceLog :
    deviceLog[m].operationId = deviceLog[n].operationId => m = n

\* Device events carry registry times that never run backwards along the
\* ledger, although each is stamped before the await that precedes its commit.
LedgerTimesOrdered ==
  \A m, n \in DOMAIN deviceLog : m < n => deviceLog[m].acceptedAt <= deviceLog[n].acceptedAt

\* The ledger as clients order it: no gap, no operation twice, times in order,
\* although sequence, time and operation are all settled before the last await.
LedgerIsSound == LedgerIsGapless /\ OperationsCommitOnce /\ LedgerTimesOrdered

\* A device mutation between its decision and its commit still owns the next
\* ledger sequence, and the rows it decided on: the races its transaction
\* checks for can only come from the revocation of the identity.
ReservationHolds ==
  \A c \in Callers :
    /\ call[c].pc = "committing"
    /\ IsDeviceRequest(call[c].req)
    /\ identity.state = "active"
    => DeviceMutationStands(c)

\* What a device mutation acknowledges is on record for the device it names:
\* an activation of the very authorization, or a revocation that already holds.
\* The acknowledgement of an operation that committed is its own event.
ReceiptsAreTrue ==
  \A c \in Callers :
    LET r == call[c].req
        n == call[c].reply.body.event IN
    call[c].pc = "replied" /\ IsDeviceRequest(r) /\ call[c].reply.code = "OK" =>
      /\ n \in EventsOf(r.device, IF r.type = "activate" THEN "activated" ELSE "revoked")
      /\ r.type = "activate" => deviceLog[n].auth = r.auth
      /\ CommitsOf(r.operationId) \subseteq {n}

\* An acknowledged registration is the caller's own genesis, for good; an
\* acknowledged revocation is the one terminal event.
LifecycleReceiptsAreTrue ==
  \A c \in Callers :
    LET r == call[c].req IN
    call[c].pc = "replied" /\ call[c].reply.code = "OK" =>
      /\ r.type = "register" => identity.genesis = r.genesis
      /\ r.type \in {"revokeBySignature", "revokeBySecret"} =>
           /\ identity.state = "revoked"
           /\ call[c].reply = IdentityReply(identity)

\* What callers are told, of the identity and of devices, stays true after the
\* answer: rows and events they do not see may have changed before it, and do
\* change after it.
AnswersAreTrue == LifecycleReceiptsAreTrue /\ ReceiptsAreTrue

\* The registry implements the abstract lifecycle: the only steps of the rows
\* are its transitions, and none follows the revocation of the identity.
Abstract == INSTANCE IdentityLifecycle WITH
  lifecycle <- identity.state,
  deviceLifecycle <- [d \in Devices |-> device[d].state]

ImplementsLifecycle == Abstract!Spec

\* The state a relying party is told for one authorization only moves forward,
\* through commits and through the mere passing of time.
EffectiveStateMovesForward ==
  [][\A d \in Devices, a \in Auths :
       EffectiveState(d, a)' \in
         CASE EffectiveState(d, a) = "unknown" -> {"unknown", "active", "expired", "revoked"}
           [] EffectiveState(d, a) = "active"  -> {"active", "expired", "revoked"}
           [] EffectiveState(d, a) = "expired" -> {"expired", "revoked"}
           [] EffectiveState(d, a) = "revoked" -> {"revoked"}]_vars
=============================================================================
