------------------------ MODULE RegistryClientProofs ------------------------
(***************************************************************************)
(* Theorems about EdgeApi and RegistryClient, for any number of clients,   *)
(* devices, authorizations, requests and keys and for any clock.           *)
(*                                                                         *)
(* An answer leaves the registry, waits at the edge and lies with its      *)
(* client while everybody else goes on. Everything below is therefore said *)
(* in a form that outlives any step of the registry: an event that is in a *)
(* log stays there, and the state of a pair of a device and an             *)
(* authorization only moves on.                                            *)
(***************************************************************************)
EXTENDS RegistryClient, IdentityStateProofs, WellFoundedInduction

USE DEF Times

-----------------------------------------------------------------------------
(* What the registry's rows and events look like to the edge *)

\* The authorizations that the requests name for a device.
Named(d) == {r.auth : r \in {q \in Requests : IsDeviceRequest(q) /\ q.device = d}}

IdentityRowOK ==
  /\ identity.state = "active" => identity.revokedAt = NULL
  /\ identity.state = "revoked" => identity.revokedAt # NULL

DeviceRowOK(d, row) ==
  /\ row.state = "absent" => row = NoDevice
  /\ row.state # "absent" => row.auth \in Named(d)
  /\ row.state = "active" => row.expires # NULL /\ row.activatedAt # NULL /\ row.revokedAt = NULL
  /\ row.state = "revoked" => row.revokedAt # NULL
  /\ row.activatedAt # NULL =>
       row.activation # NULL /\ row.expires # NULL /\ row.activatedAt <= row.expires

DeviceEventOK(event) ==
  /\ event.auth \in Named(event.device)
  /\ event.type = "activated" =>
       /\ event.auth # NULL /\ event.expires = ExpiresAt[event.auth]
       /\ event.revokedBy = NULL
  /\ event.type = "revoked" =>
       event.revokedBy = "root" \/ (event.revokedBy = "device" /\ event.auth # NULL)

\* An activation that is about to commit was found timely at its own time.
StampOK(k) ==
  k.pc = "committing" /\ k.req.type = "activate" => k.at < ExpiresAt[k.req.auth]

RowsOK ==
  /\ WindowsKept
  /\ IdentityRowOK
  /\ \A d \in Devices : DeviceRowOK(d, device[d])
  /\ \A n \in DOMAIN deviceLog : DeviceEventOK(deviceLog[n])
  /\ \A c \in Callers : StampOK(call[c])

-----------------------------------------------------------------------------
(* What the registry told the edge *)

\* The states that may follow a state of a device and an authorization.
Onward(state) ==
  CASE state = "unknown" -> {"unknown", "active", "expired", "revoked"}
    [] state = "active"  -> {"active", "expired", "revoked"}
    [] state = "expired" -> {"expired", "revoked"}
    [] state = "revoked" -> {"revoked"}

\* The state is, or once was, the state of the pair that r asks about.
WasSo(state, r) ==
  /\ state \in {"unknown", "active", "expired", "revoked"}
  /\ EffectiveState(r.device, r.auth) \in Onward(state)

IsStatusRequest(r) == r.type = "deviceStatus"
IsIdentityRequest(r) == ~IsStatusRequest(r) /\ ~IsDeviceRequest(r)

\* The status of a device is what its row was: the edge's second validation but
\* for the order of the two times.
StatusBodyOK(s, r) ==
  /\ s \in DeviceStatusBodies
  /\ WasSo(s.deviceState, r)
  /\ ValidDeviceStatus(s) \/ Precedes(s.revokedAt, s.activatedAt)
  /\ s.deviceState = "active" => s.expires = ExpiresAt[r.auth]

ReplyOK(k) ==
  LET r == k.req
      body == k.reply.body IN
  k.pc = "replied" =>
    /\ k.reply.code \in Codes
    /\ k.reply.code = "OK" =>
         /\ IsStatusRequest(r) => StatusBodyOK(body, r)
         /\ IsDeviceRequest(r) /\ deviceLog[body.event].type = "revoked" =>
              ~Precedes(deviceLog[body.event].acceptedAt, body.activatedAt)
         /\ IsIdentityRequest(r) =>
              body \in IdentityBodies /\ body.event \in DOMAIN actions /\ ValidStatus(body)

RegistryInv ==
  /\ AnswersInv
  /\ RowsOK
  /\ \A c \in Callers : ReplyOK(call[c])

-----------------------------------------------------------------------------
(* What the edge told its clients *)

Responses ==
  [code : Codes \cup {"NONE", "RATE_LIMITED", "SERVICE_UNAVAILABLE"},
   req : Requests \cup {NULL}, event : Nat \cup {NULL},
   state : {"none", "active", "revoked", "unknown", "expired", NULL},
   iat : Nat \cup {NULL}, exp : Nat \cup {NULL}]

\* The open exchanges, and what each client was last told, are of their kinds.
EdgeTypeOK ==
  /\ open \subseteq Callers
  /\ response \in [Callers -> Responses]

ResponseOK(s) ==
  LET r == s.req IN
  s.code = "OK" =>
    /\ r \in Requests
    /\ IsStatusRequest(r) =>
         /\ WasSo(s.state, r)
         /\ s.iat \in Nat /\ s.exp \in Nat /\ s.iat <= now
         /\ s.state = "active" => s.iat < s.exp /\ s.exp <= ExpiresAt[r.auth]
    /\ IsDeviceRequest(r) =>
         /\ EventOf(s.event, r)
         /\ r.auth # NULL => deviceLog[s.event].auth = r.auth
    /\ IsIdentityRequest(r) =>
         /\ s.event \in DOMAIN actions
         /\ IsIdentityRevocation(r) => s.event = 2

\* A status that is on its way is not behind the one its client already has.
MovesOn(c) ==
  LET k == call[c] IN
  c \in open /\ k.pc = "replied" /\ k.reply.code = "OK" /\ IsStatusRequest(k.req)
    /\ response[c].code = "OK" /\ response[c].req = k.req
    => k.reply.body.deviceState \in Onward(response[c].state)

Serves(c) ==
  Answered(c) /\ response[c].code = "INTERNAL_ERROR" =>
    ConvergedElsewhere(c) \/ ActivatedAfterStamp(c)

ExchangeOK(c) ==
  /\ ResponseOK(response[c])
  /\ InFlight(c) => c \in open
  /\ MovesOn(c)
  /\ Serves(c)

EdgeInv ==
  /\ RegistryInv
  /\ EdgeTypeOK
  /\ \A c \in Callers : ExchangeOK(c)

-----------------------------------------------------------------------------
(* What the pages made of it *)

\* A page that did not find the key of an answer has an old key set.
KeysetIsOld(c) == \E key \in Published : key \notin pageKeys[c]

RefusedJustly(c) ==
  LET r == response[c].req IN
  IF verdict[c] = "KEY_NOT_FOUND" THEN KeysetIsOld(c)
  ELSE CASE r.type = "deviceStatus" -> response[c].exp <= now
         [] r.type = "register"     -> identity.state = "revoked"
         [] OTHER                   -> FALSE

PageOK(c) ==
  /\ c \in open => verdict[c] = "none"
  /\ verdict[c] \notin {"none", "failed"} => response[c].code = "OK"
  /\ Waiting(c) => signedBy[c] \in Published
  /\ verdict[c] \notin {"none", "failed", "received", "OK"} => RefusedJustly(c)

PagesOK ==
  /\ kids \in [Purposes -> 0 .. MaxRotations]
  /\ DOMAIN pageKeys = Callers /\ DOMAIN signedBy = Callers /\ DOMAIN verdict = Callers
  /\ \A c \in Callers : PageOK(c)

ClientInv == EdgeInv /\ PagesOK

-----------------------------------------------------------------------------
(* The rows *)

\* The authorization of a device request is named, and only the root's
\* revocation has none.
LEMMA RequestNames ==
  ASSUME NEW r \in Requests, IsDeviceRequest(r)
  PROVE  /\ r \in DeviceRequests
         /\ r.device \in Devices
         /\ r.auth \in Named(r.device)
         /\ (r.auth = NULL) <=> (r.type = "revokeRoot")
BY RequestFields, RequestsAssumption DEF DeviceRequests, Named

\* What a device mutation commits is well formed: an activation that was timely
\* when it was stamped, a revocation that keeps what the row knew.
LEMMA ActivationIsOK ==
  ASSUME IInv, RowsOK, NEW c \in Callers, CommitActivation(c),
         NEW row, NEW event, RecordsEvent(c, row, event)
  PROVE  DeviceRowOK(event.device, row) /\ DeviceEventOK(event)
<1> PICK r : r = call[c].req
  OBVIOUS
<1>1. /\ call[c].pc = "committing" /\ r.type = "activate" /\ IsDeviceRequest(r)
      /\ r \in Requests /\ call[c].at \in Nat
  BY DEF CommitActivation, IInv, CallsOK, LocalsOK, IsDeviceRequest
<1>2. /\ r.device \in Devices /\ r.auth \in Named(r.device) /\ r.auth \in Auths
  BY <1>1, RequestNames DEF DeviceRequests
<1>3. /\ deviceLog' = Append(deviceLog, event) /\ deviceLog \in Seq(DeviceEvents)
      /\ device' = [device EXCEPT ![event.device] = row]
      /\ device \in [Devices -> DeviceRows] /\ event.device = r.device
      /\ call[c].req = r
  BY DEF RecordsEvent, IInv, StoredOK
<1>4. DeviceMutationStands(c)
  <2>1. deviceLog' # deviceLog
    BY <1>3
  <2> QED
    BY <2>1 DEF CommitActivation, stored
<1>5. RecordDeviceEvent(c,
             [NoDevice EXCEPT !.state = "active", !.auth = r.auth,
                              !.expires = ExpiresAt[r.auth], !.activatedAt = call[c].at,
                              !.activation = Len(deviceLog) + 1],
             DeviceEvent(c, "activated", r.auth, ExpiresAt[r.auth], NULL))
  BY <1>3, <1>4 DEF CommitActivation
<1>6. /\ event = DeviceEvent(c, "activated", r.auth, ExpiresAt[r.auth], NULL)
      /\ row = [NoDevice EXCEPT !.state = "active", !.auth = r.auth,
                                !.expires = ExpiresAt[r.auth], !.activatedAt = call[c].at,
                                !.activation = Len(deviceLog) + 1]
  <2>1. event = deviceLog'[Len(deviceLog) + 1]
    BY <1>3
  <2>2. row = device'[r.device]
    BY <1>2, <1>3
  <2>3. PICK e, w : /\ e = DeviceEvent(c, "activated", r.auth, ExpiresAt[r.auth], NULL)
                    /\ w = [NoDevice EXCEPT !.state = "active", !.auth = r.auth,
                                       !.expires = ExpiresAt[r.auth], !.activatedAt = call[c].at,
                                       !.activation = Len(deviceLog) + 1]
    OBVIOUS
  <2>4. e.device = r.device
    BY <1>3, <2>3 DEF DeviceEvent
  <2>5. deviceLog' = Append(deviceLog, e) /\ device' = [device EXCEPT ![r.device] = w]
    BY <1>5, <2>3, <2>4 DEF RecordDeviceEvent
  <2>6. event = e /\ row = w
    BY <1>2, <1>3, <2>1, <2>2, <2>5
  <2> QED
    BY <2>3, <2>6
<1>7. call[c].at < ExpiresAt[r.auth]
  BY <1>1, <1>3 DEF RowsOK, StampOK
<1>8. ExpiresAt[r.auth] \in Nat /\ Len(deviceLog) + 1 \in Nat
  BY <1>2, <1>3, WindowsAssumption
<1>9. /\ r.auth # NULL /\ call[c].at # NULL /\ ExpiresAt[r.auth] # NULL
      /\ Len(deviceLog) + 1 # NULL
  BY <1>1, <1>2, <1>8, NullAssumption
<1>10. /\ row.state = "active" /\ row.auth = r.auth /\ row.expires = ExpiresAt[r.auth]
       /\ row.activatedAt = call[c].at /\ row.revokedAt = NULL
       /\ row.activation = Len(deviceLog) + 1
  BY <1>6 DEF NoDevice
<1>11. DeviceRowOK(event.device, row)
  BY <1>1, <1>2, <1>3, <1>7, <1>8, <1>9, <1>10 DEF DeviceRowOK
<1>12. /\ event.type = "activated" /\ event.auth = r.auth /\ event.device = r.device
       /\ event.expires = ExpiresAt[r.auth] /\ event.revokedBy = NULL
  BY <1>3, <1>6 DEF DeviceEvent
<1>13. DeviceEventOK(event)
  BY <1>2, <1>9, <1>12 DEF DeviceEventOK
<1> QED
  BY <1>11, <1>13

LEMMA RevocationIsOK ==
  ASSUME IInv, RowsOK, NEW c \in Callers, CommitDeviceRevocation(c),
         NEW row, NEW event, RecordsEvent(c, row, event)
  PROVE  DeviceRowOK(event.device, row) /\ DeviceEventOK(event)
<1> PICK r : r = call[c].req
  OBVIOUS
<1> PICK old : old = device[r.device]
  OBVIOUS
<1>1. /\ call[c].pc = "committing" /\ r.type \in {"revokeSelf", "revokeRoot"} /\ IsDeviceRequest(r)
      /\ r \in Requests /\ call[c].at \in Nat
  BY DEF CommitDeviceRevocation, IInv, CallsOK, LocalsOK, IsDeviceRequest
<1>2. /\ r.device \in Devices /\ r.auth \in Named(r.device)
      /\ r.type = "revokeSelf" => r.auth # NULL
  BY <1>1, RequestNames
<1>3. /\ deviceLog' = Append(deviceLog, event) /\ deviceLog \in Seq(DeviceEvents)
      /\ device' = [device EXCEPT ![event.device] = row]
      /\ device \in [Devices -> DeviceRows] /\ event.device = r.device
      /\ call[c].req = r
  BY DEF RecordsEvent, IInv, StoredOK
<1>4. DeviceMutationStands(c)
  <2>1. deviceLog' # deviceLog
    BY <1>3
  <2> QED
    BY <2>1 DEF CommitDeviceRevocation, stored
<1>5. RecordDeviceEvent(c, RevokedRow(c),
             DeviceEvent(c, "revoked", RevokedRow(c).auth, RevokedRow(c).expires, RevokedBy(r)))
  BY <1>3, <1>4 DEF CommitDeviceRevocation
<1>6. /\ event = DeviceEvent(c, "revoked", RevokedRow(c).auth, RevokedRow(c).expires, RevokedBy(r))
      /\ row = RevokedRow(c)
  <2>1. event = deviceLog'[Len(deviceLog) + 1]
    BY <1>3
  <2>2. row = device'[r.device]
    BY <1>2, <1>3
  <2>3. PICK e, w : /\ e = DeviceEvent(c, "revoked", RevokedRow(c).auth, RevokedRow(c).expires, RevokedBy(r))
                    /\ w = RevokedRow(c)
    OBVIOUS
  <2>4. e.device = r.device
    BY <1>3, <2>3 DEF DeviceEvent
  <2>5. deviceLog' = Append(deviceLog, e) /\ device' = [device EXCEPT ![r.device] = w]
    BY <1>5, <2>3, <2>4 DEF RecordDeviceEvent
  <2>6. event = e /\ row = w
    BY <1>2, <1>3, <2>1, <2>2, <2>5
  <2> QED
    BY <2>3, <2>6
<1>7. old \in DeviceRows /\ DeviceRowOK(r.device, old) /\ old.state \in {"absent", "active"}
  BY <1>2, <1>3, <1>4 DEF RowsOK, DeviceMutationStands
<1>8. /\ row.state = "revoked" /\ row.revokedAt = call[c].at
      /\ old.state = "active" =>
           /\ row.auth = old.auth /\ row.activatedAt = old.activatedAt
           /\ row.activation = old.activation /\ row.expires = old.expires
      /\ old.state = "absent" => row.auth = r.auth /\ row.activatedAt = NULL
  BY <1>3, <1>6, <1>7 DEF RevokedRow, NoDevice, DeviceRows
<1>9. old.state = "active" => old.auth # NULL
  BY <1>2 DEF RowsOK, WindowsKept
<1>10. call[c].at # NULL
  BY <1>1, NullAssumption
<1>11. DeviceRowOK(r.device, row)
  BY <1>2, <1>7, <1>8, <1>10 DEF DeviceRowOK
<1>12. row.auth \in Named(r.device) /\ (r.type = "revokeSelf" => row.auth # NULL)
  BY <1>2, <1>7, <1>8, <1>9 DEF DeviceRowOK
<1> QED
  BY <1>1, <1>3, <1>6, <1>11, <1>12 DEF DeviceEventOK, DeviceEvent, RevokedBy

LEMMA CommittedIsOK ==
  ASSUME IInv, RowsOK, NEW c \in Callers, Proceed(c),
         NEW row, NEW event, RecordsEvent(c, row, event)
  PROVE  DeviceRowOK(event.device, row) /\ DeviceEventOK(event)
<1>1. deviceLog \in Seq(DeviceEvents) /\ deviceLog' = Append(deviceLog, event)
  BY DEF RecordsEvent, IInv, StoredOK
<1>2. deviceLog' # deviceLog
  BY <1>1
<1>3. CommitActivation(c) \/ CommitDeviceRevocation(c)
  BY <1>2
  DEF Proceed, CheckRegistration, CommitRegistration, VerifyRevocation, CommitRevocation,
      DecideActivation, DecideDeviceRevocation, stored
<1> QED
  BY <1>3, ActivationIsOK, RevocationIsOK

\* What every step of the registry leaves as it was: the events that are on
\* record, and the direction in which time, identity and devices go.
HistoryStays ==
  /\ \A n \in DOMAIN actions : n \in DOMAIN actions' /\ actions'[n] = actions[n]
  /\ \A n \in DOMAIN deviceLog : n \in DOMAIN deviceLog' /\ deviceLog'[n] = deviceLog[n]
  /\ now <= now'
  /\ identity.state = "revoked" => identity'.state = "revoked"
  /\ \A d \in Devices, a \in Auths : EffectiveState(d, a)' \in Onward(EffectiveState(d, a))

LEMMA ActionsStep ==
  ASSUME Next
  PROVE  /\ \/ UNCHANGED actions
            \/ \E event : actions' = Append(actions, event)
         /\ identity.state = "revoked" => identity'.state = "revoked"
<1>1. ASSUME NEW c \in Callers, NEW r \in Requests, Arrive(c, r) PROVE UNCHANGED <<identity, actions>>
  BY <1>1 DEF Arrive, RegisterArrives, RevokeArrives, DeviceRequestArrives, ReadStatus,
              ReadDeviceStatus, stored
<1>2. ASSUME NEW c \in Callers, Proceed(c)
      PROVE  /\ \/ UNCHANGED actions
                \/ \E event : actions' = Append(actions, event)
             /\ identity.state = "revoked" => identity'.state = "revoked"
  <2>1. CASE CommitRegistration(c)
    BY <2>1 DEF CommitRegistration, stored
  <2>2. CASE CommitRevocation(c)
    BY <2>2 DEF CommitRevocation, RevocationStands, stored
  <2>3. CASE CommitActivation(c) \/ CommitDeviceRevocation(c)
    BY <2>3 DEF CommitActivation, CommitDeviceRevocation, RecordDeviceEvent, stored
  <2>4. CASE CheckRegistration(c) \/ VerifyRevocation(c) \/ DecideActivation(c)
             \/ DecideDeviceRevocation(c)
    BY <2>4 DEF CheckRegistration, VerifyRevocation, DecideActivation, DecideDeviceRevocation, stored
  <2> QED
    BY <1>2, <2>1, <2>2, <2>3, <2>4 DEF Proceed
<1>3. Restart \/ Tick => UNCHANGED <<identity, actions>>
  BY DEF Restart, Tick, stored
<1> QED
  BY <1>1, <1>2, <1>3 DEF Next

LEMMA EffectiveStates ==
  ASSUME NEW d, NEW a
  PROVE  /\ EffectiveState(d, a) \in {"unknown", "active", "expired", "revoked"}
         /\ EffectiveState(d, a)' \in {"unknown", "active", "expired", "revoked"}
BY DEF EffectiveState

\* A step appends at most one event to the log of the devices.
LEMMA DeviceLogStep ==
  ASSUME IInv, Next
  PROVE  UNCHANGED deviceLog \/ \E event \in DeviceEvents : deviceLog' = Append(deviceLog, event)
<1> DEFINE Quiet == UNCHANGED deviceLog
           Grows == \E event \in DeviceEvents : deviceLog' = Append(deviceLog, event)
<1>1. ASSUME NEW c \in Callers, Starts(c) \/ Prepares(c) \/ (Returns(c) /\ UNCHANGED stored)
      PROVE  Quiet
  BY <1>1 DEF Starts, Prepares, stored
<1>2. ASSUME NEW c \in Callers, Registers(c) \/ RevokesIdentity(c) PROVE Quiet
  BY <1>2 DEF Registers, RevokesIdentity
<1>3. ASSUME NEW c \in Callers, NEW row \in DeviceRows, NEW event \in DeviceEvents,
             RecordsEvent(c, row, event)
      PROVE  Grows
  BY <1>3 DEF RecordsEvent
<1>4. Drops \/ Tick => Quiet
  BY DEF Drops, Tick, stored
<1> HIDE DEF Quiet, Grows
<1>5. Quiet \/ Grows
  BY <1>1, <1>2, <1>3, <1>4, StepShape
<1> QED
  BY <1>5 DEF Quiet, Grows

LEMMA NextStays ==
  ASSUME FullInv, WindowsKept, Next
  PROVE  HistoryStays
<1>1. IInv
  BY DEF FullInv
<1>2. actions \in Seq(IdentityEvents) /\ deviceLog \in Seq(DeviceEvents) /\ now \in Nat
  BY <1>1, BoundsAssumption DEF IInv, StoredOK, ClockOK
<1>3. \A n \in DOMAIN actions : n \in DOMAIN actions' /\ actions'[n] = actions[n]
  BY <1>2, ActionsStep
<1>4. \A n \in DOMAIN deviceLog : n \in DOMAIN deviceLog' /\ deviceLog'[n] = deviceLog[n]
  <2>1. UNCHANGED deviceLog \/ \E event \in DeviceEvents : deviceLog' = Append(deviceLog, event)
    BY <1>1, DeviceLogStep
  <2> QED
    BY <1>2, <2>1
<1>5. now <= now'
  <2>1. ASSUME NEW c \in Callers, NEW r \in Requests, Arrive(c, r) PROVE now' = now
    BY <1>1, <2>1, ArriveShape DEF Starts, Returns
  <2>2. ASSUME NEW c \in Callers, Proceed(c) PROVE now' = now
    BY <1>1, <2>2, ProceedShape DEF Prepares, Returns, Registers, RevokesIdentity, RecordsEvent
  <2>3. Restart => now' = now
    BY DEF Restart
  <2>4. Tick => now' = now + 1
    BY DEF Tick
  <2> QED
    BY <1>2, <2>1, <2>2, <2>3, <2>4 DEF Next
<1>6. ASSUME NEW d \in Devices, NEW a \in Auths
      PROVE  EffectiveState(d, a)' \in Onward(EffectiveState(d, a))
  BY EffectiveStateStep DEF Onward
<1> QED
  BY <1>3, <1>4, <1>5, <1>6, ActionsStep DEF HistoryStays

LEMMA QuietStays ==
  ASSUME IInv, UNCHANGED <<stored, now>>
  PROVE  HistoryStays
<1>1. now \in Nat
  BY BoundsAssumption DEF IInv, ClockOK
<1>2. ASSUME NEW d \in Devices, NEW a \in Auths
      PROVE  EffectiveState(d, a)' \in Onward(EffectiveState(d, a))
  <2>1. EffectiveState(d, a)' = EffectiveState(d, a)
    BY DEF EffectiveState, stored
  <2> QED
    BY <2>1, EffectiveStates DEF Onward
<1> QED
  BY <1>1, <1>2 DEF HistoryStays, stored

\* Only a decision stamps an activation, and only one that is timely.
LEMMA NextKeepsStamps ==
  ASSUME IInv, \A c \in Callers : StampOK(call[c]), Next
  PROVE  \A c \in Callers : StampOK(call'[c])
<1> SUFFICES ASSUME NEW x \in Callers, call'[x].pc = "committing", call'[x].req.type = "activate"
             PROVE  call'[x].at < ExpiresAt[call'[x].req.auth]
  BY DEF StampOK
<1>0. CASE call'[x] = call[x]
  BY <1>0 DEF StampOK
<1>1. CASE DecideActivation(x) /\ call'[x] # call[x]
  <2>1. Prepare(x, ledger + 1) /\ ActivationDefect(x) = {} /\ CommitsOf(call[x].req.operationId) = {}
    <3>1. \A reply, kicks : ~Answer(x, reply, kicks)
      BY AnswerShape
    <3> QED
      BY <1>1, <3>1 DEF DecideActivation
  <2>2. now < ExpiresAt[call[x].req.auth]
    BY <2>1 DEF ActivationDefect, ActivationIsTimely
  <2> QED
    BY <2>1, <2>2, PrepareShape
<1>2. ASSUME NEW c \in Callers, NEW r \in Requests, Arrive(c, r), call'[x] # call[x]
      PROVE  FALSE
  BY <1>2, ArriveShape DEF Starts, Returns, Others
<1>3. ASSUME NEW c \in Callers, Proceed(c), call'[x] # call[x]
      PROVE  DecideActivation(x)
  <2>1. x = c
    <3>1. Others(c)
      BY <1>3, ProceedShape DEF Prepares, Returns, Registers, RevokesIdentity, RecordsEvent
    <3> QED
      BY <1>3, <3>1 DEF Others
  <2>2. call'[c].req = call[c].req /\ call[c].req.type = "activate"
    <3>1. CASE Prepares(c)
      BY <2>1, <3>1 DEF Prepares
    <3> QED
      BY <1>3, <2>1, <3>1, ProceedShape DEF Returns, Registers, RevokesIdentity, RecordsEvent
  <2>3. call[c].pc \in {"arrived", "verifying"}
    BY <1>3, <2>1, ProceedShape DEF Prepares, Returns, Registers, RevokesIdentity, RecordsEvent
  <2>4. call[c].pc = "arrived" => call[c].req.type = "register"
    BY DEF IInv, CallsOK, LocalsOK
  <2> QED
    BY <1>3, <2>1, <2>2, <2>3, <2>4
    DEF Proceed, CheckRegistration, CommitRegistration, VerifyRevocation, CommitRevocation,
        CommitActivation, DecideDeviceRevocation, CommitDeviceRevocation
<1>4. CASE Restart
  BY <1>4 DEF Restart, IdleCall
<1>5. CASE Tick
  BY <1>0, <1>5 DEF Tick
<1> QED
  BY <1>0, <1>1, <1>2, <1>3, <1>4, <1>5 DEF Next

LEMMA NextKeepsRows ==
  ASSUME FullInv, RowsOK, Next
  PROVE  RowsOK'
<1>0. IInv
  BY DEF FullInv
<1>1. WindowsKept'
  BY <1>0, NextKeepsWindows DEF RowsOK
<1>2. \A c \in Callers : StampOK(call[c])'
  BY <1>0, NextKeepsStamps DEF RowsOK, StampOK
<1>3. CASE UNCHANGED stored
  BY <1>1, <1>2, <1>3 DEF RowsOK, IdentityRowOK, DeviceRowOK, DeviceEventOK, stored
<1>4. ASSUME NEW c \in Callers, Proceed(c), NEW row \in DeviceRows, NEW event \in DeviceEvents,
             RecordsEvent(c, row, event)
      PROVE  RowsOK'
  <2>1. DeviceRowOK(event.device, row) /\ DeviceEventOK(event)
    BY <1>0, <1>4, CommittedIsOK
  <2>2. /\ device' = [device EXCEPT ![event.device] = row]
        /\ deviceLog' = Append(deviceLog, event)
        /\ identity' = identity
        /\ device \in [Devices -> DeviceRows] /\ deviceLog \in Seq(DeviceEvents)
    BY <1>0, <1>4 DEF RecordsEvent, IInv, StoredOK
  <2>3. \A d \in Devices : DeviceRowOK(d, device'[d])
    BY <2>1, <2>2 DEF RowsOK
  <2>4. \A n \in DOMAIN deviceLog' : DeviceEventOK(deviceLog'[n])
    BY <2>1, <2>2 DEF RowsOK
  <2> QED
    BY <1>1, <1>2, <2>2, <2>3, <2>4 DEF RowsOK, IdentityRowOK, DeviceRowOK, DeviceEventOK
<1>5. ASSUME NEW c \in Callers, Proceed(c), Registers(c) \/ RevokesIdentity(c)
      PROVE  RowsOK'
  <2>1. UNCHANGED <<device, deviceLog>>
    BY <1>5 DEF Registers, RevokesIdentity
  <2>2. IdentityRowOK'
    <3>1. identity' # identity
      BY <1>5 DEF Registers, RevokesIdentity
    <3>2. CommitRegistration(c) \/ CommitRevocation(c)
      BY <1>5, <3>1
      DEF Proceed, CheckRegistration, VerifyRevocation, DecideActivation, DecideDeviceRevocation,
          CommitActivation, CommitDeviceRevocation, RecordDeviceEvent, stored
    <3>3. CASE CommitRegistration(c)
      <4>1. identity' = [state |-> "active", genesis |-> call[c].req.genesis, sequence |-> 0,
                         registeredAt |-> call[c].at, revokedAt |-> NULL]
        BY <3>1, <3>3 DEF CommitRegistration, stored
      <4> QED
        BY <4>1 DEF IdentityRowOK
    <3>4. CASE CommitRevocation(c)
      <4>1. call[c].at # NULL /\ call[c].at \in Nat
        BY <1>0, <3>4, NullAssumption DEF CommitRevocation, IInv, CallsOK, LocalsOK
      <4> QED
        BY <1>0, <3>1, <3>4, <4>1
        DEF CommitRevocation, IdentityRowOK, stored, IInv, StoredOK, Rows
    <3> QED
      BY <3>2, <3>3, <3>4
  <2> QED
    BY <1>1, <1>2, <2>1, <2>2 DEF RowsOK, DeviceRowOK, DeviceEventOK
<1>6. ASSUME NEW c \in Callers, NEW r \in Requests, Arrive(c, r) PROVE UNCHANGED stored
  BY <1>0, <1>6, ArriveShape DEF Starts
<1>7. Restart \/ Tick => UNCHANGED stored
  BY DEF Restart, Tick
<1>8. ASSUME NEW c \in Callers, Proceed(c) PROVE RowsOK'
  BY <1>0, <1>3, <1>4, <1>5, <1>8, ProceedShape DEF Prepares
<1> QED
  BY <1>3, <1>6, <1>7, <1>8 DEF Next

-----------------------------------------------------------------------------
(* The replies *)

LEMMA OnwardFacts ==
  ASSUME NEW s \in {"unknown", "active", "expired", "revoked"}, NEW t \in Onward(s)
  PROVE  /\ t \in {"unknown", "active", "expired", "revoked"}
         /\ s \in Onward(s)
         /\ Onward(t) \subseteq Onward(s)
BY DEF Onward

LEMMA WasSoStays ==
  ASSUME HistoryStays, NEW state, NEW r \in DeviceStatusRequests, WasSo(state, r)
  PROVE  WasSo(state, r)'
<1>1. r.device \in Devices /\ r.auth \in Auths
  BY DEF DeviceStatusRequests
<1>2. EffectiveState(r.device, r.auth)' \in Onward(EffectiveState(r.device, r.auth))
  BY <1>1 DEF HistoryStays
<1> QED
  BY <1>2, OnwardFacts DEF WasSo

\* What a reply says of the events on record stays so.
LEMMA ReplyStays ==
  ASSUME HistoryStays, NEW k, k.req \in Requests, AnswerIsTrue(k), ReplyOK(k)
  PROVE  ReplyOK(k)'
<1> PICK r, body : r = k.req /\ body = k.reply.body
  OBVIOUS
<1> SUFFICES ASSUME k.pc = "replied", k.reply.code = "OK"
             PROVE  /\ IsStatusRequest(r) => StatusBodyOK(body, r)'
                    /\ IsDeviceRequest(r) /\ deviceLog'[body.event].type = "revoked" =>
                         ~Precedes(deviceLog'[body.event].acceptedAt, body.activatedAt)
                    /\ IsIdentityRequest(r) =>
                         body \in IdentityBodies /\ body.event \in DOMAIN actions'
                         /\ ValidStatus(body)'
  BY DEF ReplyOK
<1>1. IsStatusRequest(r) => StatusBodyOK(body, r)'
  BY RequestFields, WasSoStays DEF ReplyOK, StatusBodyOK, IsStatusRequest
<1>2. IsDeviceRequest(r) => body.event \in DOMAIN deviceLog
  BY DEF AnswerIsTrue, EventOf, EventsOf
<1>3. IsDeviceRequest(r) /\ deviceLog'[body.event].type = "revoked" =>
        ~Precedes(deviceLog'[body.event].acceptedAt, body.activatedAt)
  BY <1>2 DEF HistoryStays, ReplyOK
<1>4. IsIdentityRequest(r) => body \in IdentityBodies /\ body.event \in DOMAIN actions'
                              /\ ValidStatus(body)'
  BY DEF HistoryStays, ReplyOK, ValidStatus
<1> QED
  BY <1>1, <1>3, <1>4

\* The answer about an identity row is what the edge expects.
LEMMA IdentityReplyIsOK ==
  ASSUME StoredOK, IdentityRowOK, identity.state # "none", NEW k, k.reply = IdentityReply(identity),
         IsIdentityRequest(k.req)
  PROVE  ReplyOK(k)
<1> PICK body : body = k.reply.body
  OBVIOUS
<1>1. /\ identity \in Rows /\ actions \in Seq(IdentityEvents)
      /\ LifecycleMatchesActions
  BY DEF StoredOK
<1>2. /\ body.state = identity.state /\ body.sequence = identity.sequence
      /\ body.registeredAt = identity.registeredAt /\ body.revokedAt = identity.revokedAt
      /\ body.event = identity.sequence + 1
      /\ body \in IdentityBodies
  BY <1>1 DEF IdentityReply, Succeeded, Rows, IdentityBodies
<1>c. k.reply.code \in Codes
  BY DEF IdentityReply, Succeeded, Codes
<1>3. CASE identity.state = "active"
  <2>1. /\ Len(actions) = 1 /\ identity.sequence = 0 /\ identity.revokedAt = NULL
        /\ actions[1].type = "registered" /\ actions[1].acceptedAt = identity.registeredAt
    BY <1>1, <1>3 DEF LifecycleMatchesActions, IdentityRowOK
  <2>2. ValidStatus(body) /\ body.event \in DOMAIN actions
    BY <1>1, <1>2, <1>3, <2>1 DEF ValidStatus, Precedes
  <2> QED
    BY <1>2, <1>c, <2>2 DEF ReplyOK, IsIdentityRequest
<1>4. CASE identity.state = "revoked"
  <2>1. /\ Len(actions) = 2 /\ identity.sequence = 1 /\ identity.revokedAt # NULL
        /\ actions[2].type = "revoked" /\ actions[2].acceptedAt = identity.revokedAt
        /\ identity.registeredAt <= identity.revokedAt
        /\ actions[1].acceptedAt = identity.registeredAt
    BY <1>1, <1>4 DEF LifecycleMatchesActions, IdentityRowOK
  <2>2. actions[1] \in IdentityEvents /\ actions[2] \in IdentityEvents
    <3>1. \A n \in 1 .. Len(actions) : actions[n] \in IdentityEvents
      BY <1>1
    <3> QED
      BY <2>1, <3>1
  <2>3. identity.registeredAt \in Nat /\ identity.revokedAt \in Nat
    BY <2>1, <2>2 DEF IdentityEvents
  <2>4. ValidStatus(body) /\ body.event \in DOMAIN actions
    BY <1>1, <1>2, <1>4, <2>1, <2>3 DEF ValidStatus, Precedes
  <2> QED
    BY <1>2, <1>c, <2>4 DEF ReplyOK, IsIdentityRequest
<1> QED
  BY <1>1, <1>3, <1>4 DEF Rows

\* The answer about a pair is what the edge expects, as long as the revocation
\* was stamped after the activation.
LEMMA DeviceStatusReplyIsOK ==
  ASSUME StoredOK, WindowsKept, IdentityRowOK, now \in Nat, NEW r \in DeviceStatusRequests,
         DeviceRowOK(r.device, device[r.device]),
         identity.state # "none", NEW k, k.reply = DeviceStatusReply(r.device, r.auth), k.req = r
  PROVE  ReplyOK(k)
<1> PICK s, row : s = k.reply.body /\ row = device[r.device]
  OBVIOUS
<1>0. r.device \in Devices /\ r.auth \in Auths /\ r.auth # NULL /\ r.type = "deviceStatus"
  BY NullAssumption DEF DeviceStatusRequests
<1>1. row \in DeviceRows /\ identity \in Rows /\ LifecycleMatchesActions /\ ledger \in Nat
  BY <1>0 DEF StoredOK
<1>2. /\ s.identityState = identity.state /\ s.identitySequence = identity.sequence
      /\ s.ledgerSequence = ledger
      /\ s.deviceState = EffectiveState(r.device, r.auth)
      /\ s.activatedAt = IF row.auth = r.auth THEN row.activatedAt ELSE NULL
      /\ s.revokedAt = IF identity.state = "revoked" THEN identity.revokedAt
                       ELSE IF row.state = "revoked" THEN row.revokedAt ELSE NULL
      /\ s.expires = IF row.auth = r.auth THEN row.expires ELSE NULL
  BY DEF DeviceStatusReply, Succeeded
<1>3. s \in DeviceStatusBodies
  <2>1. s = [identityState |-> s.identityState, identitySequence |-> s.identitySequence,
             ledgerSequence |-> s.ledgerSequence, deviceState |-> s.deviceState,
             activatedAt |-> s.activatedAt, revokedAt |-> s.revokedAt, expires |-> s.expires]
    BY DEF DeviceStatusReply, Succeeded
  <2>2. /\ identity.state \in {"none", "active", "revoked"} /\ identity.sequence \in {0, 1}
        /\ identity.revokedAt \in Nat \cup {NULL} /\ row.revokedAt \in Nat \cup {NULL}
        /\ row.activatedAt \in Nat \cup {NULL} /\ row.expires \in Nat \cup {NULL}
    BY <1>1 DEF Rows, DeviceRows
  <2> QED
    BY <1>1, <1>2, <2>1, <2>2, EffectiveStates DEF DeviceStatusBodies
<1>4. WasSo(s.deviceState, r)
  BY <1>2, EffectiveStates DEF WasSo, Onward
<1>5. identity.state = "active" <=> identity.sequence = 0
  <2>1. identity.state \in {"active", "revoked"}
    BY <1>1 DEF Rows
  <2> QED
    BY <1>1, <2>1 DEF LifecycleMatchesActions
<1>6. /\ row.state = "absent" => row.auth # r.auth /\ row.auth = NULL
      /\ row.state = "active" => row.expires # NULL /\ row.activatedAt # NULL /\ row.revokedAt = NULL
      /\ row.state = "revoked" => row.revokedAt # NULL
      /\ row.activatedAt # NULL => row.expires # NULL /\ row.activatedAt <= row.expires
      /\ row.state \in {"absent", "active", "revoked"}
      /\ row.activatedAt # NULL => row.activatedAt \in Nat /\ row.expires \in Nat
  BY <1>0, <1>1 DEF DeviceRowOK, NoDevice, DeviceRows
<1>7. identity.state = "revoked" => identity.revokedAt # NULL
  BY DEF IdentityRowOK
<1>8. /\ s.deviceState \in {"active", "expired"} =>
           identity.state # "revoked" /\ row.state = "active" /\ row.auth = r.auth
      /\ s.deviceState = "revoked" => identity.state = "revoked" \/ row.state = "revoked"
      /\ s.deviceState = "unknown" =>
           identity.state # "revoked" /\ row.state # "revoked" /\ row.auth # r.auth
  BY <1>2, <1>6 DEF EffectiveState
<1>9. identity.state \in {"active", "revoked"}
  BY <1>1 DEF Rows
<1>10. ValidDeviceStatus(s) \/ Precedes(s.revokedAt, s.activatedAt)
  BY <1>2, <1>5, <1>6, <1>7, <1>8, <1>9 DEF ValidDeviceStatus, Precedes
<1>11. s.deviceState = "active" => s.expires = ExpiresAt[r.auth]
  BY <1>0, <1>2, <1>8 DEF WindowsKept
<1>12. k.reply.code \in Codes
  BY DEF DeviceStatusReply, Succeeded, Codes
<1> QED
  BY <1>0, <1>3, <1>4, <1>10, <1>11, <1>12
  DEF ReplyOK, StatusBodyOK, IsStatusRequest, IsDeviceRequest, IsIdentityRequest

\* The receipt of a device mutation was made from the row of its device.
MadeFromRow(k) == \E n : k.reply = DeviceReceipt(device[k.req.device], deviceLog, n)

ReceiptsAreOK ==
  \A k : /\ FullInv /\ RowsOK
         /\ k.req \in Requests /\ IsDeviceRequest(k.req)
         /\ AnswerIsTrue(k) /\ MadeFromRow(k)
         => ReplyOK(k)

LEMMA RowReceipts == ReceiptsAreOK
<1> SUFFICES ASSUME FullInv, RowsOK, NEW k, k.req \in Requests, IsDeviceRequest(k.req),
                    AnswerIsTrue(k), MadeFromRow(k)
             PROVE  ReplyOK(k)
  BY DEF ReceiptsAreOK
<1> PICK r, n, row : /\ r = k.req /\ row = device[r.device]
                     /\ k.reply = DeviceReceipt(row, deviceLog, n)
  BY DEF MadeFromRow
<1>0. k.reply.code \in Codes
  BY DEF DeviceReceipt, Failed, Succeeded, Codes
<1> SUFFICES ASSUME k.pc = "replied", k.reply.code = "OK", deviceLog[k.reply.body.event].type = "revoked"
             PROVE  ~Precedes(deviceLog[k.reply.body.event].acceptedAt, k.reply.body.activatedAt)
  BY <1>0 DEF ReplyOK, IsStatusRequest, IsIdentityRequest, IsDeviceRequest
<1>1. n # NULL /\ k.reply.body.event = n
  BY ReceiptNamesEvent
<1>2. k.reply.body.activatedAt = row.activatedAt
  BY <1>1 DEF DeviceReceipt, Failed, Succeeded
<1>3. n \in EventsOf(r.device, "revoked") /\ r.device \in Devices
  BY <1>1, RequestNames DEF AnswerIsTrue, EventOf, EventsOf
<1>4. StoredOK
  BY DEF FullInv, IInv
<1>5. /\ EventsOf(r.device, "revoked") = {row.revocation} \ {NULL}
      /\ row.activation # NULL => deviceLog[row.activation].acceptedAt = row.activatedAt
      /\ row.activation # NULL => row.activation \in EventsOf(r.device, "activated")
      /\ row.activation # NULL /\ row.revocation # NULL => row.activation < row.revocation
  BY <1>3, <1>4, EventsOfRow DEF StoredOK, RowsMatchLog
<1>6. row.activatedAt # NULL => row.activation # NULL
  BY <1>3 DEF RowsOK, DeviceRowOK
<1>7. row.activatedAt # NULL => row.activatedAt <= deviceLog[n].acceptedAt
  <2> SUFFICES ASSUME row.activatedAt # NULL
               PROVE  deviceLog[row.activation].acceptedAt <= deviceLog[n].acceptedAt
    BY <1>5, <1>6
  <2>1. row.activation \in DOMAIN deviceLog /\ n \in DOMAIN deviceLog /\ row.activation < n
    BY <1>3, <1>5, <1>6 DEF EventsOf
  <2> QED
    BY <2>1 DEF FullInv, LogOK, LedgerTimesOrdered
<1>8. deviceLog[n].acceptedAt \in Nat /\ (row.activatedAt # NULL => row.activatedAt \in Nat)
  <2>1. deviceLog[n] \in DeviceEvents /\ row \in DeviceRows
    BY <1>3, <1>4 DEF StoredOK, EventsOf
  <2> QED
    BY <2>1 DEF DeviceEvents, DeviceRows
<1> QED
  BY <1>1, <1>2, <1>7, <1>8 DEF Precedes

IdentityRepliesAreOK ==
  \A k : /\ StoredOK /\ IdentityRowOK /\ identity.state # "none"
         /\ k.reply = IdentityReply(identity) /\ IsIdentityRequest(k.req)
         => ReplyOK(k)

LEMMA IdentityReplies == IdentityRepliesAreOK
BY IdentityReplyIsOK DEF IdentityRepliesAreOK

LEMMA FailuresAreOK ==
  ASSUME NEW k, NEW code \in Codes \ {"OK"}, k.reply = Failed(code)
  PROVE  ReplyOK(k) /\ ReplyOK(k)'
BY DEF ReplyOK, Failed

LEMMA LifecycleReplies ==
  ASSUME RegistryInv, NEW c \in Callers,
         CheckRegistration(c) \/ CommitRegistration(c) \/ VerifyRevocation(c)
           \/ CommitRevocation(c)
  PROVE  /\ IsIdentityRequest(call[c].req) /\ call'[c].req = call[c].req
         /\ \/ call'[c].pc # "replied"
            \/ \E code \in Codes \ {"OK"} : call'[c].reply = Failed(code)
            \/ identity'.state # "none" /\ call'[c].reply = IdentityReply(identity')
<1> PICK r : r = call[c].req
  OBVIOUS
<1>0. IInv /\ LocalsOK(call[c])
  BY DEF RegistryInv, AnswersInv, FullInv, IInv, CallsOK
<1>1. IsIdentityRequest(r)
  BY <1>0 DEF LocalsOK, CheckRegistration, CommitRegistration, VerifyRevocation, CommitRevocation,
              IsIdentityRequest, IsStatusRequest, IsDeviceRequest
<1>2. ASSUME NEW code \in Codes \ {"OK"}, NEW kicks, Answer(c, Failed(code), kicks)
      PROVE  call'[c].req = r /\ call'[c].reply = Failed(code)
  BY <1>0, <1>2, AnswerShape
<1>3. ASSUME Answer(c, IdentityReply(identity'), TRUE)
      PROVE  call'[c].req = r /\ call'[c].reply = IdentityReply(identity')
  BY <1>0, <1>3, AnswerShape
<1>4. ASSUME NEW next, Prepare(c, next)
      PROVE  call'[c].req = r /\ call'[c].pc # "replied"
  BY <1>0, <1>4, PrepareShape
<1>5. CASE CheckRegistration(c)
  <2>1. CASE identity.state # "none" /\ Answer(c, RegistrationReplay(c), TRUE) /\ identity' = identity
    BY <1>1, <1>2, <1>3, <2>1 DEF RegistrationReplay, Codes
  <2> QED
    BY <1>1, <1>4, <1>5, <2>1 DEF CheckRegistration, stored
<1>6. CASE CommitRegistration(c)
  <2>1. CASE identity.state # "none" /\ Answer(c, RegistrationReplay(c), TRUE) /\ identity' = identity
    BY <1>1, <1>2, <1>3, <2>1 DEF RegistrationReplay, Codes
  <2>2. CASE identity.state = "none"
    <3>1. identity' = [state |-> "active", genesis |-> call[c].req.genesis, sequence |-> 0,
                       registeredAt |-> call[c].at, revokedAt |-> NULL]
      BY <1>6, <2>2 DEF CommitRegistration
    <3>2. Answer(c, IdentityReply(identity'), TRUE)
      BY <1>6, <2>2 DEF CommitRegistration
    <3>3. identity'.state # "none"
      BY <3>1
    <3> QED
      BY <1>1, <1>3, <3>2, <3>3
  <2>3. identity.state # "none" => Answer(c, RegistrationReplay(c), TRUE) /\ identity' = identity
    BY <1>6 DEF CommitRegistration, stored
  <2> QED
    BY <2>1, <2>2, <2>3
<1>7. CASE VerifyRevocation(c)
  <2>1. ASSUME NEW code \in RevocationDefect(r, call[c].at), Answer(c, Failed(code), FALSE)
        PROVE  call'[c].req = r /\ \E x \in Codes \ {"OK"} : call'[c].reply = Failed(x)
    <3>1. code \in Codes \ {"OK"}
      BY DEF RevocationDefect, Codes
    <3> QED
      BY <1>2, <2>1, <3>1
  <2> QED
    BY <1>1, <1>4, <1>7, <2>1 DEF VerifyRevocation
<1>8. CASE CommitRevocation(c)
  <2>1. CASE Answer(c, RevocationRace, TRUE) /\ identity' = identity
    BY <1>1, <1>2, <1>3, <2>1 DEF RevocationRace, Codes
  <2>2. CASE identity' = [identity EXCEPT !.state = "revoked", !.sequence = call[c].next,
                                          !.revokedAt = call[c].at]
             /\ Answer(c, IdentityReply(identity'), TRUE)
    <3>1. identity'.state = "revoked"
      BY <1>0, <2>2 DEF IInv, StoredOK, Rows
    <3> QED
      BY <1>1, <1>3, <2>2, <3>1
  <2> QED
    BY <1>8, <2>1, <2>2 DEF CommitRevocation, stored
<1> QED
  BY <1>5, <1>6, <1>7, <1>8

LEMMA DeviceReplies ==
  ASSUME RegistryInv, NEW c \in Callers,
         DecideActivation(c) \/ CommitActivation(c) \/ DecideDeviceRevocation(c)
           \/ CommitDeviceRevocation(c)
  PROVE  /\ IsDeviceRequest(call[c].req) /\ call'[c].req = call[c].req
         /\ \/ call'[c].pc # "replied"
            \/ \E code \in Codes \ {"OK"} : call'[c].reply = Failed(code)
            \/ \E n : call'[c].reply = DeviceReceipt(device'[call[c].req.device], deviceLog', n)
<1> PICK r : r = call[c].req
  OBVIOUS
<1> DEFINE Good == /\ call'[c].req = r
                   /\ \/ call'[c].pc # "replied"
                      \/ \E code \in Codes \ {"OK"} : call'[c].reply = Failed(code)
                      \/ \E n : call'[c].reply = DeviceReceipt(device'[r.device], deviceLog', n)
<1>0. IInv
  BY DEF RegistryInv, AnswersInv, FullInv
<1>1. IsDeviceRequest(r)
  BY DEF DecideActivation, CommitActivation, DecideDeviceRevocation, CommitDeviceRevocation,
         IsDeviceRequest
<1> SUFFICES Good
  BY <1>1
<1>2. ASSUME NEW code \in Codes \ {"OK"}, NEW kicks, Answer(c, Failed(code), kicks) PROVE Good
  BY <1>0, <1>2, AnswerShape
<1>3. ASSUME NEW n, NEW kicks, Answer(c, DeviceReceipt(device'[r.device], deviceLog', n), kicks)
      PROVE  Good
  BY <1>0, <1>3, AnswerShape
<1>4. ASSUME NEW next, Prepare(c, next) PROVE Good
  BY <1>0, <1>4, PrepareShape
<1> HIDE DEF Good
<1>5. CASE DecideActivation(c)
  <2>1. UNCHANGED <<device, deviceLog>>
    BY <1>5 DEF DecideActivation, stored
  <2>2. ActivationDefect(c) \subseteq Codes \ {"OK"}
    BY DEF ActivationDefect, Codes
  <2>3. \/ \E code \in ActivationDefect(c) : Answer(c, Failed(code), FALSE)
        \/ \E n : Answer(c, DeviceReceipt(device[r.device], deviceLog, n), TRUE)
        \/ Prepare(c, ledger + 1)
    BY <1>5 DEF DecideActivation
  <2>4. ASSUME NEW n, Answer(c, DeviceReceipt(device[r.device], deviceLog, n), TRUE) PROVE Good
    BY <1>3, <2>1, <2>4
  <2>5. ASSUME NEW code \in ActivationDefect(c), Answer(c, Failed(code), FALSE) PROVE Good
    BY <1>2, <2>2, <2>5
  <2> QED
    BY <1>4, <2>3, <2>4, <2>5
<1>6. CASE DecideDeviceRevocation(c)
  <2>1. UNCHANGED <<device, deviceLog>>
    BY <1>6 DEF DecideDeviceRevocation, stored
  <2>2. DeviceRevocationDefect(c) \subseteq Codes \ {"OK"}
    BY DEF DeviceRevocationDefect, Codes
  <2>3. \/ \E code \in DeviceRevocationDefect(c) : Answer(c, Failed(code), FALSE)
        \/ \E n : Answer(c, DeviceReceipt(device[r.device], deviceLog, n), TRUE)
        \/ Prepare(c, ledger + 1)
    BY <1>6 DEF DecideDeviceRevocation
  <2>4. ASSUME NEW n, Answer(c, DeviceReceipt(device[r.device], deviceLog, n), TRUE) PROVE Good
    BY <1>3, <2>1, <2>4
  <2>5. ASSUME NEW code \in DeviceRevocationDefect(c), Answer(c, Failed(code), FALSE) PROVE Good
    BY <1>2, <2>2, <2>5
  <2> QED
    BY <1>4, <2>3, <2>4, <2>5
<1>7. ASSUME Answer(c, DeviceRace(c), TRUE), UNCHANGED <<device, deviceLog>> PROVE Good
  <2>1. \/ \E code \in Codes \ {"OK"} : DeviceRace(c) = Failed(code)
        \/ \E n : DeviceRace(c) = DeviceReceipt(device[r.device], deviceLog, n)
    BY DEF DeviceRace, Codes
  <2> QED
    BY <1>2, <1>3, <1>7, <2>1
<1>8. ASSUME NEW row, NEW event, RecordDeviceEvent(c, row, event), event.device = r.device,
             r.device \in Devices
      PROVE  Good
  <2>1. device'[r.device] = row
    BY <1>0, <1>8 DEF RecordDeviceEvent, IInv, StoredOK
  <2> QED
    BY <1>3, <1>8, <2>1 DEF RecordDeviceEvent
<1>9. call[c].pc # "idle" => r.device \in Devices
  BY <1>0, <1>1, RequestNames DEF IInv, CallsOK, LocalsOK
<1>10. CASE CommitActivation(c)
  <2>1. \/ Answer(c, DeviceRace(c), TRUE) /\ UNCHANGED <<device, deviceLog>>
        \/ \E row : RecordDeviceEvent(c, row,
                                      DeviceEvent(c, "activated", r.auth, ExpiresAt[r.auth], NULL))
    BY <1>10 DEF CommitActivation, stored
  <2>2. DeviceEvent(c, "activated", r.auth, ExpiresAt[r.auth], NULL).device = r.device
    BY DEF DeviceEvent
  <2>3. call[c].pc # "idle"
    BY <1>10 DEF CommitActivation
  <2> QED
    BY <1>7, <1>8, <1>9, <2>1, <2>2, <2>3
<1>11. CASE CommitDeviceRevocation(c)
  <2>1. \/ Answer(c, DeviceRace(c), TRUE) /\ UNCHANGED <<device, deviceLog>>
        \/ \E row : RecordDeviceEvent(c, row,
                      DeviceEvent(c, "revoked", RevokedRow(c).auth, RevokedRow(c).expires, RevokedBy(r)))
    BY <1>11 DEF CommitDeviceRevocation, stored
  <2>2. DeviceEvent(c, "revoked", RevokedRow(c).auth, RevokedRow(c).expires, RevokedBy(r)).device
          = r.device
    BY DEF DeviceEvent
  <2>3. call[c].pc # "idle"
    BY <1>11 DEF CommitDeviceRevocation
  <2> QED
    BY <1>7, <1>8, <1>9, <2>1, <2>2, <2>3
<1> QED
  BY <1>5, <1>6, <1>10, <1>11

LEMMA QuietReply ==
  ASSUME NEW k, UNCHANGED <<stored, now>>, ReplyOK(k)
  PROVE  ReplyOK(k)'
<1>1. \A state, r : WasSo(state, r) => WasSo(state, r)'
  BY DEF WasSo, EffectiveState, stored
<1>2. \A s, r : StatusBodyOK(s, r) => StatusBodyOK(s, r)'
  BY <1>1 DEF StatusBodyOK
<1>3. \A body : ValidStatus(body) => ValidStatus(body)'
  BY DEF ValidStatus, stored
<1> QED
  BY <1>2, <1>3 DEF ReplyOK, stored

LEMMA ProceedKeepsReplies ==
  ASSUME RegistryInv, AnswersInv', RowsOK', NEW c \in Callers, Proceed(c)
  PROVE  ReplyOK(call[c])'
<1> PICK k : k = call'[c]
  OBVIOUS
<1>1. FullInv' /\ StoredOK' /\ IdentityRowOK' /\ AnswerIsTrue(k)'
  BY DEF AnswersInv, FullInv, IInv, RowsOK
<1>2. k.pc # "idle" => k.req \in Requests
  BY <1>1 DEF FullInv, IInv, CallsOK, LocalsOK
<1>3. ASSUME NEW code \in Codes \ {"OK"}, k.reply = Failed(code) PROVE ReplyOK(k)'
  BY <1>3, FailuresAreOK
<1>4. ASSUME identity'.state # "none", k.reply = IdentityReply(identity'), IsIdentityRequest(k.req)
      PROVE  ReplyOK(k)'
  <2>1. IdentityRepliesAreOK'
    BY IdentityReplies, PTL
  <2> QED
    BY <1>1, <1>4, <2>1 DEF IdentityRepliesAreOK
<1>5. ASSUME NEW n, k.reply = DeviceReceipt(device'[k.req.device], deviceLog', n),
             IsDeviceRequest(k.req), k.pc = "replied"
      PROVE  ReplyOK(k)'
  <2>1. ReceiptsAreOK'
    BY RowReceipts, PTL
  <2>2. MadeFromRow(k)'
    BY <1>5 DEF MadeFromRow
  <2>3. RowsOK' /\ k.req \in Requests
    BY <1>2, <1>5
  <2> QED
    BY <1>1, <1>5, <2>1, <2>2, <2>3 DEF ReceiptsAreOK
<1>6. k.pc # "replied" => ReplyOK(k)'
  BY DEF ReplyOK
<1>7. ReplyOK(k)'
  BY <1>3, <1>4, <1>5, <1>6, LifecycleReplies, DeviceReplies DEF Proceed
<1> QED
  BY <1>7

LEMMA ArriveKeepsReplies ==
  ASSUME RegistryInv, NEW c \in Callers, NEW r \in Requests, Arrive(c, r)
  PROVE  ReplyOK(call[c])'
<1> PICK k : k = call'[c]
  OBVIOUS
<1>0. /\ IInv /\ StoredOK /\ RowsOK /\ WindowsKept /\ IdentityRowOK /\ now \in Nat
  BY BoundsAssumption DEF RegistryInv, AnswersInv, FullInv, IInv, RowsOK, ClockOK
<1>1. UNCHANGED <<stored, now>>
  BY DEF Arrive, RegisterArrives, RevokeArrives, DeviceRequestArrives, ReadStatus, ReadDeviceStatus
<1>2. k.pc # "replied" => ReplyOK(k)'
  BY DEF ReplyOK
<1>3. ASSUME NEW code \in Codes \ {"OK"}, NEW kicks, AnswerAtOnce(c, r, Failed(code), kicks)
      PROVE  ReplyOK(k)'
  <2>1. k.reply = Failed(code)
    BY <1>0, <1>3, AnswerAtOnceShape
  <2> QED
    BY <2>1, FailuresAreOK
<1>4. ASSUME AnswerAtOnce(c, r, IdentityReply(identity), TRUE), identity.state # "none",
             IsIdentityRequest(r)
      PROVE  ReplyOK(k)'
  <2>1. k.reply = IdentityReply(identity) /\ k.req = r
    BY <1>0, <1>4, AnswerAtOnceShape
  <2>2. ReplyOK(k)
    BY <1>0, <1>4, <2>1, IdentityReplyIsOK
  <2> QED
    BY <1>1, <2>2, QuietReply
<1>5. CASE RegisterArrives(c, r)
  BY <1>0, <1>2, <1>5 DEF RegisterArrives, IdleCall, IInv, CallsOK
<1>6. CASE RevokeArrives(c, r)
  <2>1. CASE call' = [call EXCEPT ![c] = [IdleCall EXCEPT !.pc = "verifying", !.req = r,
                                                          !.seen = identity, !.at = now]]
    BY <1>0, <1>2, <2>1 DEF IdleCall, IInv, CallsOK
  <2>2. IsIdentityRequest(r)
    BY <1>6 DEF RevokeArrives, IsIdentityRequest, IsStatusRequest, IsDeviceRequest
  <2> QED
    BY <1>3, <1>4, <1>6, <2>1, <2>2 DEF RevokeArrives, Codes
<1>7. CASE DeviceRequestArrives(c, r)
  <2>1. CASE call' = [call EXCEPT ![c] = [IdleCall EXCEPT !.pc = "verifying", !.req = r,
                                                          !.seen = identity]]
    BY <1>0, <1>2, <2>1 DEF IdleCall, IInv, CallsOK
  <2> QED
    BY <1>3, <1>7, <2>1 DEF DeviceRequestArrives, Codes
<1>8. CASE ReadStatus(c, r)
  <2>1. IsIdentityRequest(r)
    BY <1>8 DEF ReadStatus, IsIdentityRequest, IsStatusRequest, IsDeviceRequest
  <2> QED
    BY <1>3, <1>4, <1>8, <2>1 DEF ReadStatus, Codes
<1>9. CASE ReadDeviceStatus(c, r)
  <2>1. CASE AnswerAtOnce(c, r, DeviceStatusReply(r.device, r.auth), TRUE) /\ identity.state # "none"
    <3>1. k.reply = DeviceStatusReply(r.device, r.auth) /\ k.req = r
      BY <1>0, <2>1, AnswerAtOnceShape
    <3>2. r \in DeviceStatusRequests /\ r.device \in Devices
      BY <1>9, RequestFields DEF ReadDeviceStatus, DeviceStatusRequests
    <3>3. DeviceRowOK(r.device, device[r.device])
      BY <1>0, <3>2 DEF RowsOK
    <3>4. ReplyOK(k)
      BY <1>0, <2>1, <3>1, <3>2, <3>3, DeviceStatusReplyIsOK
    <3> QED
      BY <1>1, <3>4, QuietReply
  <2> QED
    BY <1>3, <1>9, <2>1 DEF ReadDeviceStatus, Codes
<1>10. ReplyOK(k)'
  BY <1>5, <1>6, <1>7, <1>8, <1>9 DEF Arrive
<1> QED
  BY <1>10

LEMMA SameReply ==
  ASSUME RegistryInv, HistoryStays, NEW x \in Callers, call'[x] = call[x]
  PROVE  ReplyOK(call[x])'
<1> PICK k : k = call[x]
  OBVIOUS
<1>1. k.pc # "idle" => k.req \in Requests
  BY DEF RegistryInv, AnswersInv, FullInv, IInv, CallsOK, LocalsOK
<1>2. AnswerIsTrue(k) /\ ReplyOK(k)
  BY DEF RegistryInv, AnswersInv
<1>3. ReplyOK(k)'
  BY <1>1, <1>2, ReplyStays DEF ReplyOK
<1> QED
  BY <1>3

\* What the registry told and will tell is well formed, in every step of its own.
LEMMA NextKeepsRegistry ==
  ASSUME RegistryInv, Next
  PROVE  RegistryInv' /\ HistoryStays
<1>1. FullInv /\ IInv /\ TimesOK /\ WindowsKept /\ RowsOK
  BY DEF RegistryInv, AnswersInv, FullInv, RowsOK
<1>2. FullInv'
  BY <1>1, NextKeepsIInv, NextKeepsTimes, NextKeepsGate, NextKeepsClaims, NextKeepsLog DEF FullInv
<1>3. AnswersInv'
  BY <1>2, NextKeepsRequested, NextKeepsAnswers DEF RegistryInv, AnswersInv
<1>4. HistoryStays
  BY <1>1, NextStays
<1>5. RowsOK'
  BY <1>1, NextKeepsRows
<1>6. ASSUME NEW x \in Callers PROVE ReplyOK(call[x])'
  <2>1. CASE call'[x] = call[x]
    BY <1>4, <2>1, SameReply DEF RegistryInv
  <2>2. ASSUME NEW c \in Callers, NEW r \in Requests, Arrive(c, r), call'[x] # call[x]
        PROVE  ReplyOK(call[x])'
    <3>1. x = c
      BY <1>1, <2>2, ArriveShape DEF Starts, Returns, Others
    <3> QED
      BY <2>2, <3>1, ArriveKeepsReplies
  <2>3. ASSUME NEW c \in Callers, Proceed(c), call'[x] # call[x]
        PROVE  ReplyOK(call[x])'
    <3>1. x = c
      BY <1>1, <2>3, ProceedShape DEF Prepares, Returns, Registers, RevokesIdentity, RecordsEvent, Others
    <3> QED
      BY <1>3, <1>5, <2>3, <3>1, ProceedKeepsReplies
  <2>4. CASE Restart /\ call'[x] # call[x]
    BY <2>4 DEF Restart, ReplyOK, IdleCall
  <2>5. CASE Tick
    BY <2>1, <2>5 DEF Tick
  <2> QED
    BY <2>1, <2>2, <2>3, <2>4, <2>5 DEF Next
<1> QED
  BY <1>3, <1>4, <1>5, <1>6 DEF RegistryInv

\* The steps of the edge leave the registry alone, but for the note that nothing
\* was kicked.
LEMMA QuietKeepsRegistry ==
  ASSUME RegistryInv, UNCHANGED <<stored, call, gate, now>>, kicked' \in BOOLEAN
  PROVE  RegistryInv' /\ HistoryStays
<1> USE DEF stored
<1>1. StoredOK'
  BY StoredUnchanged DEF RegistryInv, AnswersInv, FullInv, IInv
<1>2. CallsOK' /\ ClockOK' /\ TimesOK'
  BY DEF RegistryInv, AnswersInv, FullInv, IInv, CallsOK, ClockOK, TimesOK
<1>3. GateOK' /\ LogOK'
  BY DEF RegistryInv, AnswersInv, FullInv, GateOK, LogOK, LedgerTimesOrdered, OperationsCommitOnce
<1>4. ClaimsOK'
  BY DEF RegistryInv, AnswersInv, FullInv, ClaimsOK, Claim, CommitsOf
<1>5. EventsWereRequested'
  BY DEF RegistryInv, AnswersInv, EventsWereRequested, EventOf, EventsOf
<1>6. \A c \in Callers : AnswerIsTrue(call[c])'
  BY AnswerUndisturbed DEF RegistryInv, AnswersInv
<1>7. RowsOK'
  BY DEF RegistryInv, RowsOK, WindowsKept, IdentityRowOK, DeviceRowOK, DeviceEventOK
<1>8. HistoryStays
  BY QuietStays DEF RegistryInv, AnswersInv, FullInv
<1>9. \A c \in Callers : ReplyOK(call[c])'
  BY <1>8, SameReply
<1> QED
  BY <1>1, <1>2, <1>3, <1>4, <1>5, <1>6, <1>7, <1>8, <1>9 DEF RegistryInv, AnswersInv, FullInv, IInv

LEMMA InitRegistry == Init => RegistryInv
<1> SUFFICES ASSUME Init PROVE RegistryInv
  OBVIOUS
<1>1. FullInv
  BY InitFullInv
<1>2. EventsWereRequested /\ \A c \in Callers : AnswerIsTrue(call[c]) /\ ReplyOK(call[c])
  BY DEF Init, EventsWereRequested, AnswerIsTrue, IdleCall, ReplyOK
<1>3. RowsOK
  BY DEF Init, RowsOK, WindowsKept, IdentityRowOK, DeviceRowOK, StampOK, NoDevice, NoIdentity, IdleCall
<1> QED
  BY <1>1, <1>2, <1>3 DEF RegistryInv, AnswersInv

-----------------------------------------------------------------------------
(* What the edge signs *)

LEMMA RefusedIsOK ==
  ASSUME NEW code \in (Codes \ {"OK"}) \cup {"NONE", "RATE_LIMITED", "SERVICE_UNAVAILABLE"}
  PROVE  /\ Refused(code) \in Responses /\ Refused(code).code = code
         /\ ResponseOK(Refused(code)) /\ ResponseOK(Refused(code))'
<1>1. Refused(code) = [code |-> code, req |-> NULL, event |-> NULL, state |-> NULL,
                       iat |-> NULL, exp |-> NULL]
  BY DEF Refused, NoResponse
<1>2. code # "OK"
  BY DEF Codes
<1> QED
  BY <1>1, <1>2 DEF Responses, ResponseOK

LEMMA StatementFields ==
  ASSUME NEW r \in Requests, NEW event \in Nat \cup {NULL}, NEW exp \in Nat, now \in Nat,
         NEW state \in {"none", "active", "revoked", "unknown", "expired"},
         NEW s, s = Statement(r, event, state, exp)
  PROVE  /\ s \in Responses
         /\ s.code = "OK" /\ s.req = r /\ s.event = event /\ s.state = state
         /\ s.iat = now /\ s.exp = exp
BY DEF Statement, Responses, Codes

\* What the edge makes of an answer is well formed and true, and it is an
\* internal error in the two named cases only.
SignsWell(c, s) ==
  LET k == call[c] IN
  /\ s \in Responses
  /\ ResponseOK(s)
  /\ s.code = "OK" => s.req = k.req
  /\ IsStatusRequest(k.req) /\ s.code = "OK" =>
       k.reply.code = "OK" /\ s.state \in Onward(k.reply.body.deviceState)
  /\ k.reply.code = "OK" /\ s.code = "INTERNAL_ERROR" =>
       ConvergedElsewhere(c) \/ ActivatedAfterStamp(c)

LEMMA DeviceStatusIsSigned ==
  ASSUME RegistryInv, NEW c \in Callers, call[c].pc = "replied", call[c].reply.code = "OK",
         IsStatusRequest(call[c].req), NEW s, s = SignedDeviceStatus(call[c].req, call[c].reply.body)
  PROVE  SignsWell(c, s)
<1> PICK r, body : r = call[c].req /\ body = call[c].reply.body
  OBVIOUS
<1>1. /\ r \in Requests /\ r \in DeviceStatusRequests /\ r.auth \in Auths /\ r.device \in Devices
      /\ ExpiresAt[r.auth] \in Nat /\ r.auth # NULL
  <2>1. r \in Requests
    BY DEF RegistryInv, AnswersInv, FullInv, IInv, CallsOK, LocalsOK
  <2> QED
    BY <2>1, RequestFields, WindowsAssumption, NullAssumption DEF IsStatusRequest, DeviceStatusRequests
<1>2. StatusBodyOK(body, r)
  BY DEF RegistryInv, ReplyOK
<1>3. now \in Nat /\ now + StatusTtl \in Nat /\ now < now + StatusTtl
  BY BoundsAssumption, TtlAssumption DEF RegistryInv, AnswersInv, FullInv, IInv, ClockOK
<1>4. ~IsDeviceRequest(r) /\ ~IsIdentityRequest(r)
  BY DEF IsStatusRequest, IsDeviceRequest, IsIdentityRequest
<1>5. CASE ~ValidDeviceStatus(body)
  <2>1. s = Refused("INTERNAL_ERROR")
    BY <1>5 DEF SignedDeviceStatus
  <2>2. ActivatedAfterStamp(c)
    BY <1>2, <1>5 DEF ActivatedAfterStamp, IsStatusRequest, StatusBodyOK
  <2>3. s \in Responses /\ ResponseOK(s) /\ s.code # "OK"
    BY <2>1, RefusedIsOK DEF Codes
  <2> QED
    BY <2>2, <2>3 DEF SignsWell
<1>6. ASSUME NEW state \in Onward(body.deviceState), NEW exp \in Nat, WasSo(state, r),
             state = "active" => now < exp /\ exp <= ExpiresAt[r.auth],
             s = Statement(r, NULL, state, exp)
      PROVE  SignsWell(c, s)
  <2>1. state \in {"none", "active", "revoked", "unknown", "expired"}
    BY <1>6 DEF WasSo
  <2>2. /\ s \in Responses /\ s.code = "OK" /\ s.req = r /\ s.state = state
        /\ s.iat = now /\ s.exp = exp
    <3>1. s = [code |-> "OK", req |-> r, event |-> NULL, state |-> state, iat |-> now, exp |-> exp]
      BY <1>6 DEF Statement
    <3> QED
      BY <1>1, <1>3, <2>1, <3>1 DEF Responses, Codes
  <2>3. ResponseOK(s)
    BY <1>1, <1>3, <1>4, <1>6, <2>2 DEF ResponseOK
  <2> QED
    BY <1>6, <2>2, <2>3 DEF SignsWell
<1>7. /\ WasSo(body.deviceState, r)
      /\ body.deviceState \in {"unknown", "active", "expired", "revoked"}
      /\ body.deviceState \in Onward(body.deviceState)
  BY <1>2 DEF StatusBodyOK, WasSo, Onward
<1>8. CASE ValidDeviceStatus(body) /\ body.deviceState # "active"
  <2>1. s = Statement(r, NULL, body.deviceState, now + StatusTtl)
    BY <1>8 DEF SignedDeviceStatus
  <2> QED
    BY <1>3, <1>6, <1>7, <1>8, <2>1
<1>9. CASE ValidDeviceStatus(body) /\ body.deviceState = "active" /\ now >= body.expires
  <2>1. s = Statement(r, NULL, "expired", now + StatusTtl)
    BY <1>9 DEF SignedDeviceStatus
  <2>2. now >= ExpiresAt[r.auth]
    BY <1>2, <1>9 DEF StatusBodyOK
  <2>3. EffectiveState(r.device, r.auth) # "active"
    <3>1. WindowsKept
      BY DEF RegistryInv, RowsOK
    <3>2. device[r.device].auth = r.auth => device[r.device].expires = ExpiresAt[r.auth]
      BY <1>1, <3>1 DEF WindowsKept
    <3> QED
      BY <1>1, <1>3, <2>2, <3>2 DEF EffectiveState
  <2>4. WasSo("expired", r) /\ "expired" \in Onward(body.deviceState)
    BY <1>7, <1>9, <2>3, EffectiveStates DEF WasSo, Onward
  <2> QED
    BY <1>3, <1>6, <2>1, <2>4
<1>10. CASE ValidDeviceStatus(body) /\ body.deviceState = "active" /\ ~(now >= body.expires)
  <2>1. PICK exp : /\ exp = IF now + StatusTtl < body.expires THEN now + StatusTtl ELSE body.expires
                   /\ s = Statement(r, NULL, "active", exp)
    BY <1>10 DEF SignedDeviceStatus
  <2>2. body.expires = ExpiresAt[r.auth]
    BY <1>2, <1>10 DEF StatusBodyOK
  <2>3. exp \in Nat /\ now < exp /\ exp <= ExpiresAt[r.auth]
    BY <1>1, <1>3, <1>10, <2>1, <2>2
  <2>4. "active" \in Onward(body.deviceState) /\ WasSo("active", r)
    BY <1>7, <1>10
  <2> QED
    BY <1>6, <2>1, <2>3, <2>4
<1> QED
  BY <1>5, <1>8, <1>9, <1>10

LEMMA DeviceMutationIsSigned ==
  ASSUME RegistryInv, NEW c \in Callers, call[c].pc = "replied", call[c].reply.code = "OK",
         IsDeviceRequest(call[c].req),
         NEW s, s = SignedDeviceMutation(call[c].req, call[c].reply.body)
  PROVE  SignsWell(c, s)
<1> PICK r, body, n : r = call[c].req /\ body = call[c].reply.body /\ n = body.event
  OBVIOUS
<1>0. ~IsStatusRequest(r) /\ ~IsIdentityRequest(r)
  BY DEF IsStatusRequest, IsDeviceRequest, IsIdentityRequest
<1>1. r \in Requests
  BY DEF RegistryInv, AnswersInv, FullInv, IInv, CallsOK, LocalsOK
<1>2. EventOf(n, r)
  BY DEF RegistryInv, AnswersInv, AnswerIsTrue
<1>3. /\ n \in DOMAIN deviceLog /\ n \in Nat
      /\ deviceLog[n].device = r.device /\ deviceLog[n].type = EventType(r)
      /\ r.type = "activate" => deviceLog[n].auth = r.auth
  <2>1. deviceLog \in Seq(DeviceEvents)
    BY DEF RegistryInv, AnswersInv, FullInv, IInv, StoredOK
  <2> QED
    BY <1>2, <2>1 DEF EventOf, EventsOf
<1>4. DeviceEventOK(deviceLog[n])
  BY <1>3 DEF RegistryInv, RowsOK
<1>5. deviceLog[n].type = "revoked" => ~Precedes(deviceLog[n].acceptedAt, body.activatedAt)
  BY DEF RegistryInv, ReplyOK
<1>6. deviceLog[n].type = "activated" => deviceLog[n].expires # NULL
  <2>1. deviceLog[n].auth \in Auths \cup {NULL}
    <3>1. deviceLog \in Seq(DeviceEvents)
      BY DEF RegistryInv, AnswersInv, FullInv, IInv, StoredOK
    <3>2. deviceLog[n] \in DeviceEvents
      BY <1>3, <3>1
    <3> QED
      BY <3>2 DEF DeviceEvents
  <2>2. \A a \in Auths : ExpiresAt[a] # NULL
    BY WindowsAssumption, NullAssumption
  <2> QED
    BY <1>4, <2>1, <2>2 DEF DeviceEventOK
<1>7. CASE ValidDeviceMutation(r, body)
  <2>1. s = Receipt(r, n)
    BY <1>7 DEF SignedDeviceMutation
  <2>2. s \in Responses /\ s.code = "OK" /\ s.req = r /\ s.event = n
    BY <1>1, <1>3, <2>1 DEF Receipt, NoResponse, Responses, Codes
  <2>3. r.auth # NULL => deviceLog[n].auth = r.auth
    BY <1>7 DEF ValidDeviceMutation
  <2>4. ResponseOK(s)
    BY <1>0, <1>1, <1>2, <2>2, <2>3 DEF ResponseOK
  <2> QED
    BY <1>0, <2>2, <2>4 DEF SignsWell
<1>8. CASE ~ValidDeviceMutation(r, body)
  <2>1. s = Refused("INTERNAL_ERROR")
    BY <1>8 DEF SignedDeviceMutation
  <2>2. s \in Responses /\ ResponseOK(s) /\ s.code # "OK"
    BY <2>1, RefusedIsOK DEF Codes
  <2>3. r.auth # NULL /\ deviceLog[n].auth # r.auth
    <3>1. deviceLog[n].type \in {"activated", "revoked"}
      BY <1>3 DEF EventType
    <3> QED
      BY <1>3, <1>4, <1>5, <1>6, <1>8, <3>1, NullAssumption DEF ValidDeviceMutation, DeviceEventOK
  <2>4. r.type = "revokeSelf"
    BY <1>1, <1>3, <2>3, RequestNames DEF IsDeviceRequest
  <2> QED
    BY <1>0, <2>2, <2>3, <2>4 DEF SignsWell, ConvergedElsewhere
<1> QED
  BY <1>7, <1>8

LEMMA IdentityStatusIsSigned ==
  ASSUME RegistryInv, NEW c \in Callers, call[c].pc = "replied", call[c].reply.code = "OK",
         IsIdentityRequest(call[c].req), NEW s, s = SignedStatus(call[c].req, call[c].reply.body)
  PROVE  SignsWell(c, s)
<1> PICK r, body : r = call[c].req /\ body = call[c].reply.body
  OBVIOUS
<1>1. r \in Requests
  BY DEF RegistryInv, AnswersInv, FullInv, IInv, CallsOK, LocalsOK
<1>2. body \in IdentityBodies /\ body.event \in DOMAIN actions /\ ValidStatus(body)
  BY DEF RegistryInv, ReplyOK
<1>3. now \in Nat /\ now + StatusTtl \in Nat
  BY BoundsAssumption, TtlAssumption DEF RegistryInv, AnswersInv, FullInv, IInv, ClockOK
<1>4. s = Statement(r, body.event, body.state, now + StatusTtl)
  BY <1>2 DEF SignedStatus
<1>5. body.event \in Nat /\ body.state \in {"none", "active", "revoked", "unknown", "expired"}
  BY <1>2 DEF IdentityBodies
<1>6. s \in Responses /\ s.code = "OK" /\ s.req = r /\ s.event = body.event
  <2>1. PICK event, state, exp : event = body.event /\ state = body.state /\ exp = now + StatusTtl
    OBVIOUS
  <2>2. /\ event \in Nat \cup {NULL} /\ exp \in Nat /\ now \in Nat /\ s = Statement(r, event, state, exp)
        /\ state \in {"none", "active", "revoked", "unknown", "expired"}
    BY <1>3, <1>4, <1>5, <2>1
  <2>3. s \in Responses /\ s.code = "OK" /\ s.req = r /\ s.event = event
    BY <1>1, <2>2, StatementFields
  <2> QED
    BY <2>1, <2>3
<1>7. IsIdentityRevocation(r) => body.event = 2
  <2> SUFFICES ASSUME IsIdentityRevocation(r) PROVE body.event = 2
    OBVIOUS
  <2>1. identity.state = "revoked" /\ call[c].reply = IdentityReply(identity)
    BY DEF RegistryInv, AnswersInv, AnswerIsTrue
  <2>2. identity.sequence = 1
    <3>1. LifecycleMatchesActions
      BY DEF RegistryInv, AnswersInv, FullInv, IInv, StoredOK
    <3> QED
      BY <2>1, <3>1 DEF LifecycleMatchesActions
  <2> QED
    BY <2>1, <2>2 DEF IdentityReply, Succeeded
<1>8. ResponseOK(s)
  BY <1>1, <1>2, <1>6, <1>7 DEF ResponseOK, IsIdentityRequest
<1> QED
  BY <1>6, <1>8 DEF SignsWell, IsIdentityRequest

LEMMA SignedWell ==
  ASSUME RegistryInv, NEW c \in Callers, call[c].pc = "replied",
         NEW s, s = Signed(call[c].req, call[c].reply)
  PROVE  SignsWell(c, s)
<1> PICK r, reply : r = call[c].req /\ reply = call[c].reply
  OBVIOUS
<1>1. CASE reply.code # "OK"
  <2>1. reply.code \in Codes
    BY DEF RegistryInv, ReplyOK
  <2>2. s = Refused(reply.code)
    BY <1>1 DEF Signed
  <2>3. s \in Responses /\ ResponseOK(s) /\ s.code # "OK"
    BY <1>1, <2>1, <2>2, RefusedIsOK
  <2> QED
    BY <1>1, <2>3 DEF SignsWell
<1>2. CASE reply.code = "OK" /\ IsStatusRequest(r)
  <2>1. s = SignedDeviceStatus(r, reply.body)
    BY <1>2 DEF Signed, IsStatusRequest, IsDeviceRequest
  <2> QED
    BY <1>2, <2>1, DeviceStatusIsSigned
<1>3. CASE reply.code = "OK" /\ IsDeviceRequest(r)
  <2>1. s = SignedDeviceMutation(r, reply.body)
    BY <1>3 DEF Signed, IsDeviceRequest
  <2> QED
    BY <1>3, <2>1, DeviceMutationIsSigned
<1>4. CASE reply.code = "OK" /\ IsIdentityRequest(r)
  <2>1. s = SignedStatus(r, reply.body)
    BY <1>4 DEF Signed, IsIdentityRequest, IsStatusRequest
  <2> QED
    BY <1>4, <2>1, IdentityStatusIsSigned
<1> QED
  BY <1>1, <1>2, <1>3, <1>4 DEF IsIdentityRequest

-----------------------------------------------------------------------------
(* The exchanges *)

\* What a client was told stays true.
LEMMA ResponseStays ==
  ASSUME RegistryInv, RegistryInv', HistoryStays, NEW s, ResponseOK(s)
  PROVE  ResponseOK(s)'
<1> PICK r : r = s.req
  OBVIOUS
<1> SUFFICES ASSUME s.code = "OK"
             PROVE  /\ IsStatusRequest(r) =>
                         /\ WasSo(s.state, r)'
                         /\ s.iat \in Nat /\ s.exp \in Nat /\ s.iat <= now'
                         /\ s.state = "active" => s.iat < s.exp /\ s.exp <= ExpiresAt[r.auth]
                    /\ IsDeviceRequest(r) =>
                         /\ EventOf(s.event, r)'
                         /\ r.auth # NULL => deviceLog'[s.event].auth = r.auth
                    /\ IsIdentityRequest(r) =>
                         /\ s.event \in DOMAIN actions'
                         /\ IsIdentityRevocation(r) => s.event = 2
  BY DEF ResponseOK
<1>1. now \in Nat /\ now' \in Nat /\ now <= now'
  BY BoundsAssumption DEF RegistryInv, AnswersInv, FullInv, IInv, ClockOK, HistoryStays
<1>2. ASSUME IsStatusRequest(r) PROVE WasSo(s.state, r)' /\ s.iat \in Nat /\ s.iat <= now'
  <2>1. r \in DeviceStatusRequests /\ WasSo(s.state, r)
    BY <1>2, RequestFields DEF ResponseOK, IsStatusRequest
  <2>2. WasSo(s.state, r)'
    BY <2>1, WasSoStays
  <2> QED
    BY <1>1, <1>2, <2>2 DEF ResponseOK
<1>3. IsDeviceRequest(r) =>
        EventOf(s.event, r)' /\ (r.auth # NULL => deviceLog'[s.event].auth = r.auth)
  BY DEF ResponseOK, EventOf, EventsOf, HistoryStays
<1>4. IsIdentityRequest(r) => s.event \in DOMAIN actions'
  BY DEF ResponseOK, HistoryStays
<1> QED
  BY <1>2, <1>3, <1>4 DEF ResponseOK

LEMMA ExchangeUndisturbed ==
  ASSUME RegistryInv, RegistryInv', HistoryStays, NEW x \in Callers, ExchangeOK(x),
         call'[x] = call[x], response'[x] = response[x], x \in open' <=> x \in open
  PROVE  ExchangeOK(x)'
<1>1. ResponseOK(response[x])'
  <2>1. PICK s : s = response[x]
    OBVIOUS
  <2>2. ResponseOK(s)'
    BY <2>1, ResponseStays DEF ExchangeOK
  <2> QED
    BY <2>1, <2>2
<1>2. (InFlight(x) => x \in open)'
  BY DEF ExchangeOK, InFlight
<1>3. MovesOn(x)'
  BY DEF ExchangeOK, MovesOn
<1>4. Serves(x)'
  <2>1. CASE Answered(x) /\ IsDeviceRequest(call[x].req)
    <3>1. call[x].reply.body.event \in DOMAIN deviceLog
      BY <2>1 DEF Answered, RegistryInv, AnswersInv, AnswerIsTrue, EventOf, EventsOf
    <3>2. deviceLog'[call[x].reply.body.event] = deviceLog[call[x].reply.body.event]
      BY <3>1 DEF HistoryStays
    <3> QED
      BY <3>2 DEF ExchangeOK, Serves, Answered, ConvergedElsewhere, ActivatedAfterStamp
  <2>2. CASE ~IsDeviceRequest(call[x].req)
    BY <2>2 DEF ExchangeOK, Serves, Answered, ConvergedElsewhere, ActivatedAfterStamp, IsDeviceRequest
  <2> QED
    BY <2>1, <2>2 DEF Serves, Answered
<1> QED
  BY <1>1, <1>2, <1>3, <1>4 DEF ExchangeOK

\* An exchange that is closed without an answer of the registry's is in order.
LEMMA ExchangeIsRefused ==
  ASSUME NEW x \in Callers, NEW code \in {"RATE_LIMITED", "SERVICE_UNAVAILABLE", "INTERNAL_ERROR"},
         response'[x] = Refused(code), x \notin open', ~InFlight(x)',
         code # "INTERNAL_ERROR" \/ call'[x].pc # "replied"
  PROVE  ExchangeOK(x)'
<1>1. Refused(code).code = code /\ ResponseOK(Refused(code))'
  BY RefusedIsOK DEF Codes
<1>2. ResponseOK(response[x])'
  BY <1>1
<1> QED
  BY <1>1, <1>2 DEF ExchangeOK, MovesOn, Serves, Answered

LEMMA ForwardKeepsEdge ==
  ASSUME EdgeInv, NEW c \in Callers, NEW r \in Requests, Forward(c, r)
  PROVE  EdgeInv'
<1>1. Next
  BY DEF Forward, Next
<1>2. RegistryInv' /\ HistoryStays
  BY <1>1, NextKeepsRegistry DEF EdgeInv
<1>3. EdgeTypeOK'
  BY DEF EdgeInv, EdgeTypeOK, Forward
<1>4. (Starts(c) \/ Returns(c)) /\ UNCHANGED <<stored, now>>
  BY ArriveShape DEF Forward, EdgeInv, RegistryInv, AnswersInv, FullInv, Starts, Returns
<1>5. ASSUME NEW x \in Callers, x # c PROVE ExchangeOK(x)'
  BY <1>2, <1>4, <1>5, ExchangeUndisturbed DEF EdgeInv, Forward, Starts, Returns, Others
<1>6. ExchangeOK(c)'
  <2>1. ResponseOK(response[c])'
    <3>1. PICK s : s = response[c]
      OBVIOUS
    <3>2. ResponseOK(s)'
      BY <1>2, <3>1, ResponseStays DEF EdgeInv, ExchangeOK
    <3> QED
      BY <3>1, <3>2 DEF Forward
  <2>2. c \in open'
    BY DEF Forward
  <2>3. ASSUME call'[c].pc = "replied", call'[c].reply.code = "OK", IsStatusRequest(call'[c].req),
               response[c].code = "OK", response[c].req = call'[c].req
        PROVE  call'[c].reply.body.deviceState \in Onward(response[c].state)
    <3>1. call' = [call EXCEPT ![c] = [IdleCall EXCEPT !.pc = "replied", !.req = r,
                                                 !.reply = DeviceStatusReply(r.device, r.auth)]]
      <4>1. c \in DOMAIN call
        BY DEF EdgeInv, RegistryInv, AnswersInv, FullInv, IInv, CallsOK
      <4>2. RegisterArrives(c, r) => call'[c].pc = "arrived"
        BY <4>1 DEF RegisterArrives, IdleCall
      <4>3. DeviceRequestArrives(c, r) => call'[c].req = r /\ ~IsStatusRequest(r)
        BY <4>1 DEF DeviceRequestArrives, AnswerAtOnce, IdleCall, IsStatusRequest
      <4>4. RevokeArrives(c, r) \/ ReadStatus(c, r) => call'[c].req = r /\ ~IsStatusRequest(r)
        BY <4>1 DEF RevokeArrives, ReadStatus, AnswerAtOnce, IdleCall, IsStatusRequest
      <4>5. ReadDeviceStatus(c, r)
        BY <2>3, <4>2, <4>3, <4>4 DEF Forward, Arrive
      <4>6. ~AnswerAtOnce(c, r, Failed("IDENTITY_NOT_FOUND"), FALSE)
        <5>1. Failed("IDENTITY_NOT_FOUND").code # "OK"
          BY DEF Failed
        <5> QED
          BY <2>3, <5>1, AnswerAtOnceShape DEF EdgeInv, RegistryInv, AnswersInv, FullInv
      <4> QED
        BY <4>5, <4>6 DEF ReadDeviceStatus, AnswerAtOnce
    <3>2. call'[c].req = r /\ call'[c].reply = DeviceStatusReply(r.device, r.auth)
      BY <3>1 DEF IdleCall, EdgeInv, RegistryInv, AnswersInv, FullInv, IInv, CallsOK
    <3>3. call'[c].reply.body.deviceState = EffectiveState(r.device, r.auth)
      BY <3>2 DEF DeviceStatusReply, Succeeded
    <3>4. WasSo(response[c].state, r)
      BY <2>3, <3>2 DEF EdgeInv, ExchangeOK, ResponseOK
    <3> QED
      BY <3>3, <3>4 DEF WasSo
  <2> QED
    BY <2>1, <2>2, <2>3 DEF ExchangeOK, MovesOn, Serves, Answered, Forward
<1> QED
  BY <1>2, <1>3, <1>5, <1>6 DEF EdgeInv

LEMMA ProceedKeepsEdge ==
  ASSUME EdgeInv, NEW c \in Callers, Proceed(c), UNCHANGED <<open, response>>
  PROVE  EdgeInv'
<1>1. RegistryInv' /\ HistoryStays
  BY NextKeepsRegistry DEF EdgeInv, Next
<1>2. EdgeTypeOK'
  BY DEF EdgeInv, EdgeTypeOK
<1>3. Others(c)
  BY ProceedShape
  DEF EdgeInv, RegistryInv, AnswersInv, FullInv, Prepares, Returns, Registers, RevokesIdentity,
      RecordsEvent
<1>4. ASSUME NEW x \in Callers, x # c PROVE ExchangeOK(x)'
  BY <1>1, <1>3, <1>4, ExchangeUndisturbed DEF EdgeInv, Others
<1>5. ExchangeOK(c)'
  <2>1. ResponseOK(response[c])'
    <3>1. PICK s : s = response[c]
      OBVIOUS
    <3>2. ResponseOK(s)'
      BY <1>1, <3>1, ResponseStays DEF EdgeInv, ExchangeOK
    <3>3. response'[c] = s
      BY <3>1
    <3> QED
      BY <3>2, <3>3
  <2>2. call[c].pc \in {"arrived", "verifying", "committing"}
    BY DEF Proceed, CheckRegistration, CommitRegistration, VerifyRevocation, CommitRevocation,
           DecideActivation, CommitActivation, DecideDeviceRevocation, CommitDeviceRevocation
  <2>3. c \in open
    BY <2>2 DEF EdgeInv, ExchangeOK, InFlight
  <2>4. ~IsStatusRequest(call[c].req)
    BY DEF Proceed, CheckRegistration, CommitRegistration, VerifyRevocation, CommitRevocation,
           DecideActivation, CommitActivation, DecideDeviceRevocation, CommitDeviceRevocation,
           IsStatusRequest, EdgeInv, RegistryInv, AnswersInv, FullInv, IInv, CallsOK, LocalsOK
  <2>5. call'[c].pc = "replied" => call'[c].req = call[c].req
    <3>1. ASSUME NEW reply, NEW kicks, Answer(c, reply, kicks) PROVE call'[c].req = call[c].req
      BY <3>1, AnswerShape DEF EdgeInv, RegistryInv, AnswersInv, FullInv
    <3>2. ASSUME NEW next, Prepare(c, next) PROVE call'[c].req = call[c].req
      BY <3>2, PrepareShape DEF EdgeInv, RegistryInv, AnswersInv, FullInv
    <3> QED
      BY <3>1, <3>2
      DEF Proceed, CheckRegistration, CommitRegistration, VerifyRevocation, CommitRevocation,
          DecideActivation, CommitActivation, DecideDeviceRevocation, CommitDeviceRevocation,
          RecordDeviceEvent
  <2> QED
    BY <2>1, <2>3, <2>4, <2>5 DEF ExchangeOK, MovesOn, Serves, Answered
<1> QED
  BY <1>1, <1>2, <1>4, <1>5 DEF EdgeInv

\* An exchange that is closed without the registry taking part.
LEMMA ClosingKeepsEdge ==
  ASSUME EdgeInv, EdgeTypeOK', NEW c \in Callers, ExchangeOK(c)',
         open' \in {open, open \ {c}}, \A x \in Callers : x # c => response'[x] = response[x],
         UNCHANGED <<stored, call, gate, now>>, kicked' \in BOOLEAN
  PROVE  EdgeInv'
<1>1. RegistryInv' /\ HistoryStays
  BY QuietKeepsRegistry DEF EdgeInv
<1>2. ASSUME NEW x \in Callers, x # c PROVE ExchangeOK(x)'
  BY <1>1, <1>2, ExchangeUndisturbed DEF EdgeInv
<1> QED
  BY <1>1, <1>2 DEF EdgeInv

LEMMA TurnAwayKeepsEdge ==
  ASSUME EdgeInv, NEW c \in Callers, TurnAway(c)
  PROVE  EdgeInv'
<1>1. PICK code \in {"RATE_LIMITED", "SERVICE_UNAVAILABLE"} :
        response' = [response EXCEPT ![c] = Refused(code)]
  BY DEF TurnAway
<1>2. open \subseteq Callers /\ response \in [Callers -> Responses]
  BY DEF EdgeInv, EdgeTypeOK
<1>3. /\ response'[c] = Refused(code)
      /\ \A x \in Callers : x # c => response'[x] = response[x]
  BY <1>1, <1>2
<1>4. ~InFlight(c)'
  BY DEF TurnAway, EdgeInv, ExchangeOK, InFlight
<1>5. ExchangeOK(c)'
  BY <1>3, <1>4, ExchangeIsRefused DEF TurnAway
<1>6. EdgeTypeOK'
  BY <1>1, <1>2, RefusedIsOK DEF EdgeTypeOK, TurnAway
<1> QED
  BY <1>3, <1>5, <1>6, ClosingKeepsEdge DEF TurnAway

LEMMA LoseReplyKeepsEdge ==
  ASSUME EdgeInv, NEW c \in Callers, LoseReply(c)
  PROVE  EdgeInv'
<1>1. open \subseteq Callers /\ response \in [Callers -> Responses]
  BY DEF EdgeInv, EdgeTypeOK
<1>2. /\ response'[c] = Refused("SERVICE_UNAVAILABLE")
      /\ \A x \in Callers : x # c => response'[x] = response[x]
      /\ open' = open \ {c}
  BY <1>1 DEF LoseReply, Close
<1>3. ~InFlight(c)'
  BY DEF LoseReply, InFlight
<1>4. ExchangeOK(c)'
  BY <1>2, <1>3, ExchangeIsRefused
<1>5. EdgeTypeOK'
  BY <1>1, RefusedIsOK DEF EdgeTypeOK, LoseReply, Close
<1> QED
  BY <1>2, <1>4, <1>5, ClosingKeepsEdge DEF LoseReply

LEMMA RespondKeepsEdge ==
  ASSUME EdgeInv, NEW c \in Callers, Respond(c)
  PROVE  EdgeInv'
<1>1. open \subseteq Callers /\ response \in [Callers -> Responses]
  BY DEF EdgeInv, EdgeTypeOK
<1>2. PICK s : s = Signed(call[c].req, call[c].reply)
  OBVIOUS
<1>3. /\ response'[c] = s
      /\ \A x \in Callers : x # c => response'[x] = response[x]
      /\ open' = open \ {c}
  BY <1>1, <1>2 DEF Respond, Close
<1>4. SignsWell(c, s)
  BY <1>2, SignedWell DEF Respond, EdgeInv
<1>5. RegistryInv' /\ HistoryStays
  BY QuietKeepsRegistry DEF EdgeInv, Respond
<1>6. ResponseOK(response[c])'
  <2>1. ResponseOK(s)'
    BY <1>4, <1>5, ResponseStays DEF EdgeInv, SignsWell
  <2> QED
    BY <1>3, <2>1
<1>7. Serves(c)'
  BY <1>3, <1>4 DEF Serves, SignsWell, Answered, ConvergedElsewhere, ActivatedAfterStamp, Respond, stored
<1>8. ExchangeOK(c)'
  BY <1>3, <1>6, <1>7 DEF ExchangeOK, MovesOn, InFlight, Respond
<1>9. EdgeTypeOK'
  BY <1>1, <1>2, <1>4 DEF EdgeTypeOK, Respond, Close, SignsWell
<1> QED
  BY <1>3, <1>8, <1>9, ClosingKeepsEdge DEF Respond

LEMMA RestartKeepsEdge ==
  ASSUME EdgeInv, EdgeRestart
  PROVE  EdgeInv'
<1>1. RegistryInv' /\ HistoryStays
  BY NextKeepsRegistry DEF EdgeInv, EdgeRestart, Next
<1>2. PICK lost : /\ lost = {c \in open : call[c].pc # "replied"}
                  /\ open' = open \ lost
                  /\ response' = [c \in Callers |-> IF c \in lost THEN Refused("INTERNAL_ERROR")
                                                                  ELSE response[c]]
  BY DEF EdgeRestart
<1>3. EdgeTypeOK'
  BY <1>2, RefusedIsOK DEF EdgeInv, EdgeTypeOK, Codes
<1>4. call' = [c \in Callers |-> IF call[c].pc = "replied" THEN call[c] ELSE IdleCall]
  BY DEF EdgeRestart, Restart
<1>5. ASSUME NEW x \in Callers PROVE ExchangeOK(x)'
  <2>1. CASE x \in lost
    <3>1. call'[x].pc = "idle"
      BY <1>2, <1>4, <2>1 DEF IdleCall
    <3> QED
      BY <1>2, <2>1, <3>1, ExchangeIsRefused DEF InFlight
  <2>2. CASE x \notin lost /\ call[x].pc = "replied"
    BY <1>1, <1>2, <1>4, <2>2, ExchangeUndisturbed DEF EdgeInv
  <2>3. CASE x \notin lost /\ call[x].pc # "replied"
    <3>1. call'[x].pc = "idle" /\ response'[x] = response[x]
      BY <1>2, <1>4, <2>3 DEF IdleCall
    <3>2. PICK s : s = response[x]
      OBVIOUS
    <3>3. ResponseOK(s)'
      BY <1>1, <3>2, ResponseStays DEF EdgeInv, ExchangeOK
    <3>4. ResponseOK(response[x])'
      BY <3>1, <3>2, <3>3
    <3> QED
      BY <3>1, <3>4 DEF ExchangeOK, InFlight, MovesOn, Serves, Answered
  <2> QED
    BY <2>1, <2>2, <2>3
<1> QED
  BY <1>1, <1>3, <1>5 DEF EdgeInv

LEMMA TickKeepsEdge ==
  ASSUME EdgeInv, Tick, UNCHANGED <<open, response>>
  PROVE  EdgeInv'
<1>1. RegistryInv' /\ HistoryStays
  BY NextKeepsRegistry DEF EdgeInv, Next
<1>2. EdgeTypeOK'
  BY DEF EdgeInv, EdgeTypeOK
<1>3. ASSUME NEW x \in Callers PROVE ExchangeOK(x)'
  BY <1>1, ExchangeUndisturbed DEF EdgeInv, Tick
<1> QED
  BY <1>1, <1>2, <1>3 DEF EdgeInv

LEMMA InitEdge == EdgeInit => EdgeInv
<1> SUFFICES ASSUME EdgeInit PROVE EdgeInv
  OBVIOUS
<1>1. RegistryInv
  BY InitRegistry DEF EdgeInit
<1>2. NoResponse \in Responses /\ NoResponse.code # "OK" /\ NoResponse.code # "INTERNAL_ERROR"
  BY DEF NoResponse, Responses
<1>3. EdgeTypeOK
  BY <1>2 DEF EdgeInit, EdgeTypeOK
<1>4. ASSUME NEW c \in Callers PROVE ExchangeOK(c)
  <2>1. response[c] = NoResponse /\ call[c] = IdleCall
    BY DEF EdgeInit, Init
  <2>2. call[c].pc = "idle"
    BY <2>1 DEF IdleCall
  <2> QED
    BY <1>2, <2>1, <2>2 DEF ExchangeOK, ResponseOK, InFlight, MovesOn, Serves, Answered
<1> QED
  BY <1>1, <1>3, <1>4 DEF EdgeInv

LEMMA EdgeStep ==
  ASSUME EdgeInv, [EdgeNext]_edgeVars
  PROVE  EdgeInv'
<1>1. CASE UNCHANGED edgeVars
  <2>1. UNCHANGED <<stored, call, gate, kicked, now, open, response>>
    BY <1>1 DEF edgeVars, vars, stored
  <2>2. kicked' \in BOOLEAN
    BY <2>1 DEF EdgeInv, RegistryInv, AnswersInv, FullInv, IInv, CallsOK
  <2>3. RegistryInv' /\ HistoryStays
    BY <2>1, <2>2, QuietKeepsRegistry DEF EdgeInv
  <2>4. EdgeTypeOK'
    BY <2>1 DEF EdgeInv, EdgeTypeOK
  <2>5. ASSUME NEW x \in Callers PROVE ExchangeOK(x)'
    BY <2>1, <2>3, ExchangeUndisturbed DEF EdgeInv
  <2> QED
    BY <2>3, <2>4, <2>5 DEF EdgeInv
<1>2. CASE EdgeNext
  BY <1>2, ForwardKeepsEdge, TurnAwayKeepsEdge, RespondKeepsEdge, LoseReplyKeepsEdge,
     ProceedKeepsEdge, RestartKeepsEdge, TickKeepsEdge DEF EdgeNext
<1> QED
  BY <1>1, <1>2

\* EdgeApi: EdgeInv is an invariant. The registry's own invariants hold behind
\* the edge; what waits at the edge and what lies with a client is true of the
\* registry's records now, and on its way a status overtakes none.
THEOREM EdgeInvHolds == EdgeSpec => []EdgeInv
<1>1. EdgeInv /\ [EdgeNext]_edgeVars => EdgeInv'
  BY EdgeStep
<1> QED
  BY InitEdge, <1>1, PTL DEF EdgeSpec

-----------------------------------------------------------------------------
(* The theorems about the edge *)

\* The receipts of two clients that asked for the same are of one event: a
\* device is activated once and revoked once.
LEMMA OneEventOfAKind ==
  ASSUME EdgeInv, NEW r \in Requests, IsDeviceRequest(r), NEW m, NEW n, EventOf(m, r), EventOf(n, r)
  PROVE  m = n
<1>1. r.device \in Devices /\ EventType(r) \in {"activated", "revoked"}
  BY RequestFields DEF DeviceRequests, EventType
<1>2. RowsMatchLog
  BY DEF EdgeInv, RegistryInv, AnswersInv, FullInv, IInv, StoredOK
<1>3. \E k : EventsOf(r.device, EventType(r)) \subseteq {k}
  BY <1>1, <1>2 DEF RowsMatchLog
<1> QED
  BY <1>3 DEF EventOf

\* EdgeApi: ReceiptsAnswerTheRequest is an invariant. A receipt is of an event
\* about the device, and for every route but the root's revocation about the
\* authorization, that the client named; a repeated operation is acknowledged
\* with the same event every time.
THEOREM ReceiptsAreTheClients == EdgeSpec => []ReceiptsAnswerTheRequest
<1>1. ASSUME EdgeInv PROVE ReceiptsAnswerTheRequest
  <2> SUFFICES ASSUME NEW c \in Callers, response[c].code = "OK",
                      response[c].req.type \in DeviceMutationTypes
               PROVE  /\ deviceLog[response[c].event].device = response[c].req.device
                      /\ response[c].req.auth # NULL =>
                           deviceLog[response[c].event].auth = response[c].req.auth
                      /\ \A b \in Callers :
                           response[b].code = "OK" /\ response[b].req = response[c].req =>
                             response[b].event = response[c].event
    BY DEF ReceiptsAnswerTheRequest
  <2>1. IsDeviceRequest(response[c].req)
    BY DEF DeviceMutationTypes, IsDeviceRequest
  <2>2. /\ response[c].req \in Requests /\ EventOf(response[c].event, response[c].req)
        /\ response[c].req.auth # NULL =>
             deviceLog[response[c].event].auth = response[c].req.auth
    BY <1>1, <2>1 DEF EdgeInv, ExchangeOK, ResponseOK
  <2>3. deviceLog[response[c].event].device = response[c].req.device
    BY <2>2 DEF EventOf, EventsOf
  <2>4. ASSUME NEW b \in Callers, response[b].code = "OK", response[b].req = response[c].req
        PROVE  response[b].event = response[c].event
    <3>1. EventOf(response[b].event, response[c].req)
      BY <1>1, <2>1, <2>4 DEF EdgeInv, ExchangeOK, ResponseOK
    <3> QED
      BY <1>1, <2>1, <2>2, <3>1, OneEventOfAKind
  <2> QED
    BY <2>2, <2>3, <2>4
<1> QED
  BY <1>1, EdgeInvHolds, PTL

\* EdgeApi: ActiveStatementsEndWithTheAuthorization is an invariant. However
\* long an answer waited at the edge, a statement that a device is active is
\* signed before the authorization expires and is not valid after it.
THEOREM ActiveStatementsExpire == EdgeSpec => []ActiveStatementsEndWithTheAuthorization
<1>1. EdgeInv => ActiveStatementsEndWithTheAuthorization
  BY DEF EdgeInv, ExchangeOK, ResponseOK, IsStatusRequest, ActiveStatementsEndWithTheAuthorization
<1> QED
  BY <1>1, EdgeInvHolds, PTL

\* EdgeApi: EdgeServesAuthority is an invariant. What the edge demands of an
\* answer before it signs it refuses no answer of the registry, but for the two
\* cases it names.
THEOREM AuthorityIsServed == EdgeSpec => []EdgeServesAuthority
<1>1. EdgeInv => EdgeServesAuthority
  BY DEF EdgeInv, ExchangeOK, Serves, EdgeServesAuthority
<1> QED
  BY <1>1, EdgeInvHolds, PTL

\* EdgeApi: StatementsMoveForward holds of every step. A client that asks again
\* is not told of a state that the pair had before the one it knows: its own
\* exchanges follow one another, and what the registry reads it reads of rows
\* and a clock that do not go back.
THEOREM StatementsOnlyMoveForward == EdgeSpec => StatementsMoveForward
<1> DEFINE Back == ({"revoked"} \X {"unknown", "active", "expired"}) \cup
                   ({"expired"} \X {"unknown", "active"}) \cup {<<"active", "unknown">>}
           Forth == \A c \in Callers :
                      /\ response[c].code = "OK" /\ response'[c].code = "OK"
                      /\ response[c].req = response'[c].req /\ response[c].req.type = "deviceStatus"
                      => <<response[c].state, response'[c].state>> \notin Back
<1>1. ASSUME NEW s \in {"unknown", "active", "expired", "revoked"}, NEW t \in Onward(s)
      PROVE  <<s, t>> \notin Back
  BY <1>1 DEF Onward
<1>2. ASSUME EdgeInv, EdgeNext, NEW c \in Callers,
             response[c].code = "OK", response'[c].code = "OK",
             response[c].req = response'[c].req, IsStatusRequest(response[c].req)
      PROVE  <<response[c].state, response'[c].state>> \notin Back
  <2>0. response[c].state \in {"unknown", "active", "expired", "revoked"}
    BY <1>2 DEF EdgeInv, ExchangeOK, ResponseOK, WasSo
  <2>1. CASE response'[c] = response[c]
    BY <1>1, <2>0, <2>1, OnwardFacts
  <2>2. CASE Respond(c)
    <3>1. PICK s : s = Signed(call[c].req, call[c].reply)
      OBVIOUS
    <3>2. SignsWell(c, s)
      BY <1>2, <2>2, <3>1, SignedWell DEF Respond, EdgeInv
    <3>3. response'[c] = s
      BY <1>2, <2>2, <3>1 DEF Respond, Close, EdgeInv, EdgeTypeOK
    <3>4. call[c].pc = "replied" /\ c \in open
      BY <2>2 DEF Respond, Close
    <3>5. /\ s.req = call[c].req /\ call[c].reply.code = "OK"
          /\ s.state \in Onward(call[c].reply.body.deviceState)
      BY <1>2, <3>2, <3>3 DEF SignsWell
    <3>6. call[c].reply.body.deviceState \in Onward(response[c].state)
      BY <1>2, <3>3, <3>4, <3>5 DEF EdgeInv, ExchangeOK, MovesOn
    <3>7. s.state \in Onward(response[c].state)
      BY <2>0, <3>5, <3>6, OnwardFacts
    <3> QED
      BY <1>1, <2>0, <3>3, <3>7
  <2>3. ASSUME NEW x \in Callers, Respond(x) \/ LoseReply(x) \/ TurnAway(x), x # c
        PROVE  response'[c] = response[c]
    BY <1>2, <2>3 DEF Respond, LoseReply, TurnAway, Close, EdgeInv, EdgeTypeOK
  <2>4. ~LoseReply(c) /\ ~TurnAway(c)
    BY <1>2, RefusedIsOK DEF LoseReply, TurnAway, Close, EdgeInv, EdgeTypeOK
  <2>5. EdgeRestart => response'[c] = response[c]
    BY <1>2, RefusedIsOK DEF EdgeRestart, Codes
  <2> QED
    BY <1>2, <2>1, <2>2, <2>3, <2>4, <2>5 DEF EdgeNext, Forward
<1>3. EdgeInv /\ [EdgeNext]_edgeVars => [Forth]_edgeVars
  BY <1>2 DEF IsStatusRequest
<1>4. EdgeSpec => [][Forth]_edgeVars
  BY <1>3, EdgeInvHolds, PTL DEF EdgeSpec
<1> QED
  BY <1>4 DEF StatementsMoveForward

-----------------------------------------------------------------------------
(* What the pages of a wallet make of it *)

\* A wallet sends operations of the authorization it issued to a device, and a
\* revocation of an identity that it found active, or whose revocation it only
\* wants confirmed: either way of the sequence 0.
RequestsAreTheWallets ==
  \A r \in Requests :
    /\ IsDeviceRequest(r) => r.auth \in {NULL, IssuedAuth[r.device]}
    /\ IsIdentityRevocation(r) => r.expectedSequence = 0

\* A set of numbers that is not empty has a first.
LEMMA FirstOfSome ==
  ASSUME NEW S \in SUBSET Nat, S # {}
  PROVE  \E i \in S : \A j \in S : i <= j
<1>1. \E i \in S : \A j \in S : <<j, i>> \notin OpToRel(<, Nat)
  BY NatLessThanWellFounded, WFMin
<1>2. \A i, j \in S : <<j, i>> \notin OpToRel(<, Nat) => i <= j
  BY DEF OpToRel
<1> QED
  BY <1>1, <1>2

\* A verdict that is not "OK" is the error of one of the checks.
LEMMA VerdictIsOfACheck ==
  ASSUME NEW n \in Nat, NEW checks, DOMAIN checks = 1 .. n, Verdict(checks) # "OK"
  PROVE  \E i \in 1 .. n : checks[i] # "OK" /\ Verdict(checks) = checks[i]
<1> DEFINE failing == {j \in DOMAIN checks : checks[j] # "OK"}
<1> DEFINE first == CHOOSE j \in failing : \A k \in failing : j <= k
<1>1. failing # {} /\ Verdict(checks) = checks[first]
  BY DEF Verdict
<1>2. failing \in SUBSET Nat
  OBVIOUS
<1>3. \E j \in failing : \A k \in failing : j <= k
  <2> HIDE DEF failing
  <2> QED
    BY <1>1, <1>2, FirstOfSome
<1>4. first \in failing
  BY <1>3
<1> HIDE DEF first
<1> QED
  BY <1>1, <1>4

\* A receipt for which nothing is expected is refused for its key only.
LEMMA ReceiptsNeedTheirKey ==
  ASSUME NEW receipt, NEW keyset
  PROVE  /\ RegistryReceipt(receipt, keyset, << >>) \in {"OK", "KEY_NOT_FOUND"}
         /\ RegistryReceipt(receipt, keyset, << >>) = "KEY_NOT_FOUND" => receipt.kid \notin keyset
         /\ DeviceRegistryReceipt(receipt, keyset, << >>) \in {"OK", "KEY_NOT_FOUND"}
         /\ DeviceRegistryReceipt(receipt, keyset, << >>) = "KEY_NOT_FOUND" =>
              receipt.kid \notin keyset
<1>1. ASSUME NEW n \in Nat, NEW fields, DOMAIN fields = 1 .. n, NEW checks,
             checks = ServiceSignature(receipt, keyset) \o Differences(receipt, << >>, fields)
      PROVE  /\ Verdict(checks) \in {"OK", "KEY_NOT_FOUND"}
             /\ Verdict(checks) = "KEY_NOT_FOUND" => receipt.kid \notin keyset
  <2>1. PICK differ : differ = Differences(receipt, << >>, fields)
    OBVIOUS
  <2>2. differ = [i \in 1 .. n |-> "OK"]
    BY <1>1, <2>1 DEF Differences, Check
  <2>3. differ \in Seq({"OK"}) /\ Len(differ) = n
    BY <2>2
  <2>4. PICK key : key = Check(receipt.kid \notin keyset, "KEY_NOT_FOUND")
    OBVIOUS
  <2>5. checks = << key >> \o differ
    BY <1>1, <2>1, <2>4 DEF ServiceSignature
  <2>6. /\ DOMAIN checks = 1 .. n + 1 /\ checks[1] = key
        /\ \A i \in 2 .. n + 1 : checks[i] = "OK"
    BY <2>2, <2>3, <2>5
  <2> QED
    BY <2>4, <2>6, VerdictIsOfACheck DEF Check
<1>2. PICK fields : fields = << <<"type", "WRONG_EVENT_TYPE">>, <<"sequence", "SEQUENCE_CONFLICT">> >>
  OBVIOUS
<1>3. RegistryReceipt(receipt, keyset, << >>) =
        Verdict(ServiceSignature(receipt, keyset) \o Differences(receipt, << >>, fields))
  BY <1>2 DEF RegistryReceipt
<1>4. PICK more :
        more = << <<"operationId", "WRONG_OPERATION">>, <<"type", "WRONG_EVENT_TYPE">>,
                  <<"sequence", "SEQUENCE_CONFLICT">>, <<"device", "WRONG_DEVICE">>,
                  <<"auth", "WRONG_AUTHORIZATION">>, <<"expires", "WRONG_AUTHORIZATION">>,
                  <<"acceptedAt", "WRONG_STATE">>, <<"revokedBy", "WRONG_STATE">> >>
  OBVIOUS
<1>5. DeviceRegistryReceipt(receipt, keyset, << >>) =
        Verdict(ServiceSignature(receipt, keyset) \o Differences(receipt, << >>, more))
  BY <1>4 DEF DeviceRegistryReceipt
<1>6. DOMAIN fields = 1 .. 2
  BY <1>2
<1>7. DOMAIN more = 1 .. 8
  BY <1>4
<1> QED
  BY <1>1, <1>3, <1>5, <1>6, <1>7

\* A statement about the pair that was asked for is refused for its key, or
\* because it comes too early, or too late, or after the authorization.
LEMMA StatementsNeedTheirTime ==
  ASSUME NEW s, NEW keyset, NEW e, NEW v, NEW expected,
         expected = [device |-> s.device, auth |-> s.auth],
         v = DeviceStatusStatement(s, keyset, e, expected), v # "OK"
  PROVE  \/ v = "KEY_NOT_FOUND" /\ s.kid \notin keyset
         \/ v = "PROOF_NOT_YET_VALID" /\ s.iat > e.now + e.skew
         \/ v = "PROOF_EXPIRED" /\ e.now > s.exp
         \/ v = "DEVICE_EXPIRED" /\ s.state = "active" /\ e.now >= s.expires
<1>1. PICK a, b, c, d :
        /\ a = Check(s.kid \notin keyset, "KEY_NOT_FOUND")
        /\ b = Check(s.iat > e.now + e.skew, "PROOF_NOT_YET_VALID")
        /\ c = Check(e.now > s.exp, "PROOF_EXPIRED")
        /\ d = Check(s.state = "active" /\ e.now >= s.expires, "DEVICE_EXPIRED")
  OBVIOUS
<1>2. PICK fields : fields = << <<"device", "WRONG_DEVICE">>, <<"auth", "WRONG_AUTHORIZATION">>,
                                <<"state", "WRONG_STATE">>, <<"expires", "WRONG_AUTHORIZATION">> >>
  OBVIOUS
<1>3. Differences(s, expected, fields) = << "OK", "OK", "OK", "OK" >>
  <2>1. DOMAIN expected = {"device", "auth"} /\ expected["device"] = s.device /\ expected["auth"] = s.auth
    OBVIOUS
  <2>2. DOMAIN fields = 1 .. 4
    BY <1>2
  <2>3. ASSUME NEW i \in 1 .. 4
        PROVE  Check(fields[i][1] \in DOMAIN expected /\ s[fields[i][1]] # expected[fields[i][1]],
                     fields[i][2]) = "OK"
    <3>1. CASE i = 1
      BY <1>2, <2>1, <3>1 DEF Check
    <3>2. CASE i = 2
      BY <1>2, <2>1, <3>2 DEF Check
    <3>3. CASE i \in {3, 4}
      BY <1>2, <2>1, <3>3 DEF Check
    <3> QED
      BY <3>1, <3>2, <3>3
  <2>4. Differences(s, expected, fields) = [i \in 1 .. 4 |-> "OK"]
    BY <2>2, <2>3 DEF Differences
  <2> QED
    BY <2>4
<1>4. PICK checks : checks = << a >> \o << b, c >> \o << d >> \o << "OK", "OK", "OK", "OK" >>
  OBVIOUS
<1>5. v = Verdict(checks)
  BY <1>1, <1>2, <1>3, <1>4 DEF DeviceStatusStatement, ServiceSignature, StatementWindow
<1>6. DOMAIN checks = 1 .. 8 /\ \A i \in 1 .. 8 : checks[i] \in {a, b, c, d, "OK"}
  BY <1>4
<1>7. v \in {a, b, c, d}
  BY <1>5, <1>6, VerdictIsOfACheck
<1> QED
  BY <1>1, <1>7 DEF Check

LEMMA FieldsAgree ==
  ASSUME NEW c \in Callers
  PROVE  /\ LET s == StatementOf(c)
                r == response[c].req IN
            /\ s.kid = signedBy[c] /\ s.device = r.device /\ s.auth = r.auth
            /\ s.state = response[c].state /\ s.expires = ExpiresAt[r.auth]
            /\ s.iat = response[c].iat /\ s.exp = response[c].exp
         /\ LET receipt == DeviceReceiptOf(c)
                event == deviceLog[response[c].event] IN
            /\ receipt.kid = signedBy[c] /\ receipt.type = event.type
            /\ receipt.device = event.device /\ receipt.auth = event.auth
            /\ receipt.expires = event.expires /\ receipt.revokedBy = event.revokedBy
         /\ LET receipt == IdentityReceipt(c)
                event == actions[response[c].event] IN
            /\ receipt.kid = signedBy[c] /\ receipt.type = event.type
            /\ receipt.sequence = event.sequence
BY DEF StatementOf, DeviceReceiptOf, IdentityReceipt

\* The wallet's own demands on a receipt of a device operation are met by every
\* receipt that the edge gives for it.
LEMMA DeviceReceiptsConfirm ==
  ASSUME EdgeInv, RequestsAreTheWallets, NEW c \in Callers, response[c].code = "OK",
         IsDeviceRequest(response[c].req)
  PROVE  ConfirmedBy(response[c].req, DeviceReceiptOf(c))
<1> PICK r, n, event, receipt : /\ r = response[c].req /\ n = response[c].event
                                /\ event = deviceLog[n] /\ receipt = DeviceReceiptOf(c)
  OBVIOUS
<1>1. /\ r \in Requests /\ EventOf(n, r)
      /\ r.auth # NULL => event.auth = r.auth
  BY DEF EdgeInv, ExchangeOK, ResponseOK
<1>2. event.device = r.device /\ event.type = EventType(r) /\ n \in DOMAIN deviceLog
      /\ (r.type = "activate" => event.auth = r.auth)
  BY <1>1 DEF EventOf, EventsOf
<1>3. DeviceEventOK(event)
  BY <1>2 DEF EdgeInv, RegistryInv, RowsOK
<1>4. /\ receipt.type = event.type /\ receipt.device = event.device /\ receipt.auth = event.auth
      /\ receipt.expires = event.expires /\ receipt.revokedBy = event.revokedBy
  BY FieldsAgree
<1>5. CASE r.type = "activate"
  <2>1. /\ receipt.device = r.device /\ receipt.auth = r.auth /\ receipt.expires = ExpiresAt[r.auth]
        /\ receipt.type = "activated" /\ receipt.revokedBy = NULL
    BY <1>2, <1>3, <1>4, <1>5 DEF EventType, DeviceEventOK
  <2>2. PICK expected : expected = ActivationTransition(r)
    OBVIOUS
  <2>3. /\ DOMAIN expected = {"device", "auth", "expires", "type", "revokedBy"}
        /\ expected.device = r.device /\ expected.auth = r.auth
        /\ expected.expires = ExpiresAt[r.auth]
        /\ expected.type = "activated" /\ expected.revokedBy = NULL
    BY <2>2 DEF ActivationTransition
  <2>4. Confirmed(expected, receipt)
    BY <2>1, <2>3 DEF Confirmed
  <2> QED
    BY <1>5, <2>2, <2>4 DEF ConfirmedBy
<1>6. CASE r.type # "activate"
  <2>1. receipt.device = r.device /\ receipt.type = "revoked"
    BY <1>2, <1>4, <1>6 DEF EventType
  <2>2. receipt.revokedBy = "root" \/ (receipt.revokedBy = "device" /\ receipt.auth # NULL)
    BY <1>3, <1>4, <2>1 DEF DeviceEventOK
  <2>3. event.auth \in {NULL, IssuedAuth[r.device]}
    BY <1>2, <1>3 DEF DeviceEventOK, Named, RequestsAreTheWallets
  <2>4. r.type = "revokeSelf" => r.auth = IssuedAuth[r.device]
    BY <1>1, RequestNames DEF RequestsAreTheWallets
  <2> QED
    BY <1>4, <1>6, <2>1, <2>2, <2>3, <2>4 DEF ConfirmedBy, RevocationConfirmed
<1> QED
  BY <1>5, <1>6

\* Those on a receipt of the identity are, unless the identity that should be
\* registered was revoked meanwhile.
LEMMA IdentityReceiptsConfirm ==
  ASSUME EdgeInv, RequestsAreTheWallets, NEW c \in Callers, response[c].code = "OK",
         IsIdentityRequest(response[c].req), response[c].req.type # "status"
  PROVE  \/ Confirmed(IdentityTransition(response[c].req), IdentityReceipt(c))
         \/ response[c].req.type = "register" /\ identity.state = "revoked"
<1> PICK r, n, receipt : r = response[c].req /\ n = response[c].event /\ receipt = IdentityReceipt(c)
  OBVIOUS
<1>1. r \in Requests /\ n \in DOMAIN actions /\ (IsIdentityRevocation(r) => n = 2)
  BY DEF EdgeInv, ExchangeOK, ResponseOK
<1>2. receipt.type = actions[n].type /\ receipt.sequence = actions[n].sequence
  BY FieldsAgree
<1>3. actions \in Seq(IdentityEvents) /\ LifecycleMatchesActions
  BY DEF EdgeInv, RegistryInv, AnswersInv, FullInv, IInv, StoredOK
<1>4. /\ n \in {1, 2} /\ actions[1].type = "registered" /\ actions[n].sequence = n - 1
      /\ n = 2 => identity.state = "revoked" /\ actions[2].type = "revoked"
  <2>1. identity \in Rows
    BY DEF EdgeInv, RegistryInv, AnswersInv, FullInv, IInv, StoredOK
  <2>2. identity.state \in {"none", "active", "revoked"}
    BY <2>1 DEF Rows
  <2>3. n \in 1 .. Len(actions)
    BY <1>1, <1>3
  <2>4. CASE identity.state = "none"
    BY <1>3, <2>3, <2>4 DEF LifecycleMatchesActions
  <2>5. CASE identity.state = "active"
    BY <1>1, <1>3, <2>3, <2>5 DEF LifecycleMatchesActions
  <2>6. CASE identity.state = "revoked"
    BY <1>1, <1>3, <2>3, <2>6 DEF LifecycleMatchesActions
  <2> QED
    BY <2>2, <2>4, <2>5, <2>6
<1>5. PICK expected : expected = IdentityTransition(r)
  OBVIOUS
<1>6. /\ DOMAIN expected = {"type", "sequence"}
      /\ r.type = "register" => expected.type = "registered" /\ expected.sequence = 0
      /\ r.type # "register" => expected.type = "revoked" /\ expected.sequence = r.expectedSequence + 1
  BY <1>5 DEF IdentityTransition
<1>7. CASE r.type = "register" /\ n = 1
  BY <1>2, <1>4, <1>5, <1>7, <1>6 DEF Confirmed
<1>8. CASE r.type # "register"
  <2>1. IsIdentityRevocation(r)
    BY <1>1, <1>8, RequestFields DEF IsIdentityRequest, IsStatusRequest, IsIdentityRevocation,
                                     IsDeviceRequest
  <2>2. expected.type = "revoked" /\ expected.sequence = 1
    BY <1>1, <1>8, <1>6, <2>1 DEF RequestsAreTheWallets
  <2> QED
    BY <1>1, <1>2, <1>4, <1>5, <1>6, <2>1, <2>2 DEF Confirmed
<1> QED
  BY <1>4, <1>7, <1>8

\* What a page refuses it refuses with a reason.
LEMMA Judged ==
  ASSUME EdgeInv, PagesOK, RequestsAreTheWallets, NEW c \in Callers, Waiting(c),
         NEW v, v = WalletVerdict(c)
  PROVE  /\ v \notin {"none", "failed", "received"}
         /\ v = "KEY_NOT_FOUND" => KeysetIsOld(c)
         /\ v \notin {"OK", "KEY_NOT_FOUND"} /\ response[c].req.type = "deviceStatus" =>
              response[c].exp <= now
         /\ v \notin {"OK", "KEY_NOT_FOUND"} /\ response[c].req.type # "deviceStatus" =>
              response[c].req.type = "register" /\ identity.state = "revoked"
<1> PICK r : r = response[c].req
  OBVIOUS
<1>1. response[c].code = "OK" /\ signedBy[c] \in Published
  BY DEF PagesOK, PageOK, Waiting
<1>2. r \in Requests
  BY <1>1 DEF EdgeInv, ExchangeOK, ResponseOK
<1>3. signedBy[c] \notin pageKeys[c] => KeysetIsOld(c)
  BY <1>1 DEF KeysetIsOld
<1>4. CASE r.type = "status"
  BY <1>4 DEF WalletVerdict, DeviceMutationTypes
<1>5. CASE r.type = "deviceStatus"
  <2>1. PICK s, e, expected : /\ s = StatementOf(c) /\ e = [now |-> now, skew |-> WalletSkew]
                              /\ expected = [device |-> s.device, auth |-> s.auth]
    OBVIOUS
  <2>2. v = DeviceStatusStatement(s, pageKeys[c], e, expected)
    BY <1>5, <2>1, FieldsAgree DEF WalletVerdict, DeviceMutationTypes
  <2>3. /\ s.kid = signedBy[c] /\ s.state = response[c].state /\ s.expires = ExpiresAt[r.auth]
        /\ s.iat = response[c].iat /\ s.exp = response[c].exp
        /\ e.now = now /\ e.skew = WalletSkew
    BY <2>1, FieldsAgree
  <2>4. /\ s.iat \in Nat /\ s.exp \in Nat /\ s.iat <= now
        /\ s.state = "active" => s.exp <= s.expires
    BY <1>1, <1>5, <2>3 DEF EdgeInv, ExchangeOK, ResponseOK, IsStatusRequest
  <2>5. now \in Nat /\ WalletSkew \in Nat /\ ExpiresAt[r.auth] \in Nat
    <3>1. r.auth \in Auths
      BY <1>2, <1>5, RequestFields DEF DeviceStatusRequests
    <3> QED
      BY <3>1, WindowsAssumption, BoundsAssumption, ClientAssumption
      DEF EdgeInv, RegistryInv, AnswersInv, FullInv, IInv, ClockOK
  <2>6. CASE v = "OK"
    BY <1>5, <2>6
  <2>7. CASE v # "OK"
    <3>1. \/ v = "KEY_NOT_FOUND" /\ s.kid \notin pageKeys[c]
          \/ v = "PROOF_NOT_YET_VALID" /\ s.iat > e.now + e.skew
          \/ v = "PROOF_EXPIRED" /\ e.now > s.exp
          \/ v = "DEVICE_EXPIRED" /\ s.state = "active" /\ e.now >= s.expires
      BY <2>1, <2>2, <2>7, StatementsNeedTheirTime
    <3> QED
      BY <1>3, <1>5, <2>3, <2>4, <2>5, <3>1
  <2> QED
    BY <2>6, <2>7
<1>6. CASE IsDeviceRequest(r)
  <2>1. PICK first : /\ first = DeviceRegistryReceipt(DeviceReceiptOf(c), pageKeys[c], << >>)
                     /\ first \in {"OK", "KEY_NOT_FOUND"}
                     /\ first = "KEY_NOT_FOUND" => signedBy[c] \notin pageKeys[c]
    BY ReceiptsNeedTheirKey, FieldsAgree
  <2>2. v = Unless(first, ConfirmedBy(r, DeviceReceiptOf(c)))
    BY <1>6, <2>1 DEF WalletVerdict, IsDeviceRequest, DeviceMutationTypes
  <2>3. v = first
    BY <1>1, <1>6, <2>2, DeviceReceiptsConfirm DEF Unless
  <2> QED
    BY <1>3, <2>1, <2>3
<1>7. CASE IsIdentityRequest(r) /\ r.type # "status"
  <2>1. PICK first : /\ first = RegistryReceipt(IdentityReceipt(c), pageKeys[c], << >>)
                     /\ first \in {"OK", "KEY_NOT_FOUND"}
                     /\ first = "KEY_NOT_FOUND" => signedBy[c] \notin pageKeys[c]
    BY ReceiptsNeedTheirKey, FieldsAgree
  <2>2. v = Unless(first, Confirmed(IdentityTransition(r), IdentityReceipt(c)))
    BY <1>7, <2>1
    DEF WalletVerdict, IsIdentityRequest, IsStatusRequest, IsDeviceRequest, DeviceMutationTypes
  <2>3. \/ Confirmed(IdentityTransition(r), IdentityReceipt(c))
        \/ r.type = "register" /\ identity.state = "revoked"
    BY <1>1, <1>7, IdentityReceiptsConfirm
  <2> QED
    BY <1>3, <2>1, <2>2, <2>3 DEF Unless
<1> QED
  BY <1>4, <1>5, <1>6, <1>7 DEF IsIdentityRequest, IsStatusRequest

LEMMA EdgeStays ==
  ASSUME EdgeInv, [EdgeNext]_edgeVars
  PROVE  HistoryStays
<1>1. Next => HistoryStays
  BY NextKeepsRegistry DEF EdgeInv
<1>2. UNCHANGED <<stored, now>> => HistoryStays
  BY QuietStays DEF EdgeInv, RegistryInv, AnswersInv, FullInv
<1>3. CASE UNCHANGED edgeVars
  BY <1>2, <1>3 DEF edgeVars, vars, stored
<1>4. CASE EdgeNext
  <2>1. Next \/ \E c \in Callers : TurnAway(c) \/ Respond(c) \/ LoseReply(c)
    BY <1>4 DEF EdgeNext, Forward, EdgeRestart, Next
  <2> QED
    BY <1>1, <1>2, <2>1 DEF TurnAway, Respond, LoseReply
<1> QED
  BY <1>3, <1>4

\* What a page has made of an answer stays right while its exchange rests.
LEMMA PageStays ==
  ASSUME EdgeInv, EdgeInv', HistoryStays, PagesOK, NEW x \in Callers,
         Published \subseteq Published',
         response'[x] = response[x], x \in open' => x \in open,
         pageKeys'[x] = pageKeys[x], signedBy'[x] = signedBy[x], verdict'[x] = verdict[x]
  PROVE  PageOK(x)'
<1>1. PageOK(x)
  BY DEF PagesOK
<1>2. KeysetIsOld(x) => KeysetIsOld(x)'
  BY DEF KeysetIsOld
<1>3. now \in Nat /\ now' \in Nat /\ now <= now'
  BY BoundsAssumption DEF EdgeInv, RegistryInv, AnswersInv, FullInv, IInv, ClockOK, HistoryStays
<1>4. response[x].code = "OK" /\ response[x].req.type = "deviceStatus" => response[x].exp \in Nat
  BY DEF EdgeInv, ExchangeOK, ResponseOK, IsStatusRequest
<1>5. response[x].code = "OK" /\ RefusedJustly(x) => RefusedJustly(x)'
  <2>1. CASE verdict[x] = "KEY_NOT_FOUND"
    BY <1>2, <2>1 DEF RefusedJustly
  <2>2. CASE verdict[x] # "KEY_NOT_FOUND" /\ response[x].req.type = "deviceStatus"
    BY <1>3, <1>4, <2>2 DEF RefusedJustly
  <2>3. CASE verdict[x] # "KEY_NOT_FOUND" /\ response[x].req.type # "deviceStatus"
    BY <2>3 DEF RefusedJustly, HistoryStays
  <2> QED
    BY <2>1, <2>2, <2>3
<1> QED
  BY <1>1, <1>5 DEF PageOK, Waiting

\* A page that is done with its last answer.
LEMMA PageIsDone ==
  ASSUME NEW x \in Callers, verdict'[x] = "none"
  PROVE  PageOK(x)'
BY DEF PageOK, Waiting

LEMMA ResolveShape ==
  ASSUME PagesOK, NEW c \in Callers, NEW made, Resolve(c, made)
  PROVE  /\ DOMAIN signedBy' = Callers /\ DOMAIN verdict' = Callers
         /\ verdict'[c] = made
         /\ \A x \in Callers : x # c => verdict'[x] = verdict[x] /\ signedBy'[x] = signedBy[x]
BY DEF Resolve, PagesOK

LEMMA InitClient == ClientInit => ClientInv
<1> SUFFICES ASSUME ClientInit PROVE ClientInv
  OBVIOUS
<1>1. EdgeInv
  BY InitEdge DEF ClientInit
<1>2. kids \in [Purposes -> 0 .. MaxRotations]
  BY ClientAssumption DEF ClientInit
<1>3. \A c \in Callers : PageOK(c)
  BY DEF ClientInit, PageOK, Waiting
<1> QED
  BY <1>1, <1>2, <1>3 DEF ClientInv, PagesOK, ClientInit

\* Every step of a page is one of the edge or leaves the edge alone.
LEMMA ClientIsEdge ==
  ASSUME [ClientNext]_clientVars
  PROVE  [EdgeNext]_edgeVars
BY DEF ClientNext, clientVars, EdgeNext, Send, Refuse, Receive, LoadServiceKeyset, Judge, ReloadPage,
       RotateServiceKey

LEMMA PublishedOnly ==
  ASSUME kids \in [Purposes -> 0 .. MaxRotations], kids' \in [Purposes -> 0 .. MaxRotations],
         \A purpose \in Purposes : kids[purpose] <= kids'[purpose]
  PROVE  Published \subseteq Published'
<1> SUFFICES ASSUME NEW key \in Published PROVE key \in Published'
  OBVIOUS
<1>1. /\ key \in Purposes \X (0 .. MaxRotations) /\ key[2] <= kids[key[1]]
      /\ key[1] \in Purposes /\ key[2] \in Int
  BY DEF Published
<1>2. kids[key[1]] \in Int /\ kids'[key[1]] \in Int /\ kids[key[1]] <= kids'[key[1]]
  BY <1>1
<1>3. key[2] <= kids'[key[1]]
  BY <1>1, <1>2
<1> QED
  BY <1>1, <1>3 DEF Published

LEMMA ClientStep ==
  ASSUME RequestsAreTheWallets, ClientInv, [ClientNext]_clientVars
  PROVE  ClientInv'
<1>0. EdgeInv /\ PagesOK /\ kids \in [Purposes -> 0 .. MaxRotations]
  BY DEF ClientInv, PagesOK
<1>1. EdgeInv' /\ HistoryStays
  BY <1>0, ClientIsEdge, EdgeStep, EdgeStays
<1>2. ASSUME UNCHANGED kids PROVE Published \subseteq Published'
  BY <1>2 DEF Published
<1>3. DOMAIN response = Callers
  BY <1>0 DEF EdgeInv, EdgeTypeOK
<1>4. ASSUME UNCHANGED <<open, response, kids, pageKeys, signedBy, verdict>> PROVE PagesOK'
  BY <1>0, <1>1, <1>2, <1>4, PageStays DEF PagesOK
<1>5. ASSUME NEW c \in Callers, NEW made, Resolve(c, made), UNCHANGED kids,
             PageOK(c)', DOMAIN pageKeys' = Callers,
             \A x \in Callers : x # c => /\ response'[x] = response[x]
                                         /\ x \in open' => x \in open
                                         /\ pageKeys'[x] = pageKeys[x]
      PROVE  PagesOK'
  <2>1. /\ DOMAIN signedBy' = Callers /\ DOMAIN verdict' = Callers
        /\ \A x \in Callers : x # c => verdict'[x] = verdict[x] /\ signedBy'[x] = signedBy[x]
    BY <1>0, <1>5, ResolveShape
  <2>2. ASSUME NEW x \in Callers, x # c PROVE PageOK(x)'
    BY <1>0, <1>1, <1>2, <1>5, <2>1, <2>2, PageStays
  <2> QED
    BY <1>0, <1>5, <2>1, <2>2 DEF PagesOK
<1>6. ASSUME NEW c \in Callers, NEW r \in Requests, Send(c, r) PROVE PagesOK'
  <2>1. verdict'[c] = "none"
    BY <1>0, <1>6, ResolveShape DEF Send
  <2>2. PageOK(c)'
    BY <2>1, PageIsDone
  <2> QED
    BY <1>0, <1>5, <1>6, <2>2 DEF Send, Forward, PagesOK
<1>7. ASSUME NEW c \in Callers, Refuse(c) PROVE PagesOK'
  <2>1. verdict'[c] = "none"
    BY <1>0, <1>7, ResolveShape DEF Refuse
  <2>2. PageOK(c)'
    BY <2>1, PageIsDone
  <2>3. UNCHANGED open /\ \A x \in Callers : x # c => response'[x] = response[x]
    BY <1>3, <1>7 DEF Refuse, TurnAway
  <2> QED
    BY <1>0, <1>5, <1>7, <2>2, <2>3 DEF Refuse, PagesOK
<1>8. ASSUME NEW c \in Callers, Receive(c) PROVE PagesOK'
  <2>1. /\ c \in open /\ open' = open \ {c} /\ UNCHANGED <<kids, pageKeys>>
        /\ \A x \in Callers : x # c => response'[x] = response[x]
    BY <1>3, <1>8 DEF Receive, Respond, Close
  <2>2. verdict[c] = "none" /\ DOMAIN verdict = Callers /\ DOMAIN signedBy = Callers
    BY <1>0, <2>1 DEF PagesOK, PageOK
  <2>3. /\ DOMAIN signedBy' = Callers /\ DOMAIN verdict' = Callers
        /\ \A x \in Callers : x # c => verdict'[x] = verdict[x] /\ signedBy'[x] = signedBy[x]
    BY <1>8, <2>2 DEF Receive
  <2>4. ASSUME NEW x \in Callers, x # c PROVE PageOK(x)'
    BY <1>0, <1>1, <1>2, <2>1, <2>3, <2>4, PageStays
  <2>5. PageOK(c)'
    <3>1. CASE response'[c].code = "OK"
      <4>1. PICK purpose \in Purposes :
              verdict'[c] = "received" /\ signedBy'[c] = <<purpose, kids[purpose]>>
        BY <1>8, <2>2, <3>1 DEF Receive, SigningPurpose, Purposes
      <4>2. kids[purpose] \in 0 .. MaxRotations /\ kids' = kids
        BY <1>0, <2>1
      <4>3. signedBy'[c] \in Published'
        BY <4>1, <4>2 DEF Published
      <4> QED
        BY <2>1, <3>1, <4>1, <4>3 DEF PageOK, Waiting
    <3>2. CASE response'[c].code # "OK"
      <4>1. verdict'[c] = "none"
        BY <1>8, <2>2, <3>2 DEF Receive
      <4> QED
        BY <4>1, PageIsDone
    <3> QED
      BY <3>1, <3>2
  <2> QED
    BY <1>0, <2>1, <2>3, <2>4, <2>5 DEF PagesOK
<1>9. ASSUME NEW c \in Callers, LoadServiceKeyset(c) PROVE PagesOK'
  <2>1. /\ UNCHANGED <<open, response, kids>> /\ Waiting(c)
        /\ response[c].code = "OK" /\ signedBy[c] \in Published /\ c \notin open
    BY <1>0, <1>9 DEF LoadServiceKeyset, edgeVars, PagesOK, PageOK, Waiting
  <2>2. CASE pageKeys' = [pageKeys EXCEPT ![c] = Published] /\ UNCHANGED <<verdict, signedBy>>
    <3>1. DOMAIN pageKeys' = Callers /\ \A x \in Callers : x # c => pageKeys'[x] = pageKeys[x]
      BY <1>0, <2>2 DEF PagesOK
    <3>2. ASSUME NEW x \in Callers, x # c PROVE PageOK(x)'
      BY <1>0, <1>1, <1>2, <2>1, <2>2, <3>1, <3>2, PageStays
    <3>3. PageOK(c)'
      BY <1>2, <2>1, <2>2 DEF PageOK, Waiting
    <3> QED
      BY <1>0, <2>1, <2>2, <3>1, <3>2, <3>3 DEF PagesOK
  <2>3. CASE Resolve(c, "failed") /\ UNCHANGED pageKeys
    <3>1. verdict'[c] = "failed"
      BY <1>0, <2>3, ResolveShape
    <3>2. PageOK(c)'
      BY <2>1, <3>1 DEF PageOK, Waiting
    <3> QED
      BY <1>0, <1>5, <2>1, <2>3, <3>2 DEF PagesOK
  <2> QED
    BY <1>9, <2>2, <2>3 DEF LoadServiceKeyset
<1>10. ASSUME NEW c \in Callers, Judge(c) PROVE PagesOK'
  <2>1. PICK v : v = WalletVerdict(c)
    OBVIOUS
  <2>2. /\ UNCHANGED <<open, response, kids, pageKeys, now, identity>> /\ Waiting(c) /\ Resolve(c, v)
        /\ response[c].code = "OK" /\ c \notin open
    BY <1>0, <1>10, <2>1 DEF Judge, edgeVars, vars, PagesOK, PageOK, Waiting
  <2>3. verdict'[c] = v
    BY <1>0, <2>2, ResolveShape
  <2>4. KeysetIsOld(c) => KeysetIsOld(c)'
    BY <1>2, <2>2 DEF KeysetIsOld
  <2>5. PageOK(c)'
    <3>1. v \notin {"none", "failed", "received"}
      BY <1>0, <2>1, <2>2, Judged
    <3>2. v # "OK" => RefusedJustly(c)'
      <4>1. CASE v = "KEY_NOT_FOUND"
        BY <1>0, <2>1, <2>2, <2>3, <2>4, <4>1, Judged DEF RefusedJustly
      <4>2. CASE v \notin {"OK", "KEY_NOT_FOUND"} /\ response[c].req.type = "deviceStatus"
        BY <1>0, <2>1, <2>2, <2>3, <4>2, Judged DEF RefusedJustly
      <4>3. CASE v \notin {"OK", "KEY_NOT_FOUND"} /\ response[c].req.type # "deviceStatus"
        BY <1>0, <2>1, <2>2, <2>3, <4>3, Judged DEF RefusedJustly
      <4> QED
        BY <4>1, <4>2, <4>3
    <3> QED
      BY <2>2, <2>3, <3>1, <3>2 DEF PageOK, Waiting
  <2> QED
    BY <1>0, <1>5, <2>2, <2>5 DEF PagesOK
<1>11. ASSUME NEW c \in Callers, ReloadPage(c) PROVE PagesOK'
  <2>1. verdict'[c] = "none"
    BY <1>0, <1>11, ResolveShape DEF ReloadPage
  <2>2. PageOK(c)'
    BY <2>1, PageIsDone
  <2>3. /\ UNCHANGED <<open, response, kids>> /\ DOMAIN pageKeys' = Callers
        /\ \A x \in Callers : x # c => pageKeys'[x] = pageKeys[x]
    BY <1>0, <1>11 DEF ReloadPage, edgeVars, PagesOK
  <2> QED
    BY <1>5, <1>11, <2>2, <2>3 DEF ReloadPage
<1>12. ASSUME NEW c \in Callers, LoseReply(c), UNCHANGED pageVars PROVE PagesOK'
  <2>1. /\ c \in open /\ open' = open \ {c}
        /\ \A x \in Callers : x # c => response'[x] = response[x]
        /\ UNCHANGED <<kids, pageKeys, signedBy, verdict>>
    BY <1>3, <1>12 DEF LoseReply, Close, pageVars
  <2>2. PageOK(c)'
    BY <1>0, <2>1, PageIsDone DEF PagesOK, PageOK
  <2>3. ASSUME NEW x \in Callers, x # c PROVE PageOK(x)'
    BY <1>0, <1>1, <1>2, <2>1, <2>3, PageStays
  <2> QED
    BY <1>0, <2>1, <2>2, <2>3 DEF PagesOK
<1>13. ASSUME EdgeRestart, UNCHANGED pageVars PROVE PagesOK'
  <2>1. /\ \A x \in Callers : x \in open' => x \in open
        /\ \A x \in Callers : x \in open \/ response'[x] = response[x]
        /\ UNCHANGED <<kids, pageKeys, signedBy, verdict>>
    BY <1>13 DEF EdgeRestart, pageVars
  <2>2. ASSUME NEW x \in Callers PROVE PageOK(x)'
    <3>1. CASE x \in open
      BY <1>0, <2>1, <3>1, PageIsDone DEF PagesOK, PageOK
    <3>2. CASE x \notin open
      BY <1>0, <1>1, <1>2, <2>1, <3>2, PageStays
    <3> QED
      BY <3>1, <3>2
  <2> QED
    BY <1>0, <2>1, <2>2 DEF PagesOK
<1>14. ASSUME NEW purpose \in Purposes, RotateServiceKey(purpose) PROVE PagesOK'
  <2>1. /\ kids' = [kids EXCEPT ![purpose] = @ + 1] /\ kids[purpose] < MaxRotations
        /\ UNCHANGED <<open, response, pageKeys, signedBy, verdict>>
    BY <1>14 DEF RotateServiceKey, edgeVars
  <2>2. /\ kids' \in [Purposes -> 0 .. MaxRotations]
        /\ \A p \in Purposes : kids[p] <= kids'[p]
    BY <1>0, <2>1, ClientAssumption
  <2>3. Published \subseteq Published'
    BY <1>0, <2>2, PublishedOnly
  <2> QED
    BY <1>0, <1>1, <2>1, <2>2, <2>3, PageStays DEF PagesOK
<1>15. ASSUME ClientNext PROVE PagesOK'
  <2>1. \/ \E c \in Callers, r \in Requests : Send(c, r)
        \/ \E c \in Callers :
             \/ Refuse(c) \/ Receive(c) \/ LoadServiceKeyset(c) \/ Judge(c) \/ ReloadPage(c)
             \/ LoseReply(c) /\ UNCHANGED pageVars
        \/ UNCHANGED <<open, response>> /\ UNCHANGED pageVars
        \/ EdgeRestart /\ UNCHANGED pageVars
        \/ \E purpose \in Purposes : RotateServiceKey(purpose)
    BY <1>15 DEF ClientNext
  <2> QED
    BY <2>1, <1>4, <1>6, <1>7, <1>8, <1>9, <1>10, <1>11, <1>12, <1>13, <1>14 DEF pageVars
<1>16. UNCHANGED clientVars => PagesOK'
  BY <1>4 DEF clientVars, edgeVars, pageVars
<1> QED
  BY <1>1, <1>15, <1>16 DEF ClientInv

-----------------------------------------------------------------------------
(* The theorem about the wallet *)

\* What the edge tells a client is so, and stays so.
LEMMA BeliefsAreTrue ==
  ASSUME EdgeInv, NEW c \in Callers, response[c].code = "OK"
  PROVE  BeliefIsTrue(c)
<1> PICK r, n : r = response[c].req /\ n = response[c].event
  OBVIOUS
<1>1. r \in Requests
  BY DEF EdgeInv, ExchangeOK, ResponseOK
<1>2. /\ identity \in Rows /\ LifecycleMatchesActions /\ RowsMatchLog
      /\ actions \in Seq(IdentityEvents) /\ device \in [Devices -> DeviceRows]
  BY DEF EdgeInv, RegistryInv, AnswersInv, FullInv, IInv, StoredOK
<1>3. ASSUME IsIdentityRequest(r)
      PROVE  identity.state # "none" /\ (IsIdentityRevocation(r) => identity.state = "revoked")
  <2>1. n \in 1 .. Len(actions) /\ (IsIdentityRevocation(r) => n = 2)
    BY <1>2, <1>3 DEF EdgeInv, ExchangeOK, ResponseOK
  <2>2. identity.state \in {"none", "active", "revoked"}
    BY <1>2 DEF Rows
  <2>3. identity.state = "none" => Len(actions) = 0
    BY <1>2 DEF LifecycleMatchesActions
  <2>4. identity.state = "active" => Len(actions) = 1
    BY <1>2 DEF LifecycleMatchesActions
  <2>5. CASE identity.state = "none"
    BY <2>1, <2>3, <2>5
  <2>6. CASE identity.state = "active"
    <3>1. Len(actions) = 1
      BY <2>4, <2>6
    <3>2. n = 1
      BY <2>1, <3>1
    <3>3. ~IsIdentityRevocation(r)
      BY <2>1, <3>2
    <3> QED
      BY <2>6, <3>3
  <2> QED
    BY <2>2, <2>5, <2>6
<1>4. ASSUME IsDeviceRequest(r)
      PROVE  /\ r.type = "activate" => device[r.device].auth = r.auth
             /\ r.type # "activate" => device[r.device].state = "revoked"
  <2>1. EventOf(n, r)
    BY <1>4 DEF EdgeInv, ExchangeOK, ResponseOK
  <2>2. r.device \in Devices
    BY <1>1, <1>4, RequestFields DEF DeviceRequests
  <2>3. CASE r.type = "activate"
    <3>1. n \in EventsOf(r.device, "activated") /\ deviceLog[n].auth = r.auth
      BY <2>1, <2>3 DEF EventOf, EventType
    <3>2. device[r.device].activation = n /\ n # NULL
      BY <1>2, <2>2, <3>1 DEF RowsMatchLog
    <3> QED
      BY <1>2, <2>2, <2>3, <3>1, <3>2 DEF RowsMatchLog
  <2>4. CASE r.type # "activate"
    <3>1. n \in EventsOf(r.device, "revoked")
      BY <2>1, <2>4 DEF EventOf, EventType
    <3>2. device[r.device].revocation # NULL
      BY <1>2, <2>2, <3>1 DEF RowsMatchLog
    <3> QED
      BY <1>2, <2>2, <2>4, <3>2 DEF RowsMatchLog
  <2> QED
    BY <2>3, <2>4
<1>5. IsStatusRequest(r) /\ response[c].state = "revoked" =>
        EffectiveState(r.device, r.auth) = "revoked"
  BY DEF EdgeInv, ExchangeOK, ResponseOK, WasSo, Onward
<1>6. /\ r.type \in {"register", "revokeBySecret", "revokeBySignature"} => IsIdentityRequest(r)
      /\ r.type \in {"revokeBySecret", "revokeBySignature"} => IsIdentityRevocation(r)
      /\ r.type \in {"activate", "revokeSelf", "revokeRoot"} => IsDeviceRequest(r)
      /\ r.type = "deviceStatus" => IsStatusRequest(r)
  BY DEF IsIdentityRequest, IsStatusRequest, IsDeviceRequest, IsIdentityRevocation
<1>7. CASE r.type = "register"
  BY <1>3, <1>6, <1>7 DEF BeliefIsTrue
<1>8. CASE r.type \in {"revokeBySecret", "revokeBySignature"}
  BY <1>3, <1>6, <1>8 DEF BeliefIsTrue
<1>9. CASE r.type = "activate"
  BY <1>4, <1>6, <1>9 DEF BeliefIsTrue
<1>10. CASE r.type \in {"revokeSelf", "revokeRoot"}
  BY <1>4, <1>6, <1>10 DEF BeliefIsTrue
<1>11. CASE r.type \notin {"register", "revokeBySecret", "revokeBySignature", "activate",
                           "revokeSelf", "revokeRoot"}
  BY <1>5, <1>6, <1>11 DEF BeliefIsTrue
<1> QED
  BY <1>7, <1>8, <1>9, <1>10, <1>11

LEMMA RefusalsAreJust ==
  ASSUME EdgeInv, PagesOK, NEW c \in Callers,
         verdict[c] \notin {"none", "failed", "received", "OK"}
  PROVE  RefusalIsJust(c)
<1>1. RefusedJustly(c)
  BY DEF PagesOK, PageOK
<1>2. KeysetIsOld(c) => pageKeys[c] # Published
  BY DEF KeysetIsOld
<1>3. CASE verdict[c] = "KEY_NOT_FOUND"
  BY <1>1, <1>2, <1>3 DEF RefusedJustly, RefusalIsJust
<1>4. CASE verdict[c] # "KEY_NOT_FOUND"
  BY <1>1, <1>4 DEF RefusedJustly, RefusalIsJust
<1> QED
  BY <1>3, <1>4

\* RegistryClient: ClientInv is an invariant for the requests that wallets send.
\* A page that waits for a verdict has an answer that is true and whose key the
\* service publishes; one that refused its answer has a reason that stays.
THEOREM ClientInvHolds ==
  ASSUME RequestsAreTheWallets
  PROVE  ClientSpec => []ClientInv
<1>1. ClientInv /\ [ClientNext]_clientVars => ClientInv'
  BY ClientStep
<1> QED
  BY InitClient, <1>1, PTL DEF ClientSpec

\* RegistryClient: AuthorityReachesTheWallet is an invariant for the requests
\* that wallets send. Neither the edge's validation nor the wallet's refuses an
\* answer of the registry but for the reasons that are named, however often it
\* was repeated, lost, overtaken or signed with a new key; and what a wallet
\* believes is so in the registry from then on.
THEOREM WalletsBelieveTheAuthority ==
  ASSUME RequestsAreTheWallets
  PROVE  ClientSpec => []AuthorityReachesTheWallet
<1>1. ASSUME ClientInv PROVE AuthorityReachesTheWallet
  <2>1. EdgeServesAuthority
    BY <1>1 DEF ClientInv, EdgeInv, ExchangeOK, Serves, EdgeServesAuthority
  <2>2. ASSUME NEW c \in Callers, verdict[c] = "OK" PROVE BeliefIsTrue(c)
    <3>1. response[c].code = "OK"
      BY <1>1, <2>2 DEF ClientInv, PagesOK, PageOK
    <3> QED
      BY <1>1, <3>1, BeliefsAreTrue DEF ClientInv
  <2>3. ASSUME NEW c \in Callers, verdict[c] \notin {"none", "failed", "received", "OK"}
        PROVE  RefusalIsJust(c)
    BY <1>1, <2>3, RefusalsAreJust DEF ClientInv
  <2>4. WalletBelievesTheEdge
    BY <2>2, <2>3 DEF WalletBelievesTheEdge
  <2> QED
    BY <2>1, <2>4 DEF AuthorityReachesTheWallet
<1> QED
  BY <1>1, ClientInvHolds, PTL
=============================================================================
